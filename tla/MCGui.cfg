SPECIFICATION MCSpec
CONSTANTS
  MAX_WINDOWS = 2
  Places = {1, 2}
  ROWS = 2
  COLS = 3
  INPUT_SIZE = 5
  Keys = {"a", "b"}
  Prompt <- MCPrompt
  MAX_LINES = 4
  WIDTH = 3
  HEIGHT = 2
  Glyphs = {"x"}
  VGA_LINES = 4
  KB_BUF_SIZE = 3
  EVENTS = 3
  MAX_X = 4
  MAX_Y = 3
  Moves <- MCMoves
  Desks <- MCDesks
  Tasks = 3
  Entries <- MCEntries
  FB_WIDTH = 3
  FB_HEIGHT = 4
  STRIDE = 4
  CELL = 2
  Colours = {"k", "g"}
  Font <- MCFont
  Strings <- MCStrings
  Origins <- MCOrigins
  Sizes = {0, 2, 4}
  DRAWINGS = 2
INVARIANTS
  
  WindowsConsistent
  ScreensShowTail
  
PROPERTIES
  KeyboardImplementsChannel
  KeysReachScreen
CHECK_DEADLOCK FALSE
