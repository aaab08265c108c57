CONSTANTS
  Desks <- MCDesks
  Tasks = 3
  Entries <- MCEntries
SPECIFICATION LayoutSpec
INVARIANT ClickedTaskIsKilled
CHECK_DEADLOCK FALSE
