----------------------------- MODULE TextScreens ----------------------------
(***************************************************************************)
(* The two screens of rows and columns: the terminal window and the text   *)
(* mode of the graphics card.                                              *)
(***************************************************************************)
EXTENDS Integers, Sequences, SequencesExt

(***************************************************************************)
(* The text of a terminal window in kernel/gui/desktop.c: the rows, the    *)
(* cursor, the input line, and the output of a command, which reaches the  *)
(* window through the callback of the console.                             *)
(***************************************************************************)

CONSTANTS
  ROWS, COLS,  \* BLACK_TERM_ROWS, BLACK_TERM_COLS
  INPUT_SIZE,  \* the size of black_term_input, 256 in the code
  Keys,        \* the printable characters
  Prompt,      \* the prompt, a sequence of characters
  MAX_LINES    \* the rows that are ever begun: bounds the run

Blank == [x \in 1 .. COLS |-> ""]

VARIABLES
  termbuf,   \* black_termbuf: a sequence of ROWS rows
  cx, cy,    \* black_term_cx, black_term_cy
  input,     \* black_term_input as far as black_term_input_pos
  running,   \* a command is running and prints
  lines,     \* every row ever begun: not in the code
  prompted   \* the row that the prompt begins, or 0: not in the code

term == <<termbuf, cx, cy, input, running, lines, prompted>>

\* The text state as one value, for the operators below.
Text == [buf |-> termbuf, x |-> cx, y |-> cy, all |-> lines]

\* black_term_scroll
ScrolledKeepsLast(t) ==
  [t EXCEPT !.buf = [r \in 1 .. ROWS |-> IF r = ROWS THEN t.buf[ROWS] ELSE t.buf[r + 1]], !.y = @ - 1]
Scrolled(t) ==
  [t EXCEPT !.buf = [r \in 1 .. ROWS |-> IF r = ROWS THEN Blank ELSE t.buf[r + 1]],
            !.y = @ - 1]

NewLine(t) ==
  LET down == [t EXCEPT !.x = 0, !.y = @ + 1, !.all = Append(@, Blank)]
  IN IF down.y >= ROWS THEN Scrolled(down) ELSE down

\* Store c under the cursor.
Stored(t, c) ==
  [t EXCEPT !.buf[t.y + 1][t.x + 1] = c, !.all[Len(t.all)][t.x + 1] = c]

\* black_term_putchar: a full row is left only when the next character comes.
PutChar(t, c) ==
  IF c = "NL" THEN NewLine(t)
  ELSE IF c = "BS" THEN IF t.x > 0 THEN Stored([t EXCEPT !.x = @ - 1], "") ELSE t
  ELSE LET u == IF t.x >= COLS THEN NewLine(t) ELSE t
       IN [Stored(u, c) EXCEPT !.x = @ + 1]

Puts(t, s) == FoldLeft(PutChar, t, s)

SetText(t) ==
  /\ Len(t.all) <= MAX_LINES
  /\ termbuf' = t.buf /\ cx' = t.x /\ cy' = t.y /\ lines' = t.all

\* black_term_prompt
ShowPrompt(t) ==
  LET p == Puts(t, Prompt)
  IN /\ SetText(p)
     /\ prompted' = IF t.x = 0 THEN Len(t.all) ELSE 0
     /\ input' = <<>>

\* The first key in a fresh window greets with one line and the prompt.
TermInit ==
  LET fresh == [buf |-> [r \in 1 .. ROWS |-> Blank], x |-> 0, y |-> 0, all |-> <<Blank>>]
      t     == Puts(NewLine(Stored(fresh, "w")), Prompt)
  IN /\ termbuf = t.buf /\ cx = t.x /\ cy = t.y /\ lines = t.all
     /\ input = <<>> /\ running = FALSE /\ prompted = 2
-----------------------------------------------------------------------------
\* black_gui_key_input for a printable key, backspace and enter.  A full
\* input line takes no more characters, the screen does.
KeyChar(c) ==
  /\ ~running
  /\ input' = IF Len(input) < INPUT_SIZE - 1 THEN Append(input, c) ELSE input
  /\ SetText(PutChar(Text, c))
  /\ UNCHANGED <<running, prompted>>

KeyBackspace ==
  /\ ~running /\ input # <<>>
  /\ input' = Front(input)
  /\ SetText(PutChar(Text, "BS"))
  /\ UNCHANGED <<running, prompted>>

\* An empty line only prints the prompt again.
KeyEnter ==
  /\ ~running
  /\ \/ /\ input = <<>>
        /\ ShowPrompt(NewLine(Text)) /\ UNCHANGED running
     \/ /\ input # <<>>
        /\ SetText(NewLine(Text)) /\ running' = TRUE /\ prompted' = 0
        /\ UNCHANGED input

\* black_term_exec: whatever the commands of black_execute_cmd print comes
\* through black_vga_putchar, then the prompt follows; halt never gets there.
Output(c) ==
  /\ running
  /\ SetText(PutChar(Text, c))
  /\ UNCHANGED <<input, running, prompted>>

ExecDone ==
  /\ running
  /\ running' = FALSE
  /\ ShowPrompt(Text)

TermNext ==
  \/ \E c \in Keys : KeyChar(c) \/ Output(c)
  \/ KeyBackspace \/ KeyEnter \/ Output("NL") \/ ExecDone
-----------------------------------------------------------------------------
\* The cursor stays in the buffer; after the last column it waits there.
TermTypeOK ==
  /\ cx \in 0 .. COLS /\ cy \in 0 .. ROWS - 1
  /\ Len(input) < INPUT_SIZE

\* The window is faithful.  It shows the latest of all the rows ever begun,
\* in order and with nothing below the cursor, however it was scrolled; and
\* as long as the row that the prompt begins has not been left, it is the
\* prompt and the input after it, so what is seen is what Enter will run.
ShowsTail ==
  /\ \A y \in 0 .. ROWS - 1 :
       termbuf[y + 1] = IF y <= cy THEN lines[Len(lines) - cy + y] ELSE Blank
  /\ prompted = Len(lines) /\ Len(Prompt) + Len(input) <= COLS =>
       lines[prompted] = [x \in 1 .. COLS |-> IF x <= Len(Prompt \o input)
                                              THEN (Prompt \o input)[x] ELSE ""]
-----------------------------------------------------------------------------
(***************************************************************************)
(* The text console of kernel/drivers/vga/vga.c: a grid of cells and a     *)
(* cursor.  Colours are left out.                                          *)
(***************************************************************************)

CONSTANTS
  WIDTH, HEIGHT,  \* BLACK_VGA_WIDTH, BLACK_VGA_HEIGHT
  Glyphs,         \* the characters that fill a cell
  VGA_LINES       \* the rows that are ever begun: bounds the run

Space == " "
BlankRow == [x \in 1 .. WIDTH |-> Space]

VARIABLES
  vga_buffer, vga_x, vga_y,  \* black_vga_buffer by rows, black_vga_x and _y
  vga_all                    \* every row begun since the last clear

vga == <<vga_buffer, vga_x, vga_y, vga_all>>

VgaInit ==
  /\ vga_buffer = [r \in 1 .. HEIGHT |-> BlankRow]
  /\ vga_x = 0 /\ vga_y = 0
  /\ vga_all = <<BlankRow>>

\* black_vga_scroll
AfterScroll(b) == [r \in 1 .. HEIGHT |-> IF r < HEIGHT THEN b[r + 1] ELSE BlankRow]

\* The end of black_vga_putchar: a full row is left at once, the screen
\* scrolls.  all has one row more whenever the cursor goes down.
Finish(b, x, y, all) ==
  LET wraps == x >= WIDTH
      y1    == IF wraps THEN y + 1 ELSE y
  IN /\ vga_x' = IF wraps THEN 0 ELSE x
     /\ vga_y' = IF y1 >= HEIGHT THEN HEIGHT - 1 ELSE y1
     /\ vga_buffer' = IF y1 >= HEIGHT THEN AfterScroll(b) ELSE b
     /\ vga_all' = IF wraps THEN Append(all, BlankRow) ELSE all
     /\ Len(vga_all') <= VGA_LINES

\* A character c goes to the cell of column x, and the cursor to x1.
Cell(x, c, x1) ==
  Finish([vga_buffer EXCEPT ![vga_y + 1][x + 1] = c], x1, vga_y,
         [vga_all EXCEPT ![Len(vga_all)][x + 1] = c])

\* black_vga_putchar by kind of character.
PutGlyph(c) == Cell(vga_x, c, vga_x + 1)
PutNewline == Finish(vga_buffer, 0, vga_y + 1, Append(vga_all, BlankRow))
PutReturn == Finish(vga_buffer, 0, vga_y, vga_all)
PutTab == Finish(vga_buffer, 4 * ((vga_x + 4) \div 4), vga_y, vga_all)
PutBackspace == vga_x > 0 /\ Cell(vga_x - 1, Space, vga_x - 1)

\* black_vga_clear
Clear ==
  /\ vga_buffer' = [r \in 1 .. HEIGHT |-> BlankRow]
  /\ vga_x' = 0 /\ vga_y' = 0
  /\ vga_all' = <<BlankRow>>

VgaNext ==
  \/ \E c \in Glyphs : PutGlyph(c)
  \/ PutNewline \/ PutReturn \/ PutTab \/ PutBackspace \/ Clear
-----------------------------------------------------------------------------
\* Between two characters the cursor is on a cell of the screen.
VgaTypeOK == vga_x \in 0 .. WIDTH - 1 /\ vga_y \in 0 .. HEIGHT - 1

\* The screen shows the latest rows of all that was printed since it was
\* cleared, blanks below the cursor, whatever returns and tabs were used.
VgaShowsTail ==
  \A y \in 0 .. HEIGHT - 1 :
    vga_buffer[y + 1] = IF y <= vga_y THEN vga_all[Len(vga_all) - vga_y + y] ELSE BlankRow
=============================================================================
