----------------------------- MODULE Framebuffer ----------------------------
(***************************************************************************)
(* Drawing, kernel/drivers/framebuffer/framebuffer.c.  The back buffer is  *)
(* one row of memory: a line of the screen takes STRIDE pixels of it, of   *)
(* which FB_WIDTH are seen.                                                *)
(***************************************************************************)
EXTENDS Integers, Sequences, SequencesExt

CONSTANTS
  FB_WIDTH, FB_HEIGHT, STRIDE,
  CELL,      \* the side of a character, 8 in the code
  Colours,
  Font,      \* character -> the cells of it that are inked, rows and columns
  Strings,   \* sequences of characters; "?" is drawn for those not in Font
  Origins,   \* coordinates, also outside the screen
  Sizes,
  DRAWINGS   \* the drawing calls of a behaviour: bounds the run

VARIABLES
  back,      \* black_backbuffer: address -> colour
  screen,    \* the memory of the card
  picture,   \* what should be drawn: not in the code
  shown,     \* the picture when it was last shown: not in the code
  drawings   \* the calls so far: not in the code

fb == <<back, screen, picture, shown, drawings>>

Pixels == (0 .. FB_WIDTH - 1) \X (0 .. FB_HEIGHT - 1)
Memory == 0 .. STRIDE * FB_HEIGHT - 1

\* Neither the back buffer nor the card's memory is cleared.
FbInit ==
  /\ \E c \in Colours : back = [a \in Memory |-> c] /\ picture = [p \in Pixels |-> c]
  /\ \E c \in Colours : screen = [a \in Memory |-> c] /\ shown = [p \in Pixels |-> c]
  /\ drawings = 0

\* black_fb_putpixel
PutPixel(b, x, y, c) ==
  IF x < 0 \/ y < 0 \/ x >= FB_WIDTH \/ y >= FB_HEIGHT THEN b
  ELSE [b EXCEPT ![y * STRIDE + x] = c]

\* w by h pixels from (x, y), line by line; img has the colour of each.
PutAll(b, x, y, w, h, img) ==
  FoldLeft(LAMBDA m, k : PutPixel(m, x + (k % w), y + (k \div w), img[k % w, k \div w]),
           b, [k \in 1 .. w * h |-> k - 1])
Painted(p, x, y, w, h, img) ==
  [q \in Pixels |-> IF q[1] \in x .. x + w - 1 /\ q[2] \in y .. y + h - 1
                    THEN img[q[1] - x, q[2] - y] ELSE p[q]]

Call == drawings < DRAWINGS /\ drawings' = drawings + 1 /\ UNCHANGED <<screen, shown>>

\* black_fb_fillrect, and black_fb_blit of a picture of w by h pixels.
FillRect(x, y, w, h, c) ==
  LET img == [i \in 0 .. w - 1, j \in 0 .. h - 1 |-> c] IN
  /\ Call
  /\ back' = PutAll(back, x, y, w, h, img)
  /\ picture' = Painted(picture, x, y, w, h, img)
Blit(x, y, w, h, src) ==
  LET img == [i \in 0 .. w - 1, j \in 0 .. h - 1 |-> src[j * w + i + 1]] IN
  /\ Call
  /\ back' = PutAll(back, x, y, w, h, img)
  /\ picture' = Painted(picture, x, y, w, h, img)

\* black_fb_drawchar and black_fb_drawstring.
Glyph(ch) == IF ch \in DOMAIN Font THEN Font[ch] ELSE Font["?"]
Ink(ch, fg, bg, i, j) == IF <<j, i>> \in Glyph(ch) THEN fg ELSE bg
DrawString(x, y, s, fg, bg) ==
  LET Cell(ch) == [i \in 0 .. CELL - 1, j \in 0 .. CELL - 1 |-> Ink(ch, fg, bg, i, j)]
      line == [i \in 0 .. CELL * Len(s) - 1, j \in 0 .. CELL - 1 |->
                 Ink(s[1 + (i \div CELL)], fg, bg, i % CELL, j)] IN
  /\ Call
  /\ back' = FoldLeft(LAMBDA m, k : PutAll(m, x + CELL * (k - 1), y, CELL, CELL, Cell(s[k])),
                      back, [k \in 1 .. Len(s) |-> k])
  /\ picture' = Painted(picture, x, y, CELL * Len(s), CELL, line)

\* black_fb_clear
FbClear(c) ==
  /\ Call
  /\ back' = [a \in Memory |-> c]
  /\ picture' = [p \in Pixels |-> c]

\* black_fb_scroll_up by lines of text that the screen has.
ScrollUp(n, bg) ==
  /\ Call
  /\ n * CELL <= FB_HEIGHT
  /\ back' = [a \in Memory |->
                IF a < (FB_HEIGHT - n * CELL) * STRIDE THEN back[a + n * CELL * STRIDE]
                ELSE IF a % STRIDE < FB_WIDTH THEN bg ELSE back[a]]
  /\ picture' = [p \in Pixels |-> IF p[2] + n * CELL < FB_HEIGHT
                                  THEN picture[<<p[1], p[2] + n * CELL>>] ELSE bg]

\* black_fb_swap
Swap ==
  /\ screen' = back /\ shown' = picture
  /\ UNCHANGED <<back, picture, drawings>>

FbNext ==
  \/ \E x, y \in Origins, c, d \in Colours :
       \/ \E w, h \in Sizes :
            \/ FillRect(x, y, w, h, c)
            \/ Blit(x, y, w, h, [k \in 1 .. w * h |-> IF k % 2 = 0 THEN c ELSE d])
       \/ \E s \in Strings : DrawString(x, y, s, c, d)
  \/ \E c \in Colours : FbClear(c) \/ \E n \in 0 .. FB_HEIGHT : ScrollUp(n, c)
  \/ Swap

\* Whatever is drawn over what, also partly or wholly outside the screen,
\* the back buffer has the picture that the calls describe, and the screen
\* the one that was last shown: nothing spills into the next line.
DrawsPicture ==
  \A p \in Pixels : back[p[2] * STRIDE + p[1]] = picture[p] /\ screen[p[2] * STRIDE + p[1]] = shown[p]
=============================================================================
