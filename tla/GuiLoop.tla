------------------------------- MODULE GuiLoop ------------------------------
(***************************************************************************)
(* The keyboard interrupt and the loop that draws the desktop.  The        *)
(* handler of kernel/drivers/keyboard/keyboard.c puts the event into a     *)
(* ring and hands the character to the window in front                     *)
(* (black_gui_key_input), between any two steps of black_gui_loop.  A      *)
(* program takes events out of the ring with black_keyboard_get_event.     *)
(* An event is its number, in the order the keys come: the code, the       *)
(* modifiers and the prefix are data that only the reader looks at, so the *)
(* scan codes that change nothing else are left out.                       *)
(***************************************************************************)
EXTENDS Integers, Sequences, SequenceTheorems, TLAPS

CONSTANTS
  KB_BUF_SIZE,  \* BLACK_KB_BUF_SIZE
  EVENTS        \* the numbers of events, modulo

ASSUME KeyboardAssumption == KB_BUF_SIZE \in Nat \ {0} /\ EVENTS \in Nat \ {0}

VARIABLES
  kb_buf, kb_head, kb_tail, \* the ring
  event,                    \* the number of the next event
  taker,                    \* black_keyboard_get_event: "idle" or "copied"
  pc,                       \* black_shell_run: "mouse", "draw", "clear", "sleep"
  needs_redraw,             \* black_gui_needs_redraw
  second,                   \* more than a second since black_last_time
  stale,                    \* the screen does not show the present state
  stopped                   \* the halt command was run

kb == <<kb_buf, kb_head, kb_tail, event, taker>>
loop == <<pc, needs_redraw, second, stale, stopped>>
gui == <<kb_buf, kb_head, kb_tail, event, taker,
         pc, needs_redraw, second, stale, stopped>>

GuiInit ==
  /\ kb_buf = [i \in 0 .. KB_BUF_SIZE - 1 |-> 0]
  /\ kb_head = 0 /\ kb_tail = 0
  /\ event = 0 /\ taker = "idle"
  /\ pc = "mouse" /\ needs_redraw = TRUE /\ second = FALSE
  /\ stale = TRUE /\ stopped = FALSE
-----------------------------------------------------------------------------
\* black_kb_push_event: one place stays empty, a full ring drops the event.
NextPlace(i) == (i + 1) % KB_BUF_SIZE
PushOverwrites(e) ==
  kb_buf' = [kb_buf EXCEPT ![kb_head] = e] /\ kb_head' = NextPlace(kb_head)
Push(e) ==
  IF NextPlace(kb_head) = kb_tail THEN UNCHANGED <<kb_buf, kb_head>>
  ELSE kb_buf' = [kb_buf EXCEPT ![kb_head] = e] /\ kb_head' = NextPlace(kb_head)

\* black_kb_irq_handler for a key that is no modifier: the event is stored,
\* and a press of a key with a character goes on to black_gui_key_input,
\* which changes the text of the window in front and asks for a drawing.
\* Enter may run the halt command.
IrqKey(released, halts) ==
  /\ ~stopped
  /\ Push(event)
  /\ event' = (event + 1) % EVENTS
  /\ needs_redraw' = (needs_redraw \/ ~released)
  /\ stale' = (stale \/ ~released)
  /\ stopped' = (~released /\ halts)
  /\ UNCHANGED <<kb_tail, taker, pc, second>>

\* black_keyboard_get_event: the event is copied, then the tail moves.
TakeCopy ==
  /\ ~stopped /\ taker = "idle" /\ kb_tail # kb_head
  /\ taker' = "copied"
  /\ UNCHANGED <<kb_buf, kb_head, kb_tail, event, loop>>

TakeAdvance ==
  /\ ~stopped /\ taker = "copied"
  /\ kb_tail' = NextPlace(kb_tail) /\ taker' = "idle"
  /\ UNCHANGED <<kb_buf, kb_head, event, loop>>
-----------------------------------------------------------------------------
\* black_gui_loop up to the test of black_gui_needs_redraw.  The mouse may
\* change something, and may or may not ask for a drawing: maximizing a
\* window does the first without the second.  Once a second one is due.
LoopMouseNoTimer ==
  /\ ~stopped /\ pc = "mouse"
  /\ \E changed, asked \in BOOLEAN :
       /\ stale' = (stale \/ changed)
       /\ needs_redraw' = (needs_redraw \/ asked)
  /\ pc' = IF needs_redraw' THEN "draw" ELSE "sleep"
  /\ UNCHANGED <<second, stopped, kb>>
LoopMouse ==
  /\ ~stopped /\ pc = "mouse"
  /\ \E changed, asked \in BOOLEAN :
       /\ stale' = (stale \/ changed)
       /\ needs_redraw' = (needs_redraw \/ asked \/ second)
  /\ second' = FALSE
  /\ pc' = IF needs_redraw' THEN "draw" ELSE "sleep"
  /\ UNCHANGED <<stopped, kb>>

\* Everything is drawn, then the request is taken back: a key that comes in
\* between is not on the screen and its request is lost.
LoopDraw ==
  /\ ~stopped /\ pc = "draw"
  /\ stale' = FALSE /\ pc' = "clear"
  /\ UNCHANGED <<needs_redraw, second, stopped, kb>>

LoopClear ==
  /\ ~stopped /\ pc = "clear"
  /\ needs_redraw' = FALSE /\ pc' = "sleep"
  /\ UNCHANGED <<second, stale, stopped, kb>>

\* The halt instruction of black_shell_run ends with the next timer interrupt.
LoopWake ==
  /\ ~stopped /\ pc = "sleep"
  /\ pc' = "mouse"
  /\ UNCHANGED <<needs_redraw, second, stale, stopped, kb>>

SecondPasses ==
  /\ ~stopped /\ ~second
  /\ second' = TRUE
  /\ UNCHANGED <<pc, needs_redraw, stale, stopped, kb>>

GuiNext ==
  \/ \E released, halts \in BOOLEAN : IrqKey(released, halts)
  \/ TakeCopy \/ TakeAdvance
  \/ LoopMouse \/ LoopDraw \/ LoopClear \/ LoopWake \/ SecondPasses

\* The loop has the CPU again after every interrupt, and time passes.
GuiFairness ==
  /\ WF_gui(LoopMouse) /\ WF_gui(LoopDraw) /\ WF_gui(LoopClear) /\ WF_gui(LoopWake)
  /\ WF_gui(SecondPasses)
-----------------------------------------------------------------------------
\* The ring's indices stay in it.
GuiLoopTypeOK ==
  /\ kb_head \in 0 .. KB_BUF_SIZE - 1 /\ kb_tail \in 0 .. KB_BUF_SIZE - 1
  /\ event \in 0 .. EVENTS - 1 /\ taker \in {"idle", "copied"}
  /\ taker = "copied" => kb_tail # kb_head

Waiting == (kb_head - kb_tail) % KB_BUF_SIZE
Content == [i \in 1 .. Waiting |-> kb_buf[(kb_tail + i - 1) % KB_BUF_SIZE]]
Ring == INSTANCE Channel WITH
          Capacity <- KB_BUF_SIZE - 1, Burst <- 1, Resettable <- FALSE, content <- Content

\* The ring is a channel that is never reset: events come out once and in
\* the order of the keys, also when the interrupt comes between the copy and
\* the move of the tail; a full ring loses the newest, never one that is in.
KeyboardImplementsChannel == Ring!Spec
-----------------------------------------------------------------------------
(***************************************************************************)
(* The keyboard's ring is a channel, for every size of the ring: proofs    *)
(* about GuiLoop.                                                          *)
(***************************************************************************)

KbPlaces == 0 .. KB_BUF_SIZE - 1

\* Keys, the program that takes them and the loop, in any order.
KeysSpec == GuiInit /\ [][GuiNext]_gui

\* The inductive invariant: the indices are places of the ring, and while the
\* event at the tail has been copied and not yet released the ring is not
\* empty, because only the taker moves the tail.
IInv ==
  /\ GuiLoopTypeOK
  /\ kb_buf \in [KbPlaces -> 0 .. EVENTS - 1]
-----------------------------------------------------------------------------
\* A place of the ring, without the remainder.
LEMMA PlaceValue ==
  ASSUME NEW t \in KbPlaces, NEW i \in 1 .. KB_BUF_SIZE
  PROVE  (t + i - 1) % KB_BUF_SIZE =
           IF t + i - 1 < KB_BUF_SIZE THEN t + i - 1 ELSE t + i - 1 - KB_BUF_SIZE
BY KeyboardAssumption DEF KbPlaces

\* The last place is followed by the first.
LEMMA NextPlaceValue ==
  ASSUME NEW h \in KbPlaces
  PROVE  NextPlace(h) = IF h + 1 < KB_BUF_SIZE THEN h + 1 ELSE 0
BY KeyboardAssumption DEF KbPlaces, NextPlace

\* The number of events that wait, without the remainder.
LEMMA WaitingValue ==
  ASSUME NEW h \in KbPlaces, NEW t \in KbPlaces
  PROVE  (h - t) % KB_BUF_SIZE = IF h >= t THEN h - t ELSE h - t + KB_BUF_SIZE
BY KeyboardAssumption DEF KbPlaces

\* The events that wait are a sequence of events.
ContentOK ==
  /\ Waiting \in 0 .. KB_BUF_SIZE - 1
  /\ Content \in Seq(0 .. EVENTS - 1) /\ Len(Content) = Waiting

\* With the indices in the ring, what waits is a sequence.
LEMMA ContentType == IInv => ContentOK
<1> SUFFICES ASSUME IInv PROVE ContentOK
  OBVIOUS
<1> USE KeyboardAssumption
<1>1. kb_head \in KbPlaces /\ kb_tail \in KbPlaces
  BY DEF IInv, GuiLoopTypeOK, KbPlaces
<1>2. Waiting \in KbPlaces
  BY <1>1, WaitingValue DEF Waiting, KbPlaces
<1>3. \A i \in 1 .. Waiting : i \in 1 .. KB_BUF_SIZE
  BY <1>2 DEF KbPlaces
<1>4. \A i \in 1 .. Waiting : (kb_tail + i - 1) % KB_BUF_SIZE \in KbPlaces
  BY <1>1, <1>3, PlaceValue DEF KbPlaces
<1>5. \A i \in 1 .. Waiting : kb_buf[(kb_tail + i - 1) % KB_BUF_SIZE] \in 0 .. EVENTS - 1
  BY <1>4 DEF IInv
<1>6. Waiting \in Nat
  BY <1>2 DEF KbPlaces
<1> HIDE DEF Waiting
<1>7. Content \in [1 .. Waiting -> 0 .. EVENTS - 1]
  BY <1>5 DEF Content
<1>8. Content \in Seq(0 .. EVENTS - 1)
  BY <1>6, <1>7, SeqDef
<1>9. DOMAIN Content = 1 .. Waiting
  BY <1>7
<1>10. Len(Content) = Waiting
  BY <1>6, <1>8, <1>9, LenProperties
<1> QED BY <1>2, <1>8, <1>10 DEF ContentOK, KbPlaces

\* The same after a step.
LEMMA ContentTypeNext == IInv' => ContentOK'
BY ContentType, PTL
-----------------------------------------------------------------------------
\* Every step keeps the indices in the ring.
LEMMA NextPreserves == IInv /\ [GuiNext]_gui => IInv'
<1> SUFFICES ASSUME IInv, [GuiNext]_gui PROVE IInv'
  OBVIOUS
<1> USE KeyboardAssumption
<1>1. /\ kb_head \in KbPlaces /\ kb_tail \in KbPlaces
      /\ NextPlace(kb_head) \in KbPlaces /\ NextPlace(kb_tail) \in KbPlaces
      /\ event \in 0 .. EVENTS - 1 /\ (event + 1) % EVENTS \in 0 .. EVENTS - 1
  BY DEF IInv, GuiLoopTypeOK, KbPlaces, NextPlace
<1>2. CASE \E released, halts \in BOOLEAN : IrqKey(released, halts)
  <2>1. /\ Push(event) /\ event' \in 0 .. EVENTS - 1
        /\ UNCHANGED <<kb_tail, taker>>
    BY <1>1, <1>2 DEF IrqKey
  <2>2. kb_head' \in KbPlaces /\ kb_buf' \in [KbPlaces -> 0 .. EVENTS - 1]
    BY <1>1, <2>1 DEF Push, IInv
  <2>3. kb_head' = kb_tail => kb_head = kb_tail
    BY <2>1 DEF Push
  <2> QED BY <2>1, <2>2, <2>3 DEF IInv, GuiLoopTypeOK, KbPlaces
<1>3. CASE TakeCopy
  BY <1>3 DEF TakeCopy, IInv, GuiLoopTypeOK
<1>4. CASE TakeAdvance
  BY <1>1, <1>4 DEF TakeAdvance, IInv, GuiLoopTypeOK, KbPlaces
<1>5. CASE UNCHANGED kb
  BY <1>5 DEF kb, IInv, GuiLoopTypeOK
<1> QED
  BY <1>2, <1>3, <1>4, <1>5
  DEF GuiNext, gui, kb, LoopMouse, LoopDraw, LoopClear, LoopWake, SecondPasses

\* An event that finds a place is put behind those that wait, and overwrites
\* none of them: the place at the head is the one that is kept empty.
LEMMA PushPuts ==
  ASSUME IInv, IInv', NEW e, Push(e), NextPlace(kb_head) # kb_tail, kb_tail' = kb_tail
  PROVE  Ring!Put
<1> USE KeyboardAssumption
<1>1. /\ kb_head \in KbPlaces /\ kb_tail \in KbPlaces /\ DOMAIN kb_buf = KbPlaces
      /\ kb_buf' = [kb_buf EXCEPT ![kb_head] = e]
      /\ kb_head' = NextPlace(kb_head) /\ kb_head' \in KbPlaces
  BY DEF IInv, GuiLoopTypeOK, Push, KbPlaces
<1>2. NextPlace(kb_head) = IF kb_head + 1 < KB_BUF_SIZE THEN kb_head + 1 ELSE 0
  BY <1>1, NextPlaceValue
<1>3. /\ Waiting = (IF kb_head >= kb_tail THEN kb_head - kb_tail ELSE kb_head - kb_tail + KB_BUF_SIZE)
      /\ Waiting' = (IF kb_head' >= kb_tail THEN kb_head' - kb_tail ELSE kb_head' - kb_tail + KB_BUF_SIZE)
  BY <1>1, WaitingValue DEF Waiting
<1>4. Waiting' = Waiting + 1 /\ Waiting' <= KB_BUF_SIZE - 1 /\ Waiting \in Nat
  BY <1>1, <1>2, <1>3 DEF KbPlaces
<1>5. /\ Content \in Seq(0 .. EVENTS - 1) /\ Len(Content) = Waiting
      /\ Content' \in Seq(0 .. EVENTS - 1) /\ Len(Content') = Waiting'
  BY ContentType, ContentTypeNext DEF ContentOK
<1>6. ASSUME NEW i \in 1 .. Waiting PROVE Content'[i] = Content[i]
  <2> i \in 1 .. KB_BUF_SIZE
    BY <1>4
  <2> DEFINE m == (kb_tail + i - 1) % KB_BUF_SIZE
  <2>1. m = IF kb_tail + i - 1 < KB_BUF_SIZE THEN kb_tail + i - 1 ELSE kb_tail + i - 1 - KB_BUF_SIZE
    BY <1>1, PlaceValue
  <2>2. m # kb_head /\ m \in KbPlaces
    <3> HIDE DEF m
    <3> QED BY <1>1, <1>3, <1>4, <2>1 DEF KbPlaces
  <2>3. kb_buf'[m] = kb_buf[m]
    BY <1>1, <2>2
  <2>4. i \in 1 .. Waiting'
    BY <1>4
  <2> HIDE DEF Waiting
  <2> QED BY <2>3, <2>4 DEF Content
<1> DEFINE s == SubSeq(Content', 1, Waiting)
<1>7. s \in Seq(0 .. EVENTS - 1) /\ Len(s) = Waiting /\ \A i \in 1 .. Waiting : s[i] = Content'[i]
  <2> HIDE DEF Waiting, Content
  <2> QED BY <1>4, <1>5, SubSeqProperties
<1>8. s = Content
  <2> HIDE DEF s, Content, Waiting
  <2> QED BY <1>5, <1>6, <1>7, SeqEqual
<1> QED
  <2> HIDE DEF Content, Waiting
  <2> QED BY <1>4, <1>5, <1>8 DEF Ring!Put

\* Moving the tail takes the first event and leaves the others in order.
LEMMA AdvanceTakes ==
  ASSUME IInv, IInv', TakeAdvance
  PROVE  Ring!Take
<1> USE KeyboardAssumption
<1>1. /\ kb_head \in KbPlaces /\ kb_tail \in KbPlaces /\ kb_tail # kb_head
      /\ kb_tail' = NextPlace(kb_tail) /\ kb_tail' \in KbPlaces
      /\ UNCHANGED <<kb_buf, kb_head>>
  BY DEF IInv, GuiLoopTypeOK, TakeAdvance, KbPlaces
<1>2. NextPlace(kb_tail) = IF kb_tail + 1 < KB_BUF_SIZE THEN kb_tail + 1 ELSE 0
  BY <1>1, NextPlaceValue
<1>3. /\ Waiting = (IF kb_head >= kb_tail THEN kb_head - kb_tail ELSE kb_head - kb_tail + KB_BUF_SIZE)
      /\ Waiting' = (IF kb_head >= kb_tail' THEN kb_head - kb_tail' ELSE kb_head - kb_tail' + KB_BUF_SIZE)
  BY <1>1, WaitingValue DEF Waiting
<1>4. Waiting' = Waiting - 1 /\ Waiting' \in Nat /\ Waiting \in 1 .. KB_BUF_SIZE - 1
  BY <1>1, <1>2, <1>3 DEF KbPlaces
<1>5. /\ Content \in Seq(0 .. EVENTS - 1) /\ Len(Content) = Waiting
      /\ Content' \in Seq(0 .. EVENTS - 1) /\ Len(Content') = Waiting'
  BY ContentType, ContentTypeNext DEF ContentOK
<1>6. ASSUME NEW i \in 1 .. Waiting' PROVE Content'[i] = Content[i + 1]
  <2>1. (kb_tail' + i - 1) % KB_BUF_SIZE = (kb_tail + (i + 1) - 1) % KB_BUF_SIZE
    <3>1. i \in 1 .. KB_BUF_SIZE /\ i + 1 \in 1 .. KB_BUF_SIZE
      BY <1>4
    <3>2. /\ (kb_tail' + i - 1) % KB_BUF_SIZE =
               (IF kb_tail' + i - 1 < KB_BUF_SIZE THEN kb_tail' + i - 1 ELSE kb_tail' + i - 1 - KB_BUF_SIZE)
          /\ (kb_tail + (i + 1) - 1) % KB_BUF_SIZE =
               (IF kb_tail + (i + 1) - 1 < KB_BUF_SIZE THEN kb_tail + (i + 1) - 1
                ELSE kb_tail + (i + 1) - 1 - KB_BUF_SIZE)
      BY <1>1, <3>1, PlaceValue
    <3> QED BY <1>1, <1>2, <1>4, <3>2 DEF KbPlaces
  <2>2. i + 1 \in 1 .. Waiting
    BY <1>4
  <2> HIDE DEF Waiting
  <2> QED BY <1>1, <2>1, <2>2 DEF Content
<1> DEFINE s == SubSeq(Content, 2, Waiting)
<1>7. s \in Seq(0 .. EVENTS - 1) /\ Len(s) = Waiting' /\ \A i \in 1 .. Waiting' : s[i] = Content[i + 1]
  <2>1. \A i \in 2 .. Waiting : Content[i] \in 0 .. EVENTS - 1
    BY <1>4, <1>5
  <2>2. /\ s \in Seq(0 .. EVENTS - 1)
        /\ Len(s) = (IF 2 <= Waiting THEN Waiting - 2 + 1 ELSE 0)
        /\ \A i \in 1 .. Waiting - 2 + 1 : s[i] = Content[2 + i - 1]
    BY <1>4, <2>1, SubSeqProperties
  <2>3. \A i \in 1 .. Waiting' : i \in 1 .. Waiting - 2 + 1 /\ 2 + i - 1 = i + 1
    BY <1>4
  <2> HIDE DEF s
  <2> QED BY <1>4, <2>2, <2>3
<1>8. s = Content'
  <2> HIDE DEF s, Content, Waiting
  <2> QED BY <1>5, <1>6, <1>7, SeqEqual
<1> QED
  <2> HIDE DEF Content, Waiting
  <2>1. 1 \in 1 .. Len(Content) /\ 1 <= 1 /\ 1 + 1 = 2
    BY <1>4, <1>5
  <2> QED BY <1>5, <1>8, <2>1 DEF Ring!Take

\* Whatever the size of the ring, and wherever the interrupt falls into
\* black_keyboard_get_event, keys come out once and in order.
THEOREM KeyboardIsChannel == KeysSpec => KeyboardImplementsChannel
<1> USE KeyboardAssumption
<1>1. GuiInit => IInv
  BY DEF GuiInit, IInv, GuiLoopTypeOK, KbPlaces
<1>2. GuiInit => Ring!Init
  <2> SUFFICES ASSUME GuiInit PROVE Content = <<>>
    BY DEF Ring!Init
  <2>1. Waiting = 0
    BY WaitingValue DEF GuiInit, Waiting, KbPlaces
  <2>2. Len(Content) = 0 /\ Content \in Seq(0 .. EVENTS - 1)
    BY <1>1, <2>1, ContentType DEF ContentOK
  <2> HIDE DEF Content
  <2> QED BY <2>2, EmptySeq
<1>3. ASSUME IInv, IInv', [GuiNext]_gui PROVE [Ring!Next]_Content
  <2>1. CASE UNCHANGED <<kb_buf, kb_head, kb_tail>>
    BY <2>1 DEF Content, Waiting
  <2>2. CASE \E released, halts \in BOOLEAN : IrqKey(released, halts)
    <3>1. Push(event) /\ kb_tail' = kb_tail
      BY <2>2 DEF IrqKey
    <3>2. CASE NextPlace(kb_head) = kb_tail
      BY <2>1, <3>1, <3>2 DEF Push
    <3> QED BY <1>3, <3>1, <3>2, PushPuts DEF Ring!Next
  <2>3. CASE TakeAdvance
    BY <1>3, <2>3, AdvanceTakes DEF Ring!Next
  <2> QED
    BY <1>3, <2>1, <2>2, <2>3
    DEF GuiNext, gui, kb, TakeCopy, LoopMouse, LoopDraw, LoopClear, LoopWake, SecondPasses
<1> QED BY <1>1, <1>2, <1>3, NextPreserves, PTL DEF KeysSpec, KeyboardImplementsChannel, Ring!Spec
=============================================================================
