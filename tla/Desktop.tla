------------------------------- MODULE Desktop ------------------------------
(***************************************************************************)
(* The windows of kernel/gui/desktop.c: their table, their order from back *)
(* to front, and what black_gui_handle_mouse does with a sample of the     *)
(* mouse.  One step is one sample.                                         *)
(*                                                                         *)
(* Coordinates are left out.  A press hits a button, an icon, or a part of *)
(* some window; since windows can lie anywhere, that is any window that no *)
(* maximized one in front hides.  A window's place stands for its          *)
(* position and size.  Nothing sets black_resize_win, so its branch is not *)
(* modelled.                                                               *)
(***************************************************************************)
EXTENDS Integers, Sequences, SequencesExt

CONSTANTS
  MAX_WINDOWS, \* BLACK_MAX_WINDOWS
  Places       \* where windows that are not maximized can lie

Wids == 0 .. MAX_WINDOWS - 1
NONE == -1
FULL == 0      \* the place of a maximized window; not in Places
Buttons == SUBSET {"L", "R"}
StartTitles == {"Terminal", "File Manager"}    \* of the menus and icons; the
ContextTitles == {"Terminal", "Notepad"}       \* others act like these

VARIABLES
  active, minimized, maximized, place, saved, title, \* black_windows
  win_order,     \* black_win_order, as far as black_win_count
  menu_state,    \* "NONE", "START" or "CONTEXT"
  drag_win,      \* black_drag_win
  prev_buttons,  \* black_prev_buttons
  halted,        \* the halt command was given
  home           \* where the user last put a window: not in the code

windows == <<active, minimized, maximized, place, saved, title, home>>
desktop == <<active, minimized, maximized, place, saved, title, home, win_order,
             menu_state, drag_win, prev_buttons, halted>>

DesktopInit ==
  /\ active = {} /\ minimized = {} /\ maximized = {}
  /\ place = [w \in Wids |-> FULL]
  /\ saved = [w \in Wids |-> FULL]
  /\ title = [w \in Wids |-> ""]
  /\ home = [w \in Wids |-> FULL]
  /\ win_order = <<>>
  /\ menu_state = "NONE" /\ drag_win = NONE /\ prev_buttons = {}
  /\ halted = FALSE
-----------------------------------------------------------------------------
\* black_gui_bring_to_front and black_gui_get_focused.
Without(w) == SelectSeq(win_order, LAMBDA v : v # w)
Raised(w) == IF w \in ToSet(win_order) THEN Append(Without(w), w) ELSE win_order
Focused == IF win_order = <<>> THEN NONE ELSE Last(win_order)

\* black_gui_create_window: the first free entry, cleared, comes in front.
CreateWindow(t, p) ==
  \E w \in Wids \ active :
    /\ \A v \in 0 .. w - 1 : v \in active
    /\ active' = active \cup {w}
    /\ minimized' = minimized \ {w} /\ maximized' = maximized \ {w}
    /\ place' = [place EXCEPT ![w] = p]
    /\ saved' = [saved EXCEPT ![w] = FULL]
    /\ title' = [title EXCEPT ![w] = t]
    /\ home' = [home EXCEPT ![w] = p]
    /\ win_order' = Append(win_order, w)

OpenWindow(t, p) ==
  \/ CreateWindow(t, p)
  \/ active = Wids /\ UNCHANGED <<windows, win_order>>

\* black_gui_destroy_window
DestroyWindow(w) ==
  /\ active' = active \ {w}
  /\ win_order' = Without(w)
  /\ UNCHANGED <<minimized, maximized, place, saved, title, home>>
-----------------------------------------------------------------------------
\* A press on an item of the open menu.  The item labelled "Lock System"
\* gives the halt command; the item labelled "Shutdown" does nothing.
MenuClick ==
  /\ menu_state # "NONE"
  /\ menu_state' = "NONE" /\ UNCHANGED drag_win
  /\ \/ \E t \in IF menu_state = "START" THEN StartTitles ELSE ContextTitles, p \in Places :
          OpenWindow(t, p) /\ UNCHANGED halted
     \/ menu_state = "START" /\ halted' = TRUE /\ UNCHANGED <<windows, win_order>>
     \/ UNCHANGED <<windows, win_order, halted>>

\* The left button is down and a window is being dragged.
Drag ==
  /\ drag_win # NONE
  /\ \E p \in Places :
       /\ place' = [place EXCEPT ![drag_win] = p]
       /\ home' = [home EXCEPT ![drag_win] = p]
  /\ UNCHANGED <<active, minimized, maximized, saved, title, win_order,
                 menu_state, drag_win, halted>>

\* A press on the taskbar: the start button, or the button of a window.
TaskbarStart ==
  /\ menu_state' = "START"
  /\ UNCHANGED <<windows, win_order, drag_win, halted>>

TaskbarButton(w) ==
  /\ w \in ToSet(win_order)
  /\ IF Focused = w /\ w \notin minimized
     THEN minimized' = minimized \cup {w} /\ UNCHANGED win_order
     ELSE minimized' = minimized \ {w} /\ win_order' = Raised(w)
  /\ UNCHANGED <<active, maximized, place, saved, title, home, menu_state, drag_win, halted>>

IconClick(t, p) == OpenWindow(t, p) /\ UNCHANGED <<menu_state, drag_win, halted>>

\* A press on a window: the front one that is under the pointer.
Visible(w) == w \in active \ minimized
InFront(v, w) ==
  \E i, j \in DOMAIN win_order : i < j /\ win_order[i] = w /\ win_order[j] = v
CanHit(w) ==
  /\ w \in ToSet(win_order) /\ Visible(w)
  /\ ~\E v \in maximized : Visible(v) /\ InFront(v, w)

\* A double click in a file manager opens a file, and leaves the order.
OpenFile(w, p) ==
  title[w] = "File Manager" /\ OpenWindow("Notepad", p) /\ UNCHANGED <<menu_state, drag_win, halted>>

\* Save writes the file and gives the window its name.
SaveNote(w) ==
  /\ title[w] = "Notepad"
  /\ title' = [title EXCEPT ![w] = "Note"]
  /\ win_order' = Raised(w)
  /\ UNCHANGED <<active, minimized, maximized, place, saved, home, menu_state, drag_win, halted>>

CloseButton(w) == DestroyWindow(w) /\ UNCHANGED <<menu_state, drag_win, halted>>

MaximizeButton(w) ==
  /\ win_order' = Raised(w)
  /\ IF w \in maximized
     THEN /\ maximized' = maximized \ {w}
          /\ place' = [place EXCEPT ![w] = saved[w]]
          /\ UNCHANGED saved
     ELSE /\ maximized' = maximized \cup {w}
          /\ saved' = [saved EXCEPT ![w] = place[w]]
          /\ place' = [place EXCEPT ![w] = FULL]
  /\ UNCHANGED <<active, minimized, title, home, menu_state, drag_win, halted>>

MinimizeButton(w) ==
  /\ win_order' = Raised(w)
  /\ minimized' = minimized \cup {w}
  /\ UNCHANGED <<active, maximized, place, saved, title, home, menu_state, drag_win, halted>>

TitleBarAlways(w) == win_order' = Raised(w) /\ drag_win' = w /\ UNCHANGED <<windows, menu_state, halted>>
TitleBar(w) ==
  /\ win_order' = Raised(w)
  /\ drag_win' = IF w \in maximized THEN drag_win ELSE w
  /\ UNCHANGED <<windows, menu_state, halted>>

Body(w) == win_order' = Raised(w) /\ UNCHANGED <<windows, menu_state, drag_win, halted>>

WindowClick(w) ==
  /\ CanHit(w)
  /\ \/ SaveNote(w) \/ CloseButton(w) \/ MaximizeButton(w) \/ MinimizeButton(w)
     \/ TitleBar(w) \/ Body(w) \/ \E p \in Places : OpenFile(w, p)

Click ==
  \/ TaskbarStart
  \/ \E w \in Wids : TaskbarButton(w) \/ WindowClick(w)
  \/ \E t \in StartTitles, p \in Places : IconClick(t, p)

\* A right press opens the context menu; a drag that is going on stays.
ContextMenu ==
  /\ menu_state' = "CONTEXT"
  /\ UNCHANGED <<windows, win_order, drag_win, halted>>

Release ==
  /\ drag_win' = NONE
  /\ UNCHANGED <<windows, win_order, menu_state, halted>>

\* black_gui_handle_mouse
HandleMouse(b) ==
  LET pressed == b \ prev_buttons IN
    /\ ~halted
    /\ prev_buttons' = b
    /\ \/ "L" \in b /\ "L" \in pressed /\ MenuClick
       \/ /\ "L" \in b /\ ~("L" \in pressed /\ menu_state # "NONE")
          /\ \/ Drag
             \/ drag_win = NONE /\ "L" \in pressed /\ Click
             \/ drag_win = NONE /\ UNCHANGED <<windows, win_order, menu_state, drag_win, halted>>
       \/ "L" \notin b /\ "R" \in pressed /\ ContextMenu
       \/ "L" \notin b /\ "R" \notin pressed /\ Release

DesktopNext == \E b \in Buttons : HandleMouse(b)
-----------------------------------------------------------------------------
\* The table and the mouse state are what their types say.
DesktopTypeOK ==
  /\ active \subseteq Wids /\ minimized \subseteq Wids /\ maximized \subseteq Wids
  /\ place \in [Wids -> Places \cup {FULL}] /\ saved \in [Wids -> Places \cup {FULL}]
  /\ menu_state \in {"NONE", "START", "CONTEXT"}
  /\ drag_win \in Wids \cup {NONE} /\ prev_buttons \in Buttons

\* The windows stay consistent over any sequence of clicks and drags.  The
\* order, which decides what is drawn over what and who gets the keys, lists
\* every open window once and nothing else.  A window being dragged is open
\* and visible, also when a menu was used in between.  A maximized window
\* fills the screen, and one that is not lies where the user last put it.
WindowsConsistent ==
  /\ ToSet(win_order) = active /\ IsInjective(win_order)
  /\ drag_win # NONE => Visible(drag_win) /\ drag_win \notin maximized
  /\ \A w \in active :
       IF w \in maximized THEN place[w] = FULL /\ saved[w] = home[w] ELSE place[w] = home[w]
-----------------------------------------------------------------------------
(***************************************************************************)
(* The mouse interrupt of kernel/drivers/mouse/mouse.c: three bytes make a *)
(* packet, and the loop copies the state field by field while packets come.*)
(***************************************************************************)

CONSTANTS
  MAX_X, MAX_Y,  \* black_mouse_max_x, black_mouse_max_y
  Moves          \* the movements a byte can carry

VARIABLES
  cycle,                \* black_mouse_cycle
  first, second_byte,   \* black_mouse_bytes: buttons and dx
  mouse_x, mouse_y, buttons,
  sent,                 \* what the device sends next: 0, 1 or 2
  sample, sampling      \* the copy of black_mouse_get_state, and where it is

mousevars == <<cycle, first, second_byte, mouse_x, mouse_y, buttons, sent, sample, sampling>>

ClampOff(v, max) == IF v < 0 THEN 0 ELSE IF v > max THEN max ELSE v
Clamp(v, max) == IF v < 0 THEN 0 ELSE IF v >= max THEN max - 1 ELSE v

MouseInit ==
  /\ cycle = 0 /\ first = 0 /\ second_byte = 0
  /\ mouse_x = 0 /\ mouse_y = 0 /\ buttons = 0
  /\ sent = 0
  /\ sample = [x |-> 0, y |-> 0] /\ sampling = FALSE

\* black_mouse_irq for each byte of a packet.  Only a first byte has to have
\* bit 3 set, which the device does; the two others are taken as they are.
IrqFirst(b) ==
  /\ sent = 0 /\ sent' = 1
  /\ cycle = 0 /\ cycle' = 1 /\ first' = b
  /\ UNCHANGED <<second_byte, mouse_x, mouse_y, buttons, sample, sampling>>

IrqSecond(d) ==
  /\ sent = 1 /\ sent' = 2
  /\ cycle = 1 /\ cycle' = 2 /\ second_byte' = d
  /\ UNCHANGED <<first, mouse_x, mouse_y, buttons, sample, sampling>>

IrqThird(d) ==
  /\ sent = 2 /\ sent' = 0
  /\ cycle = 2 /\ cycle' = 0
  /\ buttons' = first
  /\ mouse_x' = Clamp(mouse_x + second_byte, MAX_X)
  /\ mouse_y' = Clamp(mouse_y - d, MAX_Y)
  /\ UNCHANGED <<first, second_byte, sample, sampling>>

SampleX ==
  /\ ~sampling
  /\ sample' = [sample EXCEPT !.x = mouse_x] /\ sampling' = TRUE
  /\ UNCHANGED <<cycle, first, second_byte, mouse_x, mouse_y, buttons, sent>>

SampleY ==
  /\ sampling
  /\ sample' = [sample EXCEPT !.y = mouse_y] /\ sampling' = FALSE
  /\ UNCHANGED <<cycle, first, second_byte, mouse_x, mouse_y, buttons, sent>>

MouseNext ==
  \/ \E b \in {0, 1} : IrqFirst(b)
  \/ \E d \in Moves : IrqSecond(d) \/ IrqThird(d)
  \/ SampleX \/ SampleY
-----------------------------------------------------------------------------
\* The decoder is in step with the device, and the pointer, also one whose
\* halves come from two packets, is on the screen.
MouseTypeOK ==
  /\ cycle = sent
  /\ sample.x \in 0 .. MAX_X - 1 /\ sample.y \in 0 .. MAX_Y - 1
  /\ mouse_x \in 0 .. MAX_X - 1 /\ mouse_y \in 0 .. MAX_Y - 1
=============================================================================
