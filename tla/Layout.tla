------------------------------- MODULE Layout -------------------------------
(***************************************************************************)
(* Where kernel/gui/desktop.c draws its controls, and where its mouse      *)
(* handler looks for them: the two places of the code that have to agree   *)
(* on the same numbers.  All coordinates are those of the code.            *)
(***************************************************************************)
EXTENDS Integers, Sequences, SequencesExt, FiniteSetsExt

CONSTANTS
  Desks,   \* the desktops that are tried: windows from back to front, menu
           \* (of count items, 0 if closed) and its place
  Tasks,   \* the number of tasks
  Entries  \* the directory a file manager shows: "dir" or "file"

SCREEN_W == 1024
SCREEN_H == 768
TITLEBAR == 24

VARIABLES
  desk,    \* one of Desks
  point,   \* where the left button is pressed
  double   \* less than 500 ms after the click before

layout == <<desk, point, double>>

Rect(x, y, w, h) == [x |-> x, y |-> y, w |-> w, h |-> h]
\* black_point_in_rect
Inside(p, r) == p[1] >= r.x /\ p[1] < r.x + r.w /\ p[2] >= r.y /\ p[2] < r.y + r.h

\* A control: its kind, the window it belongs to, and its number there.
Control(k, w, n) == [kind |-> k, win |-> w, nr |-> n]
At(k, w, n, r) == [c |-> Control(k, w, n), r |-> r]
Seq0(n, F(_)) == [i \in 1 .. n |-> F(i - 1)]
-----------------------------------------------------------------------------
\* black_gui_draw_desktop_icons: the folder and its tab.
IconY(i) == 30 + 80 * i
DrawnIcons ==
  Seq0(4, LAMBDA i : At("icon", 0, i, Rect(30, IconY(i) + 5, 40, 30)))
    \o Seq0(4, LAMBDA i : At("icon", 0, i, Rect(30, IconY(i), 15, 5)))

\* black_gui_draw_window: shadow, title bar with its buttons, and contents.
DrawnTitle(n, w) ==
  <<At("shadow", n, 0, Rect(w.x + 5, w.y + 5, w.w, w.h)),
    At("title", n, 0, Rect(w.x, w.y, w.w, TITLEBAR)),
    At("close", n, 0, Rect(w.x + w.w - 24, w.y + 4, 16, 16)),
    At("maximize", n, 0, Rect(w.x + w.w - 44, w.y + 4, 16, 16)),
    At("minimize", n, 0, Rect(w.x + w.w - 64, w.y + 4, 16, 16))>>
    \o (IF w.title = "Notepad"
        THEN <<At("save", n, 0, Rect(w.x + w.w - 114, w.y + 4, 46, 16))>> ELSE << >>)

\* The lines of the system monitor, while they fit.
FirstTaskLine(w) == w.y + TITLEBAR + 10 + 20 + 12 + 30 + 16
DrawnTasks(n, w) ==
  LET rows == Cardinality({i \in 0 .. Tasks - 1 : FirstTaskLine(w) + 12 * i < w.y + w.h - 20})
  IN Seq0(rows, LAMBDA i : At("task", n, i, Rect(w.x + 10, FirstTaskLine(w) + 12 * i, 208, 8)))

\* The file manager: its UP button, and five folders or files to a row.
EntryX(w, i) == w.x + 10 + (i % 5) * 80
EntryY(w, i) == w.y + TITLEBAR + 40 + (i \div 5) * 70
DrawnFiles(n, w) ==
  <<At("up", n, 0, Rect(w.x + w.w - 70, w.y + TITLEBAR + 6, 50, 15))>>
    \o Seq0(Len(Entries), LAMBDA i :
         At("entry", n, i, IF Entries[i + 1] = "dir"
                           THEN Rect(EntryX(w, i), EntryY(w, i) + 5, 40, 30)
                           ELSE Rect(EntryX(w, i) + 5, EntryY(w, i), 30, 35)))

DrawnColours(n, w) ==
  Seq0(4, LAMBDA i : At("colour", n, i, Rect(w.x + 10 + 60 * i, w.y + TITLEBAR + 50, 50, 50)))

DrawnWindow(n, w) ==
  IF w.minimized THEN << >>
  ELSE DrawnTitle(n, w)
         \o <<At("body", n, 0, Rect(w.x, w.y + TITLEBAR, w.w, w.h - TITLEBAR))>>
         \o CASE w.title = "System Monitor" -> DrawnTasks(n, w)
              [] w.title = "File Manager" -> DrawnFiles(n, w)
              [] w.title = "Settings" -> DrawnColours(n, w)
              [] OTHER -> << >>

\* black_gui_draw_taskbar and black_gui_draw_menu.
DrawnTaskbar(d) ==
  <<At("taskbar", 0, 0, Rect(0, SCREEN_H - 30, SCREEN_W, 30)),
    At("start", 0, 0, Rect(4, SCREEN_H - 26, 80, 22))>>
    \o Seq0(Len(d.windows), LAMBDA i : At("button", 0, i, Rect(96 + 124 * i, SCREEN_H - 26, 120, 22)))

MenuRect(d) == Rect(d.menu_x, d.menu_y, 180, d.count * 28 + 10)
DrawnMenu(d) ==
  IF d.count = 0 THEN << >>
  ELSE <<At("menu", 0, 0, MenuRect(d))>>
         \o Seq0(d.count, LAMBDA i :
              At("item", 0, i, Rect(d.menu_x + 2, d.menu_y + 5 + i * 28, 176, 28)))

\* black_gui_loop draws in this order, so the last at a point is seen.
Drawn(d) ==
  DrawnIcons
    \o FlattenSeq([n \in DOMAIN d.windows |-> DrawnWindow(n, d.windows[n])])
    \o DrawnTaskbar(d) \o DrawnMenu(d)

Desk == Control("desk", 0, 0)
Seen(d, p) ==
  LET drawn == Drawn(d)
      hits  == {i \in DOMAIN drawn : Inside(p, drawn[i].r)}
  IN IF hits = {} THEN Desk ELSE drawn[Max(hits)].c
-----------------------------------------------------------------------------
\* black_gui_handle_mouse: what a press of the left button acts on, a set
\* because some controls are acted on without ending the search.  First the
\* item of the open menu.
MenuAct(d, p) ==
  LET row == (p[2] - d.menu_y - 5) \div 28
  IN IF Inside(p, MenuRect(d)) /\ p[2] - d.menu_y - 5 >= 0 /\ row < d.count
     THEN {Control("item", 0, row)} ELSE {}

TaskbarAct(d, p) ==
  IF p[1] < 84 THEN {Control("start", 0, 0)}
  ELSE {Control("button", 0, i) :
          i \in {j \in 0 .. Len(d.windows) - 1 : p[1] >= 96 + 124 * j /\ p[1] < 216 + 124 * j}}

IconAt(p) == {i \in 0 .. 3 : Inside(p, Rect(30, IconY(i), 40, 40))}

\* The contents of a window, before it is known whether the pointer is in
\* the window at all.
TaskAct(n, w, p) ==
  LET base == w.y + TITLEBAR + 10 + 20 + 12 + 20 + 30 + 16
      row  == (p[2] - base) \div 12
  IN IF p[2] >= base /\ p[2] < w.y + w.h - 20 /\ row < Tasks
     THEN {Control("task", n, row)} ELSE {}
ColourAct(n, w, p) ==
  {Control("colour", n, i) :
     i \in {j \in 0 .. 3 : Inside(p, Rect(w.x + 10 + 60 * j, w.y + TITLEBAR + 50, 50, 50))}}
UpAct(n, w, p) ==
  IF Inside(p, Rect(w.x + w.w - 70, w.y + TITLEBAR + 6, 50, 15)) THEN {Control("up", n, 0)} ELSE {}
EntryAct(n, w, p) ==
  LET hits == {i \in 0 .. Len(Entries) - 1 : Inside(p, Rect(EntryX(w, i), EntryY(w, i), 60, 60))}
  IN IF double /\ hits # {} THEN {Control("entry", n, Min(hits))} ELSE {}
FileAct(n, w, p) == IF UpAct(n, w, p) # {} THEN UpAct(n, w, p) ELSE EntryAct(n, w, p)

\* The title bar: from the right, every button reaches to the next one.
TitleKindShifted(w, p) ==
  LET right == w.x + w.w - p[1]
  IN CASE w.title = "Notepad" /\ Inside(p, Rect(w.x + w.w - 114, w.y + 4, 46, 16)) -> "save"
       [] right <= 20 -> "close" [] right <= 40 -> "maximize" [] right <= 60 -> "minimize"
       [] OTHER -> "title"
TitleKind(w, p) ==
  LET right == w.x + w.w - p[1]
  IN CASE w.title = "Notepad" /\ Inside(p, Rect(w.x + w.w - 114, w.y + 4, 46, 16)) -> "save"
       [] right <= 24 -> "close" [] right <= 44 -> "maximize" [] right <= 64 -> "minimize"
       [] OTHER -> "title"

FrameAct(n, w, p) ==
  IF Inside(p, Rect(w.x, w.y, w.w, TITLEBAR)) THEN {Control(TitleKind(w, p), n, 0)}
  ELSE IF Inside(p, Rect(w.x, w.y, w.w, w.h)) THEN {Control("body", n, 0)} ELSE {}

Ends(n, w, p) ==
  /\ ~w.minimized
  /\ FrameAct(n, w, p) # {} \/ (w.title = "File Manager" /\ FileAct(n, w, p) # {})

WindowAct(n, w, p) ==
  IF w.minimized THEN {}
  ELSE IF w.title = "File Manager" /\ FileAct(n, w, p) # {} THEN FileAct(n, w, p)
  ELSE (CASE w.title = "System Monitor" -> TaskAct(n, w, p)
          [] w.title = "Settings" -> ColourAct(n, w, p)
          [] OTHER -> {}) \cup FrameAct(n, w, p)

\* From the front window to the first that ends the search.
WindowsAct(d, p) ==
  LET ending == {i \in DOMAIN d.windows : Ends(i, d.windows[i], p)}
  IN UNION {WindowAct(n, d.windows[n], p) : n \in {i \in DOMAIN d.windows : \A j \in ending : j <= i}}

Acts(d, p) ==
  IF d.count # 0 THEN MenuAct(d, p)
  ELSE IF p[2] >= SCREEN_H - 30 THEN TaskbarAct(d, p)
  ELSE IF IconAt(p) # {} THEN {Control("icon", 0, i) : i \in IconAt(p)}
  ELSE WindowsAct(d, p)
-----------------------------------------------------------------------------
\* The corners of everything drawn, from both sides.
Corners(d) ==
  UNION {({c.r.x - 1, c.r.x, c.r.x + c.r.w - 1, c.r.x + c.r.w}
            \X {c.r.y - 1, c.r.y, c.r.y + c.r.h - 1, c.r.y + c.r.h}) : c \in ToSet(Drawn(d))}

NoDesk == [windows |-> << >>, count |-> 0, menu_x |-> 0, menu_y |-> 0]
LayoutInit == desk = NoDesk /\ point = <<0, 0>> /\ double = FALSE
DeskGiven ==
  /\ desk = NoDesk
  /\ desk' \in Desks
  /\ double' = (\E i \in DOMAIN desk'.windows : desk'.windows[i].title = "File Manager")
  /\ point' \in {p \in Corners(desk') : p[1] \in 0 .. SCREEN_W - 1 /\ p[2] \in 0 .. SCREEN_H - 1}

\* A control that is seen under the pointer is the one that a press acts on,
\* and no other window is, whatever lies over what: menus, task bar, the
\* buttons of title bars, colours, folders.  Left out are the lines of the
\* system monitor, and points over an icon of the desktop, which comes first
\* although windows cover it.
ControlsWork ==
  LET seen == Seen(desk, point)
      acts == {c \in Acts(desk, point) : c.kind # "task"}
  IN /\ seen.kind \notin {"desk", "shadow", "taskbar", "menu", "task"}
     /\ seen.kind = "entry" => double
     /\ seen.kind # "item" => desk.count = 0
     /\ seen.win # 0 => IconAt(point) = {}
     => /\ acts # {} /\ \A c \in acts : c.win = seen.win
        /\ seen.kind \notin {"body", "title"} => seen \in acts

\* What the system monitor says of its lines: "Click Task to Kill".
ClickedTaskIsKilled ==
  LET seen == Seen(desk, point)
  IN seen.kind = "task" /\ desk.count = 0 /\ IconAt(point) = {} => seen \in Acts(desk, point)
-----------------------------------------------------------------------------
(***************************************************************************)
(* Desktops for the layout: every pair of windows of the sizes in which    *)
(* the code opens them, one over the other, a minimized window, and both   *)
(* menus.                                                                  *)
(***************************************************************************)

Opened(title, x, y) ==
  LET Of(w, h) == [x |-> x, y |-> y, w |-> w, h |-> h, title |-> title, minimized |-> FALSE]
  IN CASE title = "Terminal" -> Of(500, 350)
       [] title = "System Monitor" -> Of(400, 500)
       [] title = "File Manager" -> Of(500, 400)
       [] title = "Settings" -> Of(300, 200)
       [] title = "Notepad" -> Of(400, 300)
Titles == {"Terminal", "System Monitor", "File Manager", "Settings", "Notepad"}

MCDesks ==
  LET rear  == {Opened(t, 100, 100) : t \in Titles}
      fore  == {Opened(t, 350, 160) : t \in Titles}
                 \cup {[Opened("Notepad", 200, 200) EXCEPT !.minimized = TRUE]}
  IN [windows : {<<v, w>> : v \in rear, w \in fore}, count : {0}, menu_x : {0}, menu_y : {0}]
       \cup [windows : {<<w>> : w \in rear}, count : {4}, menu_x : {120}, menu_y : {200}]
       \cup [windows : {<<w>> : w \in rear}, count : {6}, menu_x : {0}, menu_y : {560}]
MCEntries == <<"dir", "file", "dir", "dir", "file", "file">>

LayoutSpec == LayoutInit /\ [][DeskGiven]_layout
=============================================================================
