-------------------------------- MODULE MCGui -------------------------------
(***************************************************************************)
(* The desktop, its input devices and its drawing for TLC, as a disjoint   *)
(* union: each behaviour exercises the part that gpart names.              *)
(***************************************************************************)
EXTENDS Desktop, TextScreens, GuiLoop, Layout

CONSTANTS FB_WIDTH, FB_HEIGHT, STRIDE, CELL, Colours, Font, Strings, Origins, Sizes, DRAWINGS

VARIABLES gpart, back, screen, picture, shown, drawings

Fb == INSTANCE Framebuffer

MCPrompt == <<"$">>
MCMoves == -2 .. 2
MCFont == [c \in {"a", "?"} |-> IF c = "a" THEN {<<0, 0>>, <<1, 1>>} ELSE {<<0, 1>>}]
MCStrings == {<<"a", "?">>, <<"b">>}
MCOrigins == {-1, 1, 2}

pixels == <<back, screen, picture, shown, drawings>>
GuiVars == <<gpart, desktop, term, vga, gui, mousevars, layout, pixels>>

MCInit ==
  /\ gpart \in {"windows", "terminal", "vga", "loop", "mouse", "layout", "pixels"}
  /\ DesktopInit /\ TermInit /\ VgaInit /\ GuiInit /\ MouseInit /\ LayoutInit /\ Fb!FbInit
  /\ gpart # "pixels" => back = [a \in DOMAIN back |-> "k"] /\ screen = back

MCNext ==
  /\ gpart' = gpart
  /\ IF gpart = "windows" THEN DesktopNext ELSE UNCHANGED desktop
  /\ IF gpart = "terminal" THEN TermNext ELSE UNCHANGED term
  /\ IF gpart = "vga" THEN VgaNext ELSE UNCHANGED vga
  /\ IF gpart = "loop" THEN GuiNext ELSE UNCHANGED gui
  /\ IF gpart = "mouse" THEN MouseNext ELSE UNCHANGED mousevars
  /\ IF gpart = "layout" THEN DeskGiven ELSE UNCHANGED layout
  /\ IF gpart = "pixels" THEN Fb!FbNext ELSE UNCHANGED pixels

MCSpec == MCInit /\ [][MCNext]_GuiVars /\ (gpart = "loop" => GuiFairness)
-----------------------------------------------------------------------------
\* The type invariants of the five parts that have lasting state.
GuiTypeOK == DesktopTypeOK /\ TermTypeOK /\ VgaTypeOK /\ GuiLoopTypeOK /\ MouseTypeOK

\* Both text screens show the latest rows of all that was printed, and the
\* pixels of the desktop the picture that was drawn.
ScreensShowTail ==
  /\ ShowsTail /\ VgaShowsTail
  /\ gpart = "pixels" => Fb!DrawsPicture

\* Every key reaches the screen: although LoopClear can lose a request for
\* drawing, a screen that is out of date is drawn again, unless the machine
\* is halted.
KeysReachScreen == gpart = "loop" /\ stale ~> (~stale \/ stopped)
=============================================================================
