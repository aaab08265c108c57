------------------------------ MODULE FifoLock ------------------------------
(***************************************************************************)
(* What a fair lock promises: those who ask stand in line, only the head   *)
(* of the line may be inside, and leaving admits the next one.             *)
(***************************************************************************)
EXTENDS Naturals, Sequences

CONSTANT Procs

VARIABLES
  line,    \* those who asked and have not left, in the order they asked
  inside   \* TRUE when the head of the line has entered

vars == <<line, inside>>

Init == line = <<>> /\ inside = FALSE

InLine(p) == \E i \in DOMAIN line : line[i] = p

Ask(p) == ~InLine(p) /\ line' = Append(line, p) /\ UNCHANGED inside

Enter(p) ==
  /\ line # <<>> /\ Head(line) = p /\ ~inside
  /\ inside' = TRUE
  /\ UNCHANGED line

Leave(p) ==
  /\ line # <<>> /\ Head(line) = p /\ inside
  /\ line' = Tail(line)
  /\ inside' = FALSE

Next == \E p \in Procs : Ask(p) \/ Enter(p) \/ Leave(p)

Spec == Init /\ [][Next]_vars
=============================================================================
