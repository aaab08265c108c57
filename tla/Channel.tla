------------------------------ MODULE Channel -------------------------------
(***************************************************************************)
(* What a bounded first-in first-out buffer promises: what is put comes out*)
(* once and in order, as long as the channel is not reset.                 *)
(***************************************************************************)
EXTENDS Integers, Sequences

CONSTANTS
  Capacity,
  Burst,       \* how many items may be taken at once
  Resettable   \* whether all may be forgotten at once

VARIABLE content

Init == content = <<>>

\* Put some items at the end.
Put ==
  /\ Len(content') \in Len(content) + 1 .. Capacity
  /\ SubSeq(content', 1, Len(content)) = content

\* Take some items from the front.
Take ==
  \E n \in 1 .. Len(content) :
    n <= Burst /\ content' = SubSeq(content, n + 1, Len(content))

\* Forget all there is.
Reset == Resettable /\ content' = <<>>

Next == Put \/ Take \/ Reset

Spec == Init /\ [][Next]_content
=============================================================================
