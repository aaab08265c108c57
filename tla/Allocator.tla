----------------------------- MODULE Allocator -----------------------------
(***************************************************************************)
(* What a memory allocator promises its callers: an allocation is a range  *)
(* of Region that meets no other one, and it stays theirs, where it is,    *)
(* until they give it back.                                                *)
(***************************************************************************)
EXTENDS Integers

CONSTANTS
  Region,   \* the addresses the allocator manages
  Sizes     \* the sizes callers ask for

VARIABLE owned  \* owned[p] is the number of bytes the caller may use at p

Bytes(p, n) == p .. p + n - 1
Taken == UNION {Bytes(p, owned[p]) : p \in DOMAIN owned}

Without(p) == [q \in DOMAIN owned \ {p} |-> owned[q]]

Init == owned = [p \in {} |-> 0]

\* Grant n bytes at an address where nothing is owned.
Get(p, n) ==
  /\ n > 0 /\ p \notin DOMAIN owned
  /\ owned' = [q \in DOMAIN owned \cup {p} |-> IF q = p THEN n ELSE owned[q]]
  /\ Bytes(p, n) \subseteq Region \ Taken

Give(p) == p \in DOMAIN owned /\ owned' = Without(p)

\* Resize in place, or move: the new range may not touch what was owned.
Resize(p, n) ==
  /\ p \in DOMAIN owned
  /\ owned' = [owned EXCEPT ![p] = n]
  /\ Bytes(p, n) \subseteq Region \ (Taken \ Bytes(p, owned[p]))

Move(p, r, n) ==
  /\ p \in DOMAIN owned /\ r \notin DOMAIN owned
  /\ owned' = [q \in (DOMAIN owned \ {p}) \cup {r} |-> IF q = r THEN n ELSE owned[q]]
  /\ Bytes(r, n) \subseteq Region \ Taken

\* The new address is one that is owned after the step.
Next ==
  \/ \E p \in DOMAIN owned :
       \/ Give(p)
       \/ \E n \in Sizes :
            Resize(p, n) \/ \E r \in DOMAIN owned' : Move(p, r, n)
  \/ \E r \in DOMAIN owned', n \in Sizes : Get(r, n)

Spec == Init /\ [][Next]_owned
=============================================================================
