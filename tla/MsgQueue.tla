------------------------------ MODULE MsgQueue ------------------------------
(***************************************************************************)
(* One message queue of kernel/ipc/ipc.c.  black_msgq_send tests for a full*)
(* queue, and black_msgq_recv for an empty one, before they take the lock; *)
(* what they found may be stale when they act on it.                       *)
(*                                                                         *)
(* A message is the heap copy that send makes; its slot keeps the pointer  *)
(* after recv has freed it.                                                *)
(***************************************************************************)
EXTENDS Integers, Sequences

CONSTANTS
  Senders, Receivers,
  MAX_MESSAGES,   \* BLACK_MAX_MESSAGES
  COUNT_MOD,           \* black_count is an unsigned of COUNT_MOD values
  SENT_CAP        \* bound: messages sent

Slots == 0 .. MAX_MESSAGES - 1
Callers == Senders \cup Receivers
NULL == 0       \* messages are numbered from 1

VARIABLES
  messages,   \* black_messages
  head,       \* black_head, where send stores
  tail,       \* black_tail, where recv takes
  count,      \* black_count
  checked,    \* the processes past their test of black_count
  heap,       \* the copies that are allocated
  received    \* the messages recv has returned, in order

vars == <<messages, head, tail, count, checked, heap, received>>

\* Messages sent so far: a message number is never used again.
Known == heap \cup {received[i] : i \in DOMAIN received}
Fresh == CHOOSE m \in 1 .. SENT_CAP : m \notin Known /\ \A k \in 1 .. m - 1 : k \in Known

Init ==
  /\ messages = [i \in Slots |-> NULL]
  /\ head = 0 /\ tail = 0 /\ count = 0
  /\ checked = {}
  /\ heap = {}
  /\ received = <<>>

SendCheck(p) ==
  /\ p \notin checked /\ count < MAX_MESSAGES
  /\ checked' = checked \cup {p}
  /\ UNCHANGED <<messages, head, tail, count, heap, received>>

\* Under the lock; without memory for the copy nothing is stored.
Send(p) ==
  /\ p \in checked
  /\ checked' = checked \ {p}
  /\ \/ /\ Known # 1 .. SENT_CAP
        /\ messages' = [messages EXCEPT ![head] = Fresh]
        /\ heap' = heap \cup {Fresh}
        /\ head' = (head + 1) % MAX_MESSAGES
        /\ count' = (count + 1) % COUNT_MOD
     \/ UNCHANGED <<messages, heap, head, count>>
  /\ UNCHANGED <<tail, received>>

RecvUnchecked(p) ==
  /\ p \notin checked
  /\ checked' = checked \cup {p}
  /\ UNCHANGED <<messages, head, tail, count, heap, received>>
RecvCheck(p) ==
  /\ p \notin checked /\ count # 0
  /\ checked' = checked \cup {p}
  /\ UNCHANGED <<messages, head, tail, count, heap, received>>

Recv(p) ==
  /\ p \in checked
  /\ checked' = checked \ {p}
  /\ received' = Append(received, messages[tail])
  /\ heap' = heap \ {messages[tail]}
  /\ tail' = (tail + 1) % MAX_MESSAGES
  /\ count' = (count - 1) % COUNT_MOD
  /\ UNCHANGED <<messages, head>>

Next ==
  \/ \E p \in Senders : SendCheck(p) \/ Send(p)
  \/ \E p \in Receivers : RecvCheck(p) \/ Recv(p)

Spec == Init /\ [][Next]_vars
-----------------------------------------------------------------------------
\* Indices and the count stay in range.
TypeOK ==
  /\ messages \in [Slots -> 0 .. SENT_CAP]
  /\ head \in Slots /\ tail \in Slots
  /\ count \in 0 .. MAX_MESSAGES
  /\ checked \subseteq Callers
  /\ heap \subseteq 1 .. SENT_CAP
  /\ received \in Seq(1 .. SENT_CAP)

\* Every message is received once, in the order of sending, and a message
\* that was sent is still held until then.
Reliable ==
  /\ \A i \in DOMAIN received : received[i] = i
  /\ heap = Len(received) + 1 .. Len(received) + count
=============================================================================
