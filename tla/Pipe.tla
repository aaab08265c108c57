-------------------------------- MODULE Pipe --------------------------------
(***************************************************************************)
(* One slot of black_pipes in kernel/ipc/ipc.c, a ring of PIPE_BUF_SIZE    *)
(* bytes, with callers that interleave.  black_pipe_read and               *)
(* black_pipe_write look at black_active before they take the pipe's lock, *)
(* so a call may reach a pipe that was closed in between.  Under the lock  *)
(* interrupts are off and a transfer is one step.  black_pipe_create takes *)
(* no lock: its memset clears the structure field after field, and with    *)
(* OVERLAP a late call may come in the middle of it.                       *)
(***************************************************************************)
EXTENDS Integers, Sequences

CONSTANTS
  Procs,
  Bytes,           \* the byte values
  PIPE_BUF_SIZE,   \* BLACK_PIPE_BUF_SIZE
  OVERLAP          \* may a create overlap with other calls on the slot?

ASSUME PipeAssumption == PIPE_BUF_SIZE \in Nat \ {0} /\ OVERLAP \in BOOLEAN

Positions == 0 .. PIPE_BUF_SIZE - 1
Clearing == {"buffer", "read_pos", "write_pos", "count"}

VARIABLES
  buffer,     \* black_buffer
  read_pos,   \* black_read_pos
  write_pos,  \* black_write_pos
  count,      \* black_count
  active,     \* black_active
  call        \* where each process is: "none", past the check of a "read" or
              \* a "write", about to clear a field, or about to "activate"

vars == <<buffer, read_pos, write_pos, count, active, call>>
ring == <<buffer, read_pos, write_pos, count>>

Zero == CHOOSE b \in Bytes : TRUE
Empty == [i \in Positions |-> Zero]
Data == UNION {[1 .. n -> Bytes] : n \in 1 .. PIPE_BUF_SIZE + 1}

Goes(p, to) == call' = [call EXCEPT ![p] = to]

Init ==
  /\ buffer = Empty /\ read_pos = 0 /\ write_pos = 0 /\ count = 0
  /\ active = FALSE
  /\ call = [p \in Procs |-> "none"]

\* black_pipe_create finds the slot inactive, clears it and activates it.
CreateFind(p) ==
  /\ call[p] = "none" /\ ~active
  /\ OVERLAP \/ \A q \in Procs : call[q] = "none"
  /\ Goes(p, "buffer")
  /\ UNCHANGED <<ring, active>>

CreateForgetsWritePos(p) ==
  /\ \/ /\ call[p] = "buffer" /\ Goes(p, "read_pos") /\ buffer' = Empty
        /\ UNCHANGED <<read_pos, write_pos, count>>
     \/ /\ call[p] = "read_pos" /\ Goes(p, "count") /\ read_pos' = 0
        /\ UNCHANGED <<buffer, write_pos, count>>
     \/ /\ call[p] = "count" /\ Goes(p, "activate") /\ count' = 0
        /\ UNCHANGED <<buffer, read_pos, write_pos>>
  /\ UNCHANGED active
CreateClear(p) ==
  /\ \/ /\ call[p] = "buffer" /\ Goes(p, "read_pos") /\ buffer' = Empty
        /\ UNCHANGED <<read_pos, write_pos, count>>
     \/ /\ call[p] = "read_pos" /\ Goes(p, "write_pos") /\ read_pos' = 0
        /\ UNCHANGED <<buffer, write_pos, count>>
     \/ /\ call[p] = "write_pos" /\ Goes(p, "count") /\ write_pos' = 0
        /\ UNCHANGED <<buffer, read_pos, count>>
     \/ /\ call[p] = "count" /\ Goes(p, "activate") /\ count' = 0
        /\ UNCHANGED <<buffer, read_pos, write_pos>>
  /\ active' = (active /\ call[p] # "count")

CreateActivate(p) ==
  /\ call[p] = "activate" /\ Goes(p, "none")
  /\ active' = TRUE
  /\ UNCHANGED ring

Close ==
  /\ active
  /\ active' = FALSE
  /\ UNCHANGED <<ring, call>>

Enter(p, op) ==
  /\ call[p] = "none" /\ active
  /\ Goes(p, op)
  /\ UNCHANGED <<ring, active>>

\* The two loops under the lock, for sz bytes asked for or offered, stop at
\* the smaller of that and what the ring has.
Smaller(m, n) == IF m <= n THEN m ELSE n

Read(p, sz) ==
  LET n == Smaller(sz, count)
  IN /\ call[p] = "read" /\ Goes(p, "none")
     /\ read_pos' = (read_pos + n) % PIPE_BUF_SIZE
     /\ count' = count - n
     /\ UNCHANGED <<buffer, write_pos, active>>

Write(p, src) ==
  LET n == Smaller(Len(src), PIPE_BUF_SIZE - count)
  IN /\ call[p] = "write" /\ Goes(p, "none")
     /\ buffer' = [i \in Positions |->
                     LET k == (i - write_pos) % PIPE_BUF_SIZE
                     IN IF k < n THEN src[k + 1] ELSE buffer[i]]
     /\ write_pos' = (write_pos + n) % PIPE_BUF_SIZE
     /\ count' = count + n
     /\ UNCHANGED <<read_pos, active>>

Next ==
  \/ Close
  \/ \E p \in Procs :
       \/ CreateFind(p) \/ CreateClear(p) \/ CreateActivate(p)
       \/ Enter(p, "read") \/ Enter(p, "write")
       \/ \E sz \in 0 .. PIPE_BUF_SIZE + 1 : Read(p, sz)
       \/ \E src \in Data : Write(p, src)

Spec == Init /\ [][Next]_vars
-----------------------------------------------------------------------------
\* Positions stay inside the buffer.
TypeOK ==
  /\ buffer \in [Positions -> Bytes]
  /\ read_pos \in Positions /\ write_pos \in Positions
  /\ count \in 0 .. PIPE_BUF_SIZE
  /\ active \in BOOLEAN
  /\ call \in [Procs -> {"none", "read", "write", "activate"} \cup Clearing]

BeingCreated == \E p \in Procs : call[p] \in Clearing

Content ==
  IF BeingCreated THEN <<>>
  ELSE [i \in 1 .. count |-> buffer[(read_pos + i - 1) % PIPE_BUF_SIZE]]
Ring == INSTANCE Channel WITH
          Capacity <- PIPE_BUF_SIZE, Burst <- PIPE_BUF_SIZE, Resettable <- TRUE, content <- Content

\* The ring is a bounded channel: bytes come out once, in the order they
\* went in, across the wrap of the buffer; only black_pipe_create forgets
\* them.
ImplementsChannel == Ring!Spec
=============================================================================
