--------------------------- MODULE SpinlockProofs ---------------------------
(***************************************************************************)
(* Proofs, for any number of processes and of ticket values that is not    *)
(* smaller, that the ticket lock of kernel/sync/spinlock.c is exclusive    *)
(* and first come, first served while its counters wrap.                   *)
(***************************************************************************)
EXTENDS Spinlock, TLAPS, FiniteSetTheorems, SequenceTheorems

\* The number of tickets that are out, and the distances as a function.
Out == Cardinality(Holding)
Dist == [p \in Procs |-> Distance(p)]

\* The tickets that are out follow the one that is served without a gap, up
\* to the next to be drawn, and no two are equal: the distances of those who
\* hold them are 0 .. Out - 1, each once.  Who is inside is at distance 0.
TicketsInARow ==
  /\ ticket = IF serving + Out < TICKETS THEN serving + Out ELSE serving + Out - TICKETS
  /\ \A p \in Holding : Distance(p) < Out
  /\ \A p, q \in Holding : Distance(p) = Distance(q) => p = q
  /\ \A d \in 0 .. Out - 1 : \E p \in Holding : Distance(p) = d
  /\ \A p \in Procs : pc[p] = "in" => my[p] = serving

IInv == TypeOK /\ TicketsInARow
-----------------------------------------------------------------------------
\* The fetch-and-add wraps from the last ticket to 0.
LEMMA IncValue ==
  ASSUME NEW n \in 0 .. TICKETS - 1
  PROVE  Inc(n) = IF n + 1 = TICKETS THEN 0 ELSE n + 1
BY SpinlockAssumption DEF Inc

\* The distance between two tickets, without the remainder.
LEMMA DistanceValue ==
  ASSUME NEW a \in 0 .. TICKETS - 1, NEW b \in 0 .. TICKETS - 1
  PROVE  (a - b) % TICKETS = IF a >= b THEN a - b ELSE a - b + TICKETS
BY SpinlockAssumption

\* Distances are below TICKETS, and 0 only at the ticket served.
LEMMA DistanceType ==
  ASSUME TypeOK, NEW p \in Procs
  PROVE  /\ Distance(p) = IF my[p] >= serving THEN my[p] - serving ELSE my[p] - serving + TICKETS
         /\ Distance(p) \in 0 .. TICKETS - 1
         /\ Distance(p) = 0 <=> my[p] = serving
<1>1. my[p] \in 0 .. TICKETS - 1 /\ serving \in 0 .. TICKETS - 1 /\ TICKETS \in Nat
  BY SpinlockAssumption DEF TypeOK
<1>2. Distance(p) = IF my[p] >= serving THEN my[p] - serving ELSE my[p] - serving + TICKETS
  BY <1>1, DistanceValue DEF Distance
<1> QED BY <1>1, <1>2

\* There are never more tickets out than processes.
LEMMA OutType ==
  /\ IsFiniteSet(Holding) /\ Out \in Nat /\ Out <= TICKETS
  /\ \A p \in Procs : p \notin Holding => Out < TICKETS
<1>1. Holding \subseteq Procs
  BY DEF Holding
<1>2. IsFiniteSet(Holding) /\ Out \in Nat /\ Out <= Cardinality(Procs)
      /\ (Out = Cardinality(Procs) => Holding = Procs)
  BY <1>1, FS_Subset, FS_CardinalityType, SpinlockAssumption DEF Out
<1>3. Cardinality(Procs) \in Nat
  BY FS_CardinalityType, SpinlockAssumption
<1> QED BY <1>2, <1>3, SpinlockAssumption

\* A process that draws a ticket joins the row at its end: no ticket that is
\* out is drawn a second time, because there are at least as many as
\* processes.
LEMMA TakePreserves ==
  ASSUME IInv, NEW p \in Procs, p \notin Holding, Take(p)
  PROVE  /\ IInv'
         /\ Out \in Nat /\ Out' = Out + 1 /\ Holding' = Holding \cup {p}
         /\ Dist'[p] = Out /\ \A q \in Holding : Dist'[q] = Dist[q]
<1> USE DEF IInv
<1>1. Out \in Nat /\ Out < TICKETS /\ TICKETS \in Nat
  BY OutType, SpinlockAssumption
<1>2. ticket \in 0 .. TICKETS - 1 /\ serving \in 0 .. TICKETS - 1 /\ serving' = serving
      /\ my \in [Procs -> 0 .. TICKETS - 1] /\ pc \in [Procs -> {"out", "wait", "in", "pause"}]
  BY DEF TypeOK, Take
<1>3. TypeOK'
  BY <1>1, <1>2, IncValue DEF TypeOK, Take
<1>4. Holding' = Holding \cup {p}
  BY <1>2 DEF Holding, Take
<1>5. Out' = Out + 1
  BY <1>4, OutType, FS_AddElement DEF Out
<1>6. \A q \in Holding : Distance(q)' = Distance(q)
  BY <1>2 DEF Distance, Take, Holding
<1>7. Distance(p)' = Out
  <2>1. my'[p] = ticket
    BY <1>2 DEF Take
  <2>2. Distance(p)' = IF ticket >= serving THEN ticket - serving ELSE ticket - serving + TICKETS
    BY <1>2, <2>1, DistanceValue DEF Distance
  <2> QED BY <1>1, <1>2, <2>2 DEF TicketsInARow
<1>8. \A q \in Holding : Distance(q) \in Nat
  BY DistanceType, <1>1 DEF Holding
<1>9. TicketsInARow'
  <2>1. (ticket = IF serving + Out < TICKETS THEN serving + Out ELSE serving + Out - TICKETS)'
    BY <1>1, <1>2, <1>5, IncValue DEF TicketsInARow, Take
  <2>2. (\A q \in Holding : Distance(q) < Out)'
    BY <1>1, <1>4, <1>5, <1>6, <1>7, <1>8 DEF TicketsInARow
  <2>3. (\A q, r \in Holding : Distance(q) = Distance(r) => q = r)'
    BY <1>1, <1>4, <1>6, <1>7, <1>8 DEF TicketsInARow
  <2>4. (\A d \in 0 .. Out - 1 : \E q \in Holding : Distance(q) = d)'
    <3> SUFFICES ASSUME NEW d \in 0 .. Out PROVE \E q \in Holding' : Distance(q)' = d
      BY <1>1, <1>5
    <3>1. CASE d = Out
      BY <1>4, <1>7, <3>1
    <3>2. CASE d # Out
      BY <1>1, <1>4, <1>6, <3>2 DEF TicketsInARow
    <3> QED BY <3>1, <3>2
  <2>5. (\A q \in Procs : pc[q] = "in" => my[q] = serving)'
    BY <1>2 DEF TicketsInARow, Take
  <2> QED BY <2>1, <2>2, <2>3, <2>4, <2>5 DEF TicketsInARow
<1>10. Dist'[p] = Out /\ \A q \in Holding : Dist'[q] = Dist[q]
  BY <1>6, <1>7 DEF Dist, Holding
<1> QED BY <1>1, <1>3, <1>4, <1>5, <1>9, <1>10

\* Whoever leaves held the ticket served, the first of the row: the next one
\* moves to the front and every distance drops by one.
LEMMA LeavePreserves ==
  ASSUME IInv, NEW p \in Procs, NEW to \in {"out", "pause"}, Leave(p, to)
  PROVE  /\ IInv'
         /\ Out' = Out - 1 /\ p \in Holding /\ Holding' = Holding \ {p}
         /\ Dist[p] = 0 /\ \A q \in Holding \ {p} : Dist'[q] = Dist[q] - 1
<1> USE DEF IInv
<1>1. Out \in Nat /\ Out <= TICKETS /\ TICKETS \in Nat /\ TICKETS > 0
  BY OutType, SpinlockAssumption
<1>2. ticket \in 0 .. TICKETS - 1 /\ serving \in 0 .. TICKETS - 1 /\ ticket' = ticket /\ my' = my
      /\ my \in [Procs -> 0 .. TICKETS - 1] /\ pc \in [Procs -> {"out", "wait", "in", "pause"}]
  BY DEF TypeOK, Leave
<1>3. serving' = IF serving + 1 = TICKETS THEN 0 ELSE serving + 1
  BY <1>2, IncValue DEF Leave
<1>4. TypeOK'
  BY <1>1, <1>2, <1>3 DEF TypeOK, Leave
<1>5. p \in Holding /\ Holding' = Holding \ {p}
  BY <1>2 DEF Holding, Leave
<1>6. Out' = Out - 1
  BY <1>5, OutType, FS_RemoveElement DEF Out
<1>7. Distance(p) = 0
  BY DistanceType DEF TicketsInARow, Leave
<1>8. ASSUME NEW q \in Holding \ {p} PROVE Distance(q)' = Distance(q) - 1 /\ Distance(q) \in 1 .. TICKETS - 1
  <2>1. q \in Procs /\ Distance(q) # 0
    BY <1>5, <1>7 DEF TicketsInARow, Holding
  <2>2. Distance(q)' = IF my[q] >= serving' THEN my[q] - serving' ELSE my[q] - serving' + TICKETS
    <3>1. my[q] \in 0 .. TICKETS - 1 /\ serving' \in 0 .. TICKETS - 1 /\ my'[q] = my[q]
      BY <1>1, <1>2, <1>3, <2>1
    <3> HIDE DEF IInv
    <3> QED BY <3>1, DistanceValue DEF Distance
  <2>3. /\ Distance(q) = IF my[q] >= serving THEN my[q] - serving ELSE my[q] - serving + TICKETS
        /\ Distance(q) \in 0 .. TICKETS - 1 /\ my[q] # serving /\ my[q] \in 0 .. TICKETS - 1
    BY <1>2, <2>1, DistanceType
  <2> HIDE DEF IInv
  <2> QED BY <1>1, <1>2, <1>3, <2>1, <2>2, <2>3
<1>9. TicketsInARow'
  <2>1. (ticket = IF serving + Out < TICKETS THEN serving + Out ELSE serving + Out - TICKETS)'
    <3>1. Out > 0
      BY <1>1, <1>5, <1>7 DEF TicketsInARow
    <3> QED BY <1>1, <1>2, <1>3, <1>6, <3>1 DEF TicketsInARow
  <2>2. (\A q \in Holding : Distance(q) < Out)'
    BY <1>1, <1>5, <1>6, <1>8 DEF TicketsInARow
  <2>3. (\A q, r \in Holding : Distance(q) = Distance(r) => q = r)'
    BY <1>5, <1>8 DEF TicketsInARow
  <2>4. (\A d \in 0 .. Out - 1 : \E q \in Holding : Distance(q) = d)'
    <3> SUFFICES ASSUME NEW d \in 0 .. Out - 2 PROVE \E q \in Holding' : Distance(q)' = d
      BY <1>1, <1>6
    <3>1. PICK q \in Holding : Distance(q) = d + 1
      BY <1>1 DEF TicketsInARow
    <3> QED BY <1>5, <1>7, <1>8, <3>1
  <2>5. (\A q \in Procs : pc[q] = "in" => my[q] = serving)'
    <3> SUFFICES ASSUME NEW q \in Procs, pc'[q] = "in" PROVE FALSE
      OBVIOUS
    <3>1. q # p /\ pc[q] = "in"
      BY <1>2 DEF Leave
    <3>2. q \in Holding /\ Distance(q) = 0
      BY <3>1, DistanceType DEF TicketsInARow, Holding
    <3> QED BY <1>5, <1>7, <3>1, <3>2 DEF TicketsInARow
  <2> QED BY <2>1, <2>2, <2>3, <2>4, <2>5 DEF TicketsInARow
<1>10. Dist[p] = 0 /\ \A q \in Holding \ {p} : Dist'[q] = Dist[q] - 1
  BY <1>7, <1>8 DEF Dist, Holding
<1> QED BY <1>4, <1>5, <1>6, <1>9, <1>10

\* The end of the loop moves a process in; no ticket changes hands.
LEMMA SpinPreserves ==
  ASSUME IInv, NEW p \in Procs, Spin(p)
  PROVE  IInv' /\ Out' = Out /\ Holding' = Holding /\ Dist' = Dist /\ p \in Holding /\ Dist[p] = 0
<1> USE DEF IInv
<1>1. pc' \in [Procs -> {"out", "wait", "in", "pause"}] /\ Holding' = Holding
  BY DEF TypeOK, Holding, Spin
<1>2. TypeOK'
  BY <1>1 DEF TypeOK, Spin
<1>3. Out' = Out /\ \A q \in Procs : Distance(q)' = Distance(q)
  BY <1>1 DEF Out, Distance, Spin
<1>4. TicketsInARow'
  BY <1>1, <1>3 DEF TicketsInARow, Spin, TypeOK, Holding
<1>5. Dist' = Dist /\ p \in Holding /\ Dist[p] = 0
  BY <1>3, DistanceType DEF Dist, Holding, Spin
<1> QED BY <1>1, <1>2, <1>3, <1>4, <1>5
-----------------------------------------------------------------------------
\* Every step keeps the tickets in a row.
LEMMA NextPreserves ==
  ASSUME IInv, [Next]_vars
  PROVE  IInv'
<1>1. ASSUME NEW p \in Procs, Acquire(p) \/ CondvarReacquire(p) PROVE IInv'
  <2>1. p \notin Holding /\ Take(p)
    BY <1>1 DEF Acquire, CondvarReacquire, Holding
  <2> QED BY <2>1, TakePreserves
<1>2. ASSUME NEW p \in Procs, Release(p) \/ CondvarWait(p) PROVE IInv'
  BY <1>2, LeavePreserves DEF Release, CondvarWait
<1>3. ASSUME NEW p \in Procs, Spin(p) PROVE IInv'
  BY <1>3, SpinPreserves
<1>4. CASE UNCHANGED vars
  BY <1>4 DEF IInv, TypeOK, TicketsInARow, Out, Holding, Distance, vars
<1> QED BY <1>1, <1>2, <1>3, <1>4 DEF Next

\* Nobody holds a ticket at first, and both counters are 0.
LEMMA InitIsInARow == Init => IInv
<1> SUFFICES ASSUME Init PROVE IInv
  OBVIOUS
<1>1. Holding = {} /\ Out = 0
  BY FS_EmptySet DEF Init, Holding, Out
<1> QED BY <1>1, SpinlockAssumption DEF Init, IInv, TypeOK, TicketsInARow

\* In every behaviour the tickets that are out are in a row.
THEOREM TicketOrder == Spec => []IInv
<1>1. Init => IInv
  BY InitIsInARow
<1>2. IInv /\ [Next]_vars => IInv'
  BY NextPreserves
<1> QED BY <1>1, <1>2, PTL DEF Spec

\* Whatever the number of processes, and however often the counters have
\* wrapped, black_spinlock_acquire lets one process in at a time.
THEOREM LockIsExclusive == Spec => []MutualExclusion
<1>1. ASSUME IInv PROVE MutualExclusion
  <2> SUFFICES ASSUME NEW p \in Procs, NEW q \in Procs, pc[p] = "in", pc[q] = "in" PROVE p = q
    BY DEF MutualExclusion
  <2>1. Distance(p) = 0 /\ Distance(q) = 0 /\ p \in Holding /\ q \in Holding
    BY <1>1, DistanceType DEF IInv, TicketsInARow, Holding
  <2> QED BY <1>1, <2>1 DEF IInv, TicketsInARow
<1> QED BY <1>1, TicketOrder, PTL
-----------------------------------------------------------------------------
\* As many stand in front of a process as its ticket is away from the one
\* that is served.
LEMMA AheadCount ==
  ASSUME IInv, NEW p \in Holding
  PROVE  Cardinality(Ahead(p)) = Distance(p)
<1> DEFINE D == Distance(p)
           f == [q \in Ahead(p) |-> Distance(q)]
<1>1. \A q \in Holding : Distance(q) \in Nat
  BY DistanceType, SpinlockAssumption DEF Holding, IInv
<1>2. Out \in Nat /\ D \in Nat /\ D < Out
  BY <1>1, OutType DEF IInv, TicketsInARow
<1>3. \A q \in Ahead(p) : q \in Holding /\ Distance(q) \in 0 .. D - 1
  BY <1>1, <1>2 DEF Ahead
<1>4. \A d \in 0 .. D - 1 : \E q \in Ahead(p) : Distance(q) = d
  BY <1>2 DEF Ahead, IInv, TicketsInARow
<1>5. f \in Bijection(Ahead(p), 0 .. D - 1)
  <2>1. f \in Injection(Ahead(p), 0 .. D - 1)
    <3>1. f \in [Ahead(p) -> 0 .. D - 1]
      BY <1>3
    <3>2. \A q, r \in Ahead(p) : f[q] = f[r] => q = r
      BY <1>3 DEF IInv, TicketsInARow
    <3> QED BY <3>1, <3>2 DEF Injection, IsInjective
  <2>2. f \in Surjection(Ahead(p), 0 .. D - 1)
    BY <1>3, <1>4 DEF Surjection
  <2> QED BY <2>1, <2>2 DEF Bijection
<1>6. IsFiniteSet(Ahead(p))
  BY OutType, FS_Subset DEF Ahead
<1>7. Cardinality(Ahead(p)) = Cardinality(0 .. D - 1)
  BY <1>5, <1>6, FS_Bijection DEF ExistsBijection
<1> QED BY <1>2, <1>7, FS_Interval

\* The line is a sequence of Out processes; the one at place i has the ticket
\* at distance i - 1, and every process with a ticket has its place.
LineInOrder ==
  /\ Line \in Seq(Procs) /\ Len(Line) = Out
  /\ \A i \in 1 .. Out : Line[i] \in Holding /\ Dist[Line[i]] = i - 1
  /\ \A p \in Holding : Dist[p] + 1 \in 1 .. Out /\ Line[Dist[p] + 1] = p

\* The line follows the tickets.
LEMMA LineFollowsTickets == IInv => LineInOrder
<1> SUFFICES ASSUME IInv PROVE LineInOrder
  OBVIOUS
<1>1. Out \in Nat /\ \A p \in Holding : p \in Procs /\ Dist[p] = Distance(p) /\ Dist[p] \in Nat
  BY OutType, DistanceType, SpinlockAssumption DEF IInv, Holding, Dist
<1>2. ASSUME NEW i \in 1 .. Out PROVE Line[i] \in Holding /\ Dist[Line[i]] = i - 1
  <2>1. PICK q \in Holding : Distance(q) = i - 1
    BY <1>1 DEF IInv, TicketsInARow
  <2>2. \E r \in Holding : Cardinality(Ahead(r)) = i - 1
    BY <2>1, AheadCount
  <2>3. Line[i] \in Holding /\ Cardinality(Ahead(Line[i])) = i - 1
    BY <2>2 DEF Line, Out
  <2> QED BY <1>1, <2>3, AheadCount
<1>3. ASSUME NEW p \in Holding PROVE Dist[p] + 1 \in 1 .. Out /\ Line[Dist[p] + 1] = p
  <2>1. Dist[p] < Out
    BY <1>1 DEF IInv, TicketsInARow
  <2>2. Line[Dist[p] + 1] \in Holding /\ Dist[Line[Dist[p] + 1]] = Dist[p]
    BY <1>1, <1>2, <2>1
  <2> QED BY <1>1, <2>1, <2>2 DEF IInv, TicketsInARow
<1>4. Line \in [1 .. Out -> Procs]
  BY <1>2 DEF Line, Out, Holding
<1>5. Line \in Seq(Procs) /\ Len(Line) = Out
  <2>1. Line \in Seq(Procs)
    BY <1>1, <1>4
  <2>2. DOMAIN Line = 1 .. Out
    BY <1>4
  <2> QED BY <1>1, <2>1, <2>2, LenProperties
<1>6. \A i \in 1 .. Out : Line[i] \in Holding /\ Dist[Line[i]] = i - 1
  BY <1>2
<1>7. \A p \in Holding : Dist[p] + 1 \in 1 .. Out /\ Line[Dist[p] + 1] = p
  BY <1>3
<1> QED BY <1>5, <1>6, <1>7 DEF LineInOrder

\* The same after a step.
LEMMA LineFollowsTicketsNext == IInv' => LineInOrder'
BY LineFollowsTickets, PTL

\* A fetch-and-add puts the process at the end of the line.
LEMMA TakeAsks ==
  ASSUME IInv, NEW p \in Procs, p \notin Holding, Take(p)
  PROVE  Fifo!Ask(p)
<1>1. /\ IInv' /\ Out \in Nat /\ Out' = Out + 1 /\ Holding' = Holding \cup {p}
      /\ Dist'[p] = Out /\ \A q \in Holding : Dist'[q] = Dist[q]
  BY TakePreserves
<1>2. LineInOrder /\ LineInOrder'
  BY <1>1, LineFollowsTickets, LineFollowsTicketsNext
<1>3. Line' = Append(Line, p)
  <2>1. Line' \in Seq(Procs) /\ Append(Line, p) \in Seq(Procs)
        /\ Len(Line') = Out + 1 /\ Len(Append(Line, p)) = Out + 1
    BY <1>1, <1>2, AppendProperties DEF LineInOrder
  <2>2. ASSUME NEW i \in 1 .. Out PROVE Line'[i] = Append(Line, p)[i]
    <3>1. Append(Line, p)[i] = Line[i]
      BY <1>1, <1>2, AppendProperties DEF LineInOrder
    <3>2. Line[i] \in Holding /\ Dist'[Line[i]] = i - 1
      BY <1>1, <1>2 DEF LineInOrder
    <3>3. Line'[Dist'[Line[i]] + 1] = Line[i]
      BY <1>1, <1>2, <3>2 DEF LineInOrder
    <3> QED BY <3>1, <3>2, <3>3
  <2>3. Line'[Out + 1] = Append(Line, p)[Out + 1]
    <3>1. Append(Line, p)[Out + 1] = p
      BY <1>1, <1>2, AppendProperties DEF LineInOrder
    <3>2. Line'[Dist'[p] + 1] = p
      BY <1>1, <1>2 DEF LineInOrder
    <3> QED BY <1>1, <3>1, <3>2
  <2>4. \A i \in 1 .. Len(Line') : Line'[i] = Append(Line, p)[i]
    BY <1>1, <2>1, <2>2, <2>3
  <2> QED BY <2>1, <2>4, SeqEqual
<1>4. (\E q \in Procs : pc[q] = "in")' = (\E q \in Procs : pc[q] = "in")
  BY DEF Take, Holding, IInv, TypeOK
<1>5. ~Fifo!InLine(p)
  BY <1>1, <1>2 DEF LineInOrder, Fifo!InLine
<1> QED BY <1>3, <1>4, <1>5 DEF Fifo!Ask

\* The swap that ends the loop lets the head of the line in.
LEMMA SpinEnters ==
  ASSUME IInv, NEW p \in Procs, Spin(p)
  PROVE  Fifo!Enter(p)
<1>1. IInv' /\ Out' = Out /\ Holding' = Holding /\ Dist' = Dist /\ p \in Holding /\ Dist[p] = 0
  BY SpinPreserves
<1>2. LineInOrder /\ LineInOrder'
  BY <1>1, LineFollowsTickets, LineFollowsTicketsNext
<1>3. Out \in Nat
  BY OutType
<1>4. Line' = Line
  <2>1. \A i \in 1 .. Len(Line) : Line'[i] = Line[i]
    BY <1>1, <1>2, <1>3 DEF LineInOrder
  <2> QED BY <1>1, <1>2, <2>1, SeqEqual DEF LineInOrder
<1>5. Line # <<>> /\ Head(Line) = p
  BY <1>1, <1>2, <1>3 DEF LineInOrder
<1>6. ~\E q \in Procs : pc[q] = "in"
  <2> SUFFICES ASSUME NEW q \in Procs, pc[q] = "in" PROVE FALSE
    OBVIOUS
  <2>1. q \in Holding /\ Dist[q] = 0
    BY DistanceType DEF Holding, Dist, IInv, TicketsInARow
  <2> QED BY <1>1, <1>2, <2>1 DEF LineInOrder, Spin
<1>7. (\E q \in Procs : pc[q] = "in")'
  BY DEF Spin, IInv, TypeOK
<1> QED BY <1>4, <1>5, <1>6, <1>7 DEF Fifo!Enter

\* An increment of black_serving takes the head off the line.
LEMMA LeaveLeaves ==
  ASSUME IInv, NEW p \in Procs, NEW to \in {"out", "pause"}, Leave(p, to)
  PROVE  Fifo!Leave(p)
<1>1. /\ IInv' /\ Out' = Out - 1 /\ p \in Holding /\ Holding' = Holding \ {p}
      /\ Dist[p] = 0 /\ \A q \in Holding \ {p} : Dist'[q] = Dist[q] - 1
  BY LeavePreserves
<1>2. LineInOrder /\ LineInOrder'
  BY <1>1, LineFollowsTickets, LineFollowsTicketsNext
<1>3. Out \in Nat /\ Line # <<>> /\ Head(Line) = p
  BY <1>1, <1>2, OutType DEF LineInOrder
<1>4. Line' = Tail(Line)
  <2>1. Tail(Line) \in Seq(Procs) /\ Len(Tail(Line)) = Out - 1
        /\ \A i \in 1 .. Out - 1 : Tail(Line)[i] = Line[i + 1]
    BY <1>2, <1>3, HeadTailProperties DEF LineInOrder
  <2>2. ASSUME NEW i \in 1 .. Out - 1 PROVE Line'[i] = Line[i + 1]
    <3>1. Line[i + 1] \in Holding /\ Dist[Line[i + 1]] = i
      BY <1>2, <1>3 DEF LineInOrder
    <3>2. Line[i + 1] \in Holding' /\ Dist'[Line[i + 1]] = i - 1
      BY <1>1, <3>1
    <3>3. Line'[Dist'[Line[i + 1]] + 1] = Line[i + 1]
      BY <1>2, <3>2 DEF LineInOrder
    <3> QED BY <3>2, <3>3
  <2>3. \A i \in 1 .. Len(Line') : Line'[i] = Tail(Line)[i]
    BY <1>1, <1>2, <2>1, <2>2 DEF LineInOrder
  <2> QED BY <1>1, <1>2, <2>1, <2>3, SeqEqual DEF LineInOrder
<1>5. \E q \in Procs : pc[q] = "in"
  BY DEF Leave
<1>6. ~(\E q \in Procs : pc[q] = "in")'
  <2> SUFFICES ASSUME NEW q \in Procs, pc'[q] = "in" PROVE FALSE
    OBVIOUS
  <2>1. q # p /\ pc[q] = "in"
    BY DEF Leave, IInv, TypeOK
  <2>2. q \in Holding /\ Dist[q] = 0
    BY <2>1, DistanceType DEF Holding, Dist, IInv, TicketsInARow
  <2> QED BY <1>1, <1>2, <2>1, <2>2 DEF LineInOrder
<1> QED BY <1>3, <1>4, <1>5, <1>6 DEF Fifo!Leave

\* The ticket lock implements the fair lock, for any number of processes:
\* they enter in the order of their fetch-and-add and leave one by one.
THEOREM LockIsFair == Spec => ImplementsFifoLock
<1>1. Init => Fifo!Init
  <2> SUFFICES ASSUME Init PROVE Fifo!Init
    OBVIOUS
  <2>1. Line = <<>>
    <3>1. Out = 0 /\ LineInOrder
      BY InitIsInARow, LineFollowsTickets, FS_EmptySet DEF Init, Holding, Out
    <3> QED BY <3>1, EmptySeq DEF LineInOrder
  <2>2. ~\E p \in Procs : pc[p] = "in"
    BY DEF Init
  <2> QED BY <2>1, <2>2 DEF Fifo!Init
<1>2. IInv /\ [Next]_vars => [Fifo!Next]_(Fifo!vars)
  <2> SUFFICES ASSUME IInv, [Next]_vars PROVE [Fifo!Next]_(Fifo!vars)
    OBVIOUS
  <2>1. ASSUME NEW p \in Procs, Acquire(p) \/ CondvarReacquire(p) PROVE Fifo!Ask(p)
    BY <2>1, TakeAsks DEF Acquire, CondvarReacquire, Holding
  <2>2. ASSUME NEW p \in Procs, Spin(p) PROVE Fifo!Enter(p)
    BY <2>2, SpinEnters
  <2>3. ASSUME NEW p \in Procs, Release(p) \/ CondvarWait(p) PROVE Fifo!Leave(p)
    BY <2>3, LeaveLeaves DEF Release, CondvarWait
  <2>4. CASE Next
    BY <2>1, <2>2, <2>3, <2>4 DEF Next, Fifo!Next
  <2>5. CASE UNCHANGED vars
    BY <2>5 DEF vars, Fifo!vars, Line, Ahead, Holding, Distance
  <2> QED BY <2>4, <2>5
<1> QED BY <1>1, <1>2, TicketOrder, PTL DEF Spec, ImplementsFifoLock, Fifo!Spec
=============================================================================
