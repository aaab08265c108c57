------------------------------ MODULE PipeProofs ----------------------------
(***************************************************************************)
(* A pipe is a channel, for every size of its buffer and any number of     *)
(* callers: proofs about Pipe.                                             *)
(***************************************************************************)
EXTENDS Pipe, SequenceTheorems, TLAPS

Items == Bytes \cup {Zero}

\* The inductive invariant.  While the slot is created its creator is alone
\* and the fields before the one it clears are already 0.  Otherwise the
\* writer's position is count places behind the reader's.
RingOK ==
  /\ buffer \in [Positions -> Items]
  /\ read_pos \in Positions /\ write_pos \in Positions
  /\ count \in 0 .. PIPE_BUF_SIZE

Creating == Clearing \cup {"activate"}

Alone ==
  \A p \in Procs : call[p] \in Creating =>
    ~active /\ \A q \in Procs : q # p => call[q] = "none"

Cleared ==
  \A p \in Procs : /\ call[p] \in {"write_pos", "count"} => read_pos = 0
                   /\ call[p] = "count" => write_pos = 0

InStep == BeingCreated \/ write_pos = (read_pos + count) % PIPE_BUF_SIZE

CallOK == call \in [Procs -> {"none", "read", "write"} \cup Creating]

IInv == RingOK /\ CallOK /\ Alone /\ Cleared /\ InStep
-----------------------------------------------------------------------------
\* A position of the ring, without the remainder.
LEMMA PositionValue ==
  ASSUME NEW t \in Positions, NEW i \in 0 .. PIPE_BUF_SIZE
  PROVE  /\ (t + i) % PIPE_BUF_SIZE = IF t + i < PIPE_BUF_SIZE THEN t + i ELSE t + i - PIPE_BUF_SIZE
         /\ (t + i) % PIPE_BUF_SIZE \in Positions
<1>1. (t + i) % PIPE_BUF_SIZE = IF t + i < PIPE_BUF_SIZE THEN t + i ELSE t + i - PIPE_BUF_SIZE
  BY PipeAssumption DEF Positions
<1>2. (IF t + i < PIPE_BUF_SIZE THEN t + i ELSE t + i - PIPE_BUF_SIZE) \in Positions
  BY PipeAssumption DEF Positions
<1> QED BY <1>1, <1>2

\* The same for the position of the i-th byte that waits.
LEMMA PlaceValue ==
  ASSUME NEW t \in Positions, NEW i \in 1 .. PIPE_BUF_SIZE
  PROVE  /\ (t + i - 1) % PIPE_BUF_SIZE =
              (IF t + i - 1 < PIPE_BUF_SIZE THEN t + i - 1 ELSE t + i - 1 - PIPE_BUF_SIZE)
         /\ (t + i - 1) % PIPE_BUF_SIZE \in Positions
<1>1. (t + i - 1) % PIPE_BUF_SIZE =
        (IF t + i - 1 < PIPE_BUF_SIZE THEN t + i - 1 ELSE t + i - 1 - PIPE_BUF_SIZE)
  BY PipeAssumption DEF Positions
<1>2. (IF t + i - 1 < PIPE_BUF_SIZE THEN t + i - 1 ELSE t + i - 1 - PIPE_BUF_SIZE) \in Positions
  BY PipeAssumption DEF Positions
<1> QED BY <1>1, <1>2

\* How far a position is behind the writer's, without the remainder.
LEMMA BehindValue ==
  ASSUME NEW i \in Positions, NEW w \in Positions
  PROVE  (i - w) % PIPE_BUF_SIZE = IF i >= w THEN i - w ELSE i - w + PIPE_BUF_SIZE
BY PipeAssumption DEF Positions

\* What waits is a sequence of count bytes, or nothing during a creation.
ContentOK ==
  /\ Content \in Seq(Bytes \cup {Zero})
  /\ BeingCreated => Content = <<>>
  /\ ~BeingCreated => /\ Len(Content) = count
                      /\ \A i \in 1 .. count :
                           Content[i] = buffer[(read_pos + i - 1) % PIPE_BUF_SIZE]

\* The positions of the invariant give such a sequence.
LEMMA ContentType == IInv => ContentOK
<1> SUFFICES ASSUME IInv PROVE ContentOK
  OBVIOUS
<1> USE PipeAssumption
<1>1. CASE BeingCreated
  <2>1. Content = <<>>
    BY <1>1 DEF Content
  <2>2. Content \in Seq(Bytes \cup {Zero})
    BY <2>1
  <2> QED BY <1>1, <2>1, <2>2 DEF ContentOK
<1>2. CASE ~BeingCreated
  <2> DEFINE s == [i \in 1 .. count |-> buffer[(read_pos + i - 1) % PIPE_BUF_SIZE]]
  <2>1. Content = s /\ count \in Nat
    BY <1>2 DEF Content, IInv, RingOK
  <2>2. \A i \in 1 .. count : (read_pos + i - 1) % PIPE_BUF_SIZE \in Positions
    <3>1. read_pos \in Positions /\ \A i \in 1 .. count : i \in 1 .. PIPE_BUF_SIZE
      BY DEF IInv, RingOK
    <3> QED BY <3>1, PlaceValue
  <2>3. s \in [1 .. count -> Bytes \cup {Zero}]
    BY <2>2 DEF IInv, RingOK, Items
  <2>4. \A i \in 1 .. count : s[i] = buffer[(read_pos + i - 1) % PIPE_BUF_SIZE]
    OBVIOUS
  <2> HIDE DEF s
  <2>5. s \in Seq(Bytes \cup {Zero})
    BY <2>1, <2>3, SeqDef
  <2>6. DOMAIN s = 1 .. count
    BY <2>3
  <2>7. Len(s) = count
    BY <2>1, <2>5, <2>6, LenProperties
  <2> QED BY <1>2, <2>1, <2>4, <2>5, <2>7 DEF ContentOK
<1> QED BY <1>1, <1>2

\* The same after a step.
LEMMA ContentTypeNext == IInv' => ContentOK'
BY ContentType, PTL
-----------------------------------------------------------------------------
\* A step of a caller that is not creating the slot creates nothing.
LEMMA CallerAlone ==
  ASSUME IInv, NEW p \in Procs, call[p] \in {"read", "write"}
  PROVE  \A q \in Procs : call[q] \notin Creating
BY DEF IInv, Alone, CallOK, Creating, Clearing

\* The loop of black_pipe_read takes bytes from the front.
LEMMA ReadTakes ==
  ASSUME IInv, NEW p \in Procs, NEW sz \in Nat, Read(p, sz)
  PROVE  IInv' /\ [Ring!Next]_Content
<1> USE PipeAssumption
<1> DEFINE n == Smaller(sz, count)
<1>1. /\ call[p] = "read" /\ call' = [call EXCEPT ![p] = "none"]
      /\ read_pos' = (read_pos + n) % PIPE_BUF_SIZE /\ count' = count - n
      /\ UNCHANGED <<buffer, write_pos, active>>
  BY DEF Read, Goes
<1>2. RingOK /\ n \in 0 .. count /\ count \in 0 .. PIPE_BUF_SIZE /\ n \in 0 .. PIPE_BUF_SIZE
  BY DEF IInv, RingOK, Smaller
<1> HIDE DEF n
<1>3. \A q \in Procs : call[q] \notin Creating
  BY <1>1, CallerAlone
<1>4. \A q \in Procs : call'[q] \notin Creating
  BY <1>1, <1>3 DEF IInv, CallOK, Creating, Clearing
<1>5. ~BeingCreated /\ ~BeingCreated'
  BY <1>3, <1>4 DEF BeingCreated, Creating
<1>6. /\ read_pos' = (IF read_pos + n < PIPE_BUF_SIZE THEN read_pos + n ELSE read_pos + n - PIPE_BUF_SIZE)
      /\ read_pos' \in Positions
  BY <1>1, <1>2, PositionValue DEF RingOK
<1>7. write_pos = (IF read_pos + count < PIPE_BUF_SIZE THEN read_pos + count
                   ELSE read_pos + count - PIPE_BUF_SIZE)
  BY <1>2, <1>5, PositionValue DEF IInv, InStep, RingOK
<1>8. count' \in 0 .. PIPE_BUF_SIZE
  BY <1>1, <1>2
<1>9. (read_pos' + count') % PIPE_BUF_SIZE = write_pos
  <2>1. (read_pos' + count') % PIPE_BUF_SIZE =
          (IF read_pos' + count' < PIPE_BUF_SIZE THEN read_pos' + count'
           ELSE read_pos' + count' - PIPE_BUF_SIZE)
    BY <1>6, <1>8, PositionValue
  <2>2. (IF read_pos' + count' < PIPE_BUF_SIZE THEN read_pos' + count'
         ELSE read_pos' + count' - PIPE_BUF_SIZE) = write_pos
    BY <1>1, <1>2, <1>6, <1>7 DEF RingOK, Positions
  <2> QED BY <2>1, <2>2
<1>10. RingOK' /\ InStep'
  BY <1>1, <1>2, <1>6, <1>8, <1>9 DEF RingOK, InStep
<1>11. CallOK' /\ Alone' /\ Cleared'
  <2>1. CallOK'
    BY <1>1 DEF IInv, CallOK
  <2> QED BY <1>4, <2>1 DEF Alone, Cleared, Creating, Clearing
<1>12. IInv'
  BY <1>10, <1>11 DEF IInv
<1>13. /\ Content \in Seq(Items) /\ Len(Content) = count
       /\ Content' \in Seq(Items) /\ Len(Content') = count'
       /\ \A i \in 1 .. count : Content[i] = buffer[(read_pos + i - 1) % PIPE_BUF_SIZE]
       /\ \A i \in 1 .. count' : Content'[i] = buffer[(read_pos' + i - 1) % PIPE_BUF_SIZE]
  BY <1>1, <1>5, <1>12, ContentType, ContentTypeNext DEF ContentOK, Items
<1>14. ASSUME NEW i \in 1 .. count' PROVE Content'[i] = Content[n + i]
  <2>1. i \in 1 .. PIPE_BUF_SIZE /\ n + i \in 1 .. PIPE_BUF_SIZE /\ n + i \in 1 .. count
    BY <1>1, <1>2
  <2> DEFINE u == (read_pos' + i - 1) % PIPE_BUF_SIZE
             v == (read_pos + (n + i) - 1) % PIPE_BUF_SIZE
  <2>2. /\ u = (IF read_pos' + i - 1 < PIPE_BUF_SIZE THEN read_pos' + i - 1
                ELSE read_pos' + i - 1 - PIPE_BUF_SIZE)
        /\ v = (IF read_pos + (n + i) - 1 < PIPE_BUF_SIZE THEN read_pos + (n + i) - 1
                ELSE read_pos + (n + i) - 1 - PIPE_BUF_SIZE)
    BY <1>2, <1>6, <2>1, PlaceValue DEF RingOK
  <2>3. Content'[i] = buffer[u] /\ Content[n + i] = buffer[v]
    BY <1>13, <2>1
  <2> HIDE DEF u, v
  <2>4. u = v
    BY <1>2, <1>6, <2>1, <2>2 DEF RingOK, Positions
  <2> QED BY <2>3, <2>4
<1>15. Content' = SubSeq(Content, n + 1, Len(Content))
  <2> DEFINE s == SubSeq(Content, n + 1, Len(Content))
  <2>1. n + 1 \in Int /\ Len(Content) \in Int /\ \A i \in n + 1 .. Len(Content) : Content[i] \in Items
    BY <1>2, <1>13
  <2>2. /\ s \in Seq(Items)
        /\ Len(s) = (IF n + 1 <= Len(Content) THEN Len(Content) - (n + 1) + 1 ELSE 0)
        /\ \A i \in 1 .. Len(Content) - (n + 1) + 1 : s[i] = Content[n + 1 + i - 1]
    BY <2>1, SubSeqProperties
  <2>3. \A i \in 1 .. count' : i \in 1 .. Len(Content) - (n + 1) + 1 /\ n + 1 + i - 1 = n + i
    BY <1>1, <1>2, <1>13
  <2> HIDE DEF s
  <2>4. Len(s) = count'
    BY <1>1, <1>2, <1>13, <2>2
  <2>5. \A i \in 1 .. count' : s[i] = Content'[i]
    BY <1>14, <2>2, <2>3
  <2>6. s = Content'
    BY <1>13, <2>2, <2>4, <2>5, SeqEqual
  <2> QED BY <2>6 DEF s
<1>16. CASE n = 0
  <2>1. SubSeq(Content, 0 + 1, Len(Content)) = Content
    BY <1>13
  <2> QED BY <1>12, <1>15, <1>16, <2>1
<1>17. CASE n # 0
  <2>1. n \in 1 .. Len(Content) /\ n <= PIPE_BUF_SIZE
    BY <1>2, <1>13, <1>17
  <2>2. Ring!Take
    BY <1>15, <2>1 DEF Ring!Take
  <2> QED BY <1>12, <2>2 DEF Ring!Next
<1> QED BY <1>16, <1>17

\* The loop of black_pipe_write puts bytes at the end and overwrites none
\* that waits, also across the end of the buffer.
LEMMA WritePuts ==
  ASSUME IInv, NEW p \in Procs, NEW src \in Seq(Bytes), Write(p, src)
  PROVE  IInv' /\ [Ring!Next]_Content
<1> USE PipeAssumption
<1> DEFINE n == Smaller(Len(src), PIPE_BUF_SIZE - count)
           k(i) == (i - write_pos) % PIPE_BUF_SIZE
<1>1. /\ call[p] = "write" /\ call' = [call EXCEPT ![p] = "none"]
      /\ buffer' = [i \in Positions |-> IF k(i) < n THEN src[k(i) + 1] ELSE buffer[i]]
      /\ write_pos' = (write_pos + n) % PIPE_BUF_SIZE /\ count' = count + n
      /\ UNCHANGED <<read_pos, active>>
  BY DEF Write, Goes
<1>2. /\ RingOK /\ count \in 0 .. PIPE_BUF_SIZE /\ n \in 0 .. PIPE_BUF_SIZE - count
      /\ n \in 0 .. PIPE_BUF_SIZE /\ n <= Len(src)
  <2>1. Len(src) \in Nat
    OBVIOUS
  <2> QED BY <2>1 DEF IInv, RingOK, Smaller
<1> HIDE DEF n
<1>3. \A q \in Procs : call[q] \notin Creating
  BY <1>1, CallerAlone
<1>4. \A q \in Procs : call'[q] \notin Creating
  BY <1>1, <1>3 DEF IInv, CallOK, Creating, Clearing
<1>5. ~BeingCreated /\ ~BeingCreated'
  BY <1>3, <1>4 DEF BeingCreated, Creating
<1>6. /\ write_pos' = (IF write_pos + n < PIPE_BUF_SIZE THEN write_pos + n
                       ELSE write_pos + n - PIPE_BUF_SIZE)
      /\ write_pos' \in Positions
  BY <1>1, <1>2, PositionValue DEF RingOK
<1>7. write_pos = (IF read_pos + count < PIPE_BUF_SIZE THEN read_pos + count
                   ELSE read_pos + count - PIPE_BUF_SIZE)
  BY <1>2, <1>5, PositionValue DEF IInv, InStep, RingOK
<1>8. count' \in 0 .. PIPE_BUF_SIZE /\ count' = count + n
  BY <1>1, <1>2
<1>9. write_pos' = (read_pos' + count') % PIPE_BUF_SIZE
  <2>1. (read_pos + count') % PIPE_BUF_SIZE =
          (IF read_pos + count' < PIPE_BUF_SIZE THEN read_pos + count'
           ELSE read_pos + count' - PIPE_BUF_SIZE)
    BY <1>2, <1>8, PositionValue DEF RingOK
  <2>2. (IF read_pos + count' < PIPE_BUF_SIZE THEN read_pos + count'
         ELSE read_pos + count' - PIPE_BUF_SIZE) = write_pos'
    BY <1>2, <1>6, <1>7, <1>8 DEF RingOK, Positions
  <2> QED BY <1>1, <2>1, <2>2
<1>10. \A i \in Positions : k(i) = IF i >= write_pos THEN i - write_pos ELSE i - write_pos + PIPE_BUF_SIZE
  BY <1>2, BehindValue DEF RingOK
<1> HIDE DEF k
<1>11. buffer' \in [Positions -> Items]
  <2>1. ASSUME NEW i \in Positions, k(i) < n PROVE src[k(i) + 1] \in Items
    <3>1. k(i) + 1 \in 1 .. Len(src)
      BY <1>2, <1>10, <2>1 DEF RingOK, Positions
    <3> QED BY <3>1 DEF Items
  <2> QED BY <1>1, <1>2, <2>1 DEF RingOK
<1>12. RingOK' /\ InStep'
  BY <1>1, <1>2, <1>6, <1>8, <1>9, <1>11 DEF RingOK, InStep
<1>13. CallOK' /\ Alone' /\ Cleared'
  <2>1. CallOK'
    BY <1>1 DEF IInv, CallOK
  <2> QED BY <1>4, <2>1 DEF Alone, Cleared, Creating, Clearing
<1>14. IInv'
  BY <1>12, <1>13 DEF IInv
<1>15. /\ Content \in Seq(Items) /\ Len(Content) = count
       /\ Content' \in Seq(Items) /\ Len(Content') = count'
       /\ \A i \in 1 .. count : Content[i] = buffer[(read_pos + i - 1) % PIPE_BUF_SIZE]
       /\ \A i \in 1 .. count' : Content'[i] = buffer'[(read_pos + i - 1) % PIPE_BUF_SIZE]
  BY <1>1, <1>5, <1>14, ContentType, ContentTypeNext DEF ContentOK, Items
<1>16. ASSUME NEW i \in 1 .. count PROVE Content'[i] = Content[i]
  <2>1. i \in 1 .. PIPE_BUF_SIZE /\ i \in 1 .. count'
    BY <1>1, <1>2
  <2> DEFINE u == (read_pos + i - 1) % PIPE_BUF_SIZE
  <2>2. /\ u = (IF read_pos + i - 1 < PIPE_BUF_SIZE THEN read_pos + i - 1
                ELSE read_pos + i - 1 - PIPE_BUF_SIZE)
        /\ u \in Positions
    BY <1>2, <2>1, PlaceValue DEF RingOK
  <2>3. Content'[i] = buffer'[u] /\ Content[i] = buffer[u]
    BY <1>15, <2>1
  <2> HIDE DEF u
  <2>4. ~(k(u) < n)
    <3>1. k(u) = IF u >= write_pos THEN u - write_pos ELSE u - write_pos + PIPE_BUF_SIZE
      BY <1>10, <2>2
    <3> QED BY <1>2, <1>7, <2>1, <2>2, <3>1 DEF RingOK, Positions
  <2>5. buffer'[u] = buffer[u]
    BY <1>1, <2>2, <2>4
  <2> QED BY <2>3, <2>5
<1>17. SubSeq(Content', 1, Len(Content)) = Content
  <2> DEFINE s == SubSeq(Content', 1, Len(Content))
  <2>1. 1 \in Int /\ Len(Content) \in Int /\ \A i \in 1 .. Len(Content) : Content'[i] \in Items
    <3>1. \A i \in 1 .. Len(Content) : Content[i] \in Items
      BY <1>15
    <3> QED BY <1>2, <1>15, <1>16, <3>1
  <2>2. /\ s \in Seq(Items)
        /\ Len(s) = (IF 1 <= Len(Content) THEN Len(Content) - 1 + 1 ELSE 0)
        /\ \A i \in 1 .. Len(Content) - 1 + 1 : s[i] = Content'[1 + i - 1]
    BY <2>1, SubSeqProperties
  <2>3. \A i \in 1 .. count : i \in 1 .. Len(Content) - 1 + 1 /\ 1 + i - 1 = i
    BY <1>2, <1>15
  <2> HIDE DEF s
  <2>4. Len(s) = count
    BY <1>2, <1>15, <2>2
  <2>5. \A i \in 1 .. count : s[i] = Content[i]
    BY <1>16, <2>2, <2>3
  <2>6. s = Content
    BY <1>15, <2>2, <2>4, <2>5, SeqEqual
  <2> QED BY <2>6 DEF s
<1>18. CASE n = 0
  <2>1. Len(Content') = Len(Content) /\ Len(Content) \in Nat
    BY <1>1, <1>2, <1>15, <1>18
  <2>2. SubSeq(Content', 1, Len(Content')) = Content'
    BY <1>15
  <2> QED BY <1>14, <1>17, <2>1, <2>2
<1>19. CASE n # 0
  <2>1. Len(Content') \in Len(Content) + 1 .. PIPE_BUF_SIZE
    BY <1>1, <1>2, <1>15, <1>19
  <2>2. Ring!Put
    BY <1>17, <2>1 DEF Ring!Put
  <2> QED BY <1>14, <2>2 DEF Ring!Next
<1> QED BY <1>18, <1>19
-----------------------------------------------------------------------------
\* black_pipe_create empties the slot and hands it over empty.
LEMMA CreateResets ==
  ASSUME IInv, ~OVERLAP, NEW p \in Procs, CreateFind(p) \/ CreateClear(p) \/ CreateActivate(p)
  PROVE  IInv' /\ [Ring!Next]_Content
<1> USE PipeAssumption
<1>0. RingOK /\ CallOK /\ Alone /\ Cleared /\ InStep
  BY DEF IInv
<1>1. 0 \in Positions /\ Empty \in [Positions -> Items]
  BY DEF Positions, Empty, Items
<1>2. CASE CreateFind(p)
  <2>1. /\ ~active /\ \A q \in Procs : call[q] = "none"
        /\ call' = [call EXCEPT ![p] = "buffer"] /\ UNCHANGED <<ring, active>>
    BY <1>2 DEF CreateFind, Goes
  <2>2. call'[p] = "buffer" /\ \A q \in Procs : q # p => call'[q] = "none"
    BY <1>0, <2>1 DEF CallOK
  <2>3. RingOK' /\ CallOK'
    BY <1>0, <2>1 DEF RingOK, CallOK, ring, Creating, Clearing
  <2>4. Alone' /\ Cleared'
    BY <2>1, <2>2 DEF Alone, Cleared, Creating, Clearing
  <2>5. BeingCreated'
    BY <2>2 DEF BeingCreated, Clearing
  <2>6. Content' = <<>>
    BY <2>5 DEF Content
  <2> QED BY <2>3, <2>4, <2>5, <2>6 DEF IInv, InStep, Ring!Next, Ring!Reset
<1>3. CASE CreateClear(p)
  <2>1. /\ call[p] \in Clearing
        /\ call' = [call EXCEPT ![p] = IF call[p] = "buffer" THEN "read_pos"
                                       ELSE IF call[p] = "read_pos" THEN "write_pos"
                                       ELSE IF call[p] = "write_pos" THEN "count" ELSE "activate"]
        /\ buffer' \in {buffer, Empty} /\ read_pos' \in {read_pos, 0}
        /\ write_pos' \in {write_pos, 0} /\ count' \in {count, 0}
        /\ call[p] = "read_pos" => read_pos' = 0
        /\ call[p] = "write_pos" => write_pos' = 0
        /\ call[p] = "count" => count' = 0
        /\ call[p] \in {"write_pos", "count"} => read_pos' = read_pos
        /\ call[p] = "count" => write_pos' = write_pos
        /\ active' = (active /\ call[p] # "count")
    BY <1>3 DEF CreateClear, Goes, Clearing
  <2>2. ~active /\ \A q \in Procs : q # p => call[q] = "none"
    BY <1>0, <2>1 DEF Alone, Creating
  <2>3. /\ call'[p] = (IF call[p] = "buffer" THEN "read_pos"
                       ELSE IF call[p] = "read_pos" THEN "write_pos"
                       ELSE IF call[p] = "write_pos" THEN "count" ELSE "activate")
        /\ \A q \in Procs : q # p => call'[q] = "none"
    BY <1>0, <2>1, <2>2 DEF CallOK
  <2>4. RingOK'
    BY <1>0, <1>1, <2>1 DEF RingOK
  <2>5. CallOK'
    BY <1>0, <2>1 DEF CallOK, Creating, Clearing
  <2>6. Alone'
    BY <2>1, <2>2, <2>3 DEF Alone, Creating, Clearing
  <2>7. Cleared'
    BY <1>0, <2>1, <2>3 DEF Cleared, Clearing
  <2>8. BeingCreated /\ Content = <<>>
    BY <2>1 DEF BeingCreated, Content
  <2>9. CASE call[p] # "count"
    <3>1. BeingCreated'
      BY <2>1, <2>3, <2>9 DEF BeingCreated, Clearing
    <3>2. Content' = <<>>
      BY <3>1 DEF Content
    <3> QED BY <2>4, <2>5, <2>6, <2>7, <2>8, <3>1, <3>2 DEF IInv, InStep
  <2>10. CASE call[p] = "count"
    <3>1. ~BeingCreated'
      BY <2>3, <2>10 DEF BeingCreated, Clearing
    <3>2. count' = 0 /\ read_pos' = 0 /\ write_pos' = 0
      BY <1>0, <2>1, <2>10 DEF Cleared
    <3>3. (0 + 0) % PIPE_BUF_SIZE = 0
      BY PositionValue, <1>1
    <3>4. IInv'
      BY <2>4, <2>5, <2>6, <2>7, <3>2, <3>3 DEF IInv, InStep
    <3>5. Content' \in Seq(Items) /\ Len(Content') = 0
      BY <3>1, <3>2, <3>4, ContentTypeNext DEF ContentOK, Items
    <3>6. Content' = <<>>
      BY <3>5, EmptySeq
    <3> QED BY <2>8, <3>4, <3>6
  <2> QED BY <2>9, <2>10
<1>4. CASE CreateActivate(p)
  <2>1. /\ call[p] = "activate" /\ call' = [call EXCEPT ![p] = "none"] /\ UNCHANGED ring
    BY <1>4 DEF CreateActivate, Goes
  <2>2. \A q \in Procs : q # p => call[q] = "none"
    BY <1>0, <2>1 DEF Alone, Creating
  <2>3. \A q \in Procs : call'[q] = "none"
    BY <1>0, <2>1, <2>2 DEF CallOK
  <2>4. ~BeingCreated /\ ~BeingCreated'
    BY <2>1, <2>2, <2>3 DEF BeingCreated, Clearing
  <2>5. RingOK' /\ CallOK' /\ Alone' /\ Cleared' /\ InStep'
    BY <1>0, <2>1, <2>3, <2>4 DEF RingOK, CallOK, Alone, Cleared, InStep, ring, Creating, Clearing
  <2>6. Content' = Content
    BY <2>1, <2>4 DEF Content, ring
  <2> QED BY <2>5, <2>6 DEF IInv
<1> QED BY <1>2, <1>3, <1>4

\* The checks of black_active, a close and a stutter move no byte.
LEMMA OthersKeep ==
  ASSUME IInv, NEW p \in Procs, Enter(p, "read") \/ Enter(p, "write")
  PROVE  IInv' /\ Content' = Content
<1>1. /\ call[p] = "none" /\ active /\ active' = active /\ UNCHANGED ring
      /\ \/ call' = [call EXCEPT ![p] = "read"]
         \/ call' = [call EXCEPT ![p] = "write"]
  BY DEF Enter, Goes
<1>2. \A q \in Procs : call[q] \notin Creating
  BY <1>1 DEF IInv, Alone
<1>3. CallOK' /\ \A q \in Procs : call'[q] \notin Creating
  BY <1>1, <1>2 DEF IInv, CallOK, Creating, Clearing
<1>4. ~BeingCreated /\ ~BeingCreated'
  BY <1>2, <1>3 DEF BeingCreated, Creating
<1>5. RingOK' /\ Alone' /\ Cleared' /\ InStep'
  BY <1>1, <1>3, <1>4 DEF IInv, RingOK, Alone, Cleared, InStep, ring, Creating, Clearing
<1>6. Content' = Content
  BY <1>1, <1>4 DEF Content, ring
<1> QED BY <1>3, <1>5, <1>6 DEF IInv

\* Every step keeps the invariant and is a step of a channel.
LEMMA NextSteps ==
  ASSUME ~OVERLAP, IInv, [Next]_vars PROVE IInv' /\ [Ring!Next]_Content
<1>1. CASE Close \/ UNCHANGED vars
  <2>1. UNCHANGED <<ring, call>> /\ (active' => active)
    BY <1>1 DEF Close, vars, ring
  <2>2. BeingCreated' = BeingCreated
    BY <2>1 DEF BeingCreated
  <2>3. Content' = Content
    BY <2>1, <2>2 DEF Content, ring
  <2>4. IInv'
    BY <2>1, <2>2 DEF IInv, RingOK, CallOK, Alone, Cleared, InStep, ring
  <2> QED BY <2>3, <2>4
<1>2. ASSUME NEW p \in Procs, CreateFind(p) \/ CreateClear(p) \/ CreateActivate(p)
      PROVE  IInv' /\ [Ring!Next]_Content
  BY <1>2, CreateResets
<1>3. ASSUME NEW p \in Procs, Enter(p, "read") \/ Enter(p, "write")
      PROVE  IInv' /\ [Ring!Next]_Content
  BY <1>3, OthersKeep
<1>4. ASSUME NEW p \in Procs, NEW sz \in 0 .. PIPE_BUF_SIZE + 1, Read(p, sz)
      PROVE  IInv' /\ [Ring!Next]_Content
  <2>1. sz \in Nat
    BY PipeAssumption
  <2> QED BY <1>4, <2>1, ReadTakes
<1>5. ASSUME NEW p \in Procs, NEW src \in Data, Write(p, src)
      PROVE  IInv' /\ [Ring!Next]_Content
  <2>1. PICK n \in 1 .. PIPE_BUF_SIZE + 1 : src \in [1 .. n -> Bytes]
    BY DEF Data
  <2>2. n \in Nat
    BY <2>1, PipeAssumption
  <2>3. src \in Seq(Bytes)
    BY <2>1, <2>2, SeqDef
  <2> QED BY <1>5, <2>3, WritePuts
<1> QED BY <1>1, <1>2, <1>3, <1>4, <1>5 DEF Next

\* For every size of the buffer and any number of processes that read, write,
\* close and create, bytes come out of a pipe once and in order, as long as
\* no call overlaps with a create of the same slot.
THEOREM PipeIsChannel ==
  ASSUME ~OVERLAP PROVE Spec => ImplementsChannel
<1> USE PipeAssumption
<1>1. Init => IInv
  <2> SUFFICES ASSUME Init PROVE IInv
    OBVIOUS
  <2>1. 0 \in Positions /\ Empty \in [Positions -> Items]
    BY DEF Positions, Empty, Items
  <2>2. (0 + 0) % PIPE_BUF_SIZE = 0
    BY <2>1, PositionValue
  <2>3. RingOK /\ InStep
    BY <2>1, <2>2 DEF Init, RingOK, InStep
  <2> QED BY <2>3 DEF Init, IInv, CallOK, Alone, Cleared, Creating, Clearing
<1>2. Init => Ring!Init
  <2> SUFFICES ASSUME Init PROVE Content = <<>>
    BY DEF Ring!Init
  <2>1. ~BeingCreated /\ count = 0
    BY DEF Init, BeingCreated, Clearing
  <2>2. Content \in Seq(Items) /\ Len(Content) = 0
    BY <1>1, <2>1, ContentType DEF ContentOK, Items
  <2> QED BY <2>2, EmptySeq
<1>3. IInv /\ [Next]_vars => IInv' /\ [Ring!Next]_Content
  BY NextSteps
<1> QED BY <1>1, <1>2, <1>3, PTL DEF Spec, ImplementsChannel, Ring!Spec
=============================================================================
