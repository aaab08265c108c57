------------------------------ MODULE HeapProofs ----------------------------
(***************************************************************************)
(* The kernel heap is an allocator, for every size of the heap, header,    *)
(* smallest block and alignment: proofs about Heap.                        *)
(***************************************************************************)
EXTENDS Heap, TLAPS

Header(D) == [size : Nat, free : BOOLEAN, next : D \cup {NULL}, prev : D \cup {NULL}]
EndOf(h, a) == a + HDR + h[a].size

\* Next and prev of a block lead to its neighbours in memory.
Linked(h, a) ==
  /\ IF h[a].next = NULL THEN EndOf(h, a) = HEAP_END
     ELSE h[a].next = EndOf(h, a) /\ h[h[a].next].prev = a
  /\ IF h[a].prev = NULL THEN a = HEAP_START ELSE h[h[a].prev].next = a

\* The list of headers h is sound: it is linked, and blocks do not overlap.
\* The links alone would give the second only by induction along the list.
Chain(h) ==
  /\ DOMAIN h \subseteq HEAP_START .. HEAP_END - 1 /\ HEAP_START \in DOMAIN h
  /\ h \in [DOMAIN h -> Header(DOMAIN h)]
  /\ \A a \in DOMAIN h : Linked(h, a)
  /\ \A a \in DOMAIN h : EndOf(h, a) <= HEAP_END
  /\ \A a, b \in DOMAIN h : a < b => EndOf(h, a) <= b

\* The blocks that are in use in h are those of g but for the ones in
\* gone (no longer in use) and new (not in use before), of the same size.
SameUse(h, g, gone, new) ==
  /\ \A x \in DOMAIN h \ gone : ~h[x].free =>
       x \in DOMAIN g /\ ~g[x].free /\ g[x].size = h[x].size
  /\ \A x \in DOMAIN g : ~g[x].free =>
       x \in new \/ (x \in DOMAIN h \ gone /\ ~h[x].free)

\* The inductive invariant.
IInv ==
  /\ Chain(hdr)
  /\ DOMAIN owned \subseteq {Ptr(a) : a \in Blocks}
  /\ owned \in [DOMAIN owned -> Nat]
  /\ UsedAreOwned
-----------------------------------------------------------------------------
\* Rounding up gives at least what was asked for.
LEMMA AlignUpEnough ==
  ASSUME NEW n \in Nat
  PROVE  AlignUp(n) \in Nat /\ AlignUp(n) >= n
<1> DEFINE m == n + ALIGN - 1
           q == m \div ALIGN
<1>1. m \in Nat /\ ALIGN \in Nat \ {0}
  BY HeapAssumption
<1>2. m = ALIGN * q + (m % ALIGN) /\ q \in Nat /\ m % ALIGN < ALIGN /\ m % ALIGN \in Nat
  <2> HIDE DEF m
  <2> QED BY <1>1
<1>3. q * ALIGN = ALIGN * q /\ q * ALIGN \in Nat
  <2> HIDE DEF q
  <2> QED BY <1>1, <1>2
<1>4. AlignUp(n) = q * ALIGN
  BY DEF AlignUp
<1> HIDE DEF q
<1>5. q * ALIGN >= n
  BY <1>1, <1>2, <1>3
<1> QED BY <1>3, <1>4, <1>5

\* A record of four right fields is a header.
LEMMA HeaderRecord ==
  ASSUME NEW D, NEW s \in Nat, NEW x \in D \cup {NULL}, NEW y \in D \cup {NULL}
  PROVE  [size |-> s, free |-> TRUE, next |-> x, prev |-> y] \in Header(D)
BY DEF Header

\* Marking a block changes no link.
LEMMA MarkKeepsChain ==
  ASSUME NEW h, Chain(h), NEW a \in DOMAIN h, NEW v \in BOOLEAN
  PROVE  LET g == [h EXCEPT ![a].free = v]
         IN /\ Chain(g) /\ DOMAIN g = DOMAIN h /\ g[a].free = v
            /\ \A x \in DOMAIN h :
                 /\ g[x].size = h[x].size /\ g[x].next = h[x].next /\ g[x].prev = h[x].prev
                 /\ x # a => g[x].free = h[x].free
<1> DEFINE g == [h EXCEPT ![a].free = v]
<1>1. DOMAIN g = DOMAIN h /\ h \in [DOMAIN h -> Header(DOMAIN h)]
  BY DEF Chain
<1>2. /\ g[a].free = v
      /\ \A x \in DOMAIN h :
           /\ g[x].size = h[x].size /\ g[x].next = h[x].next /\ g[x].prev = h[x].prev
           /\ x # a => g[x].free = h[x].free
  BY <1>1 DEF Header
<1>3. g \in [DOMAIN g -> Header(DOMAIN g)]
  BY <1>1 DEF Header
<1>4. \A x \in DOMAIN h : h[x].next \in DOMAIN h \cup {NULL} /\ h[x].prev \in DOMAIN h \cup {NULL}
  BY <1>1 DEF Header
<1> HIDE DEF g
<1>5. \A x \in DOMAIN g : EndOf(g, x) = EndOf(h, x)
  BY <1>1, <1>2 DEF EndOf
<1>6. \A x \in DOMAIN g : Linked(g, x)
  BY <1>1, <1>2, <1>4, <1>5 DEF Chain, Linked
<1>7. Chain(g)
  BY <1>1, <1>3, <1>5, <1>6 DEF Chain
<1> QED BY <1>1, <1>2, <1>7 DEF g

\* black_heap_split cuts a block into two neighbours and touches no other.
LEMMA SplitKeepsChain ==
  ASSUME NEW h, Chain(h), NEW a \in DOMAIN h, NEW n \in Nat, Splits(h, a, n)
  PROVE  LET g == Split(h, a, n)
             b == a + HDR + n
         IN /\ Chain(g) /\ DOMAIN g = DOMAIN h \cup {b} /\ b \notin DOMAIN h
            /\ g[a].size = n /\ g[a].free = h[a].free /\ g[b].free
            /\ \A x \in DOMAIN h : x # a => g[x].size = h[x].size /\ g[x].free = h[x].free
<1> DEFINE b == a + HDR + n
           z == h[a].next
           g == Split(h, a, n)
           D == DOMAIN h
<1> USE HeapAssumption
<1>1. /\ D \subseteq Nat \ {0} /\ h \in [D -> Header(D)] /\ NULL \notin D
      /\ \A x \in D : x >= HEAP_START /\ x < HEAP_END
  BY DEF Chain, NULL, HEAP_END
<1>2. \A x \in D : /\ h[x].size \in Nat /\ h[x].free \in BOOLEAN
                   /\ h[x].next \in D \cup {NULL} /\ h[x].prev \in D \cup {NULL}
  BY <1>1 DEF Header
<1>3. /\ h[a].size > n + HDR + MIN_BLOCK
      /\ b \in Nat /\ b > a /\ b < EndOf(h, a) /\ h[a].size - n - HDR \in Nat
  BY <1>1, <1>2 DEF Splits, EndOf
<1>4. b \notin D /\ b # NULL
  <2>1. b \in D => EndOf(h, a) <= b
    BY <1>3 DEF Chain
  <2>2. EndOf(h, a) \in Nat
    BY <1>1, <1>2 DEF EndOf
  <2> HIDE DEF b
  <2> QED BY <1>1, <1>3, <2>1, <2>2 DEF NULL
<1>5. z # a /\ z # b
  BY <1>1, <1>2, <1>3, <1>4 DEF Chain, Linked, EndOf
<1>6. DOMAIN g = D \cup {b}
  BY DEF Split
<1>7. g[b] = [size |-> h[a].size - n - HDR, free |-> TRUE, next |-> z, prev |-> a]
  <2> b \in D \cup {b}
    OBVIOUS
  <2> QED BY <1>4, Zenon DEF Split
<1>8. g[a] = [h[a] EXCEPT !.size = n, !.next = b]
  BY <1>4 DEF Split
<1>9. z # NULL => g[z] = [h[z] EXCEPT !.prev = b]
  BY <1>2, <1>5 DEF Split
<1>10. \A x \in D : x # a /\ x # z => g[x] = h[x]
  BY <1>4 DEF Split
<1> HIDE DEF g
<1>11. /\ g[b].size = h[a].size - n - HDR /\ g[b].free = TRUE /\ g[b].next = z /\ g[b].prev = a
       /\ g[a].size = n /\ g[a].free = h[a].free /\ g[a].next = b /\ g[a].prev = h[a].prev
       /\ \A x \in D : x # a => g[x].size = h[x].size /\ g[x].free = h[x].free
                                /\ g[x].next = h[x].next
                                /\ g[x].prev = (IF x = z THEN b ELSE h[x].prev)
  BY <1>1, <1>2, <1>7, <1>8, <1>9, <1>10 DEF Header
<1>12. g \in [DOMAIN g -> Header(DOMAIN g)]
  <2>1. g = [x \in DOMAIN g |-> g[x]]
    BY DEF g, Split
  <2>2. ASSUME NEW x \in DOMAIN g PROVE g[x] \in Header(DOMAIN g)
    <3>1. CASE x = b
      <4>1. z \in DOMAIN g \cup {NULL} /\ a \in DOMAIN g \cup {NULL}
        BY <1>2, <1>6
      <4>2. h[a].size - n - HDR \in Nat
        BY <1>3
      <4>3. [size |-> h[a].size - n - HDR, free |-> TRUE, next |-> z, prev |-> a] \in Header(DOMAIN g)
        BY <4>1, <4>2, HeaderRecord, Zenon
      <4> QED BY <1>7, <3>1, <4>3
    <3>2. CASE x = a
      <4>1. h[a] \in Header(D)
        BY <1>1
      <4> QED BY <1>6, <1>8, <3>2, <4>1 DEF Header
    <3>3. CASE x \in D /\ x # a
      <4>1. h[x] \in Header(D)
        BY <1>1, <3>3
      <4>2. CASE x = z
        BY <1>1, <1>6, <1>9, <3>3, <4>1, <4>2 DEF Header
      <4> QED BY <1>6, <1>10, <3>3, <4>1, <4>2 DEF Header
    <3> QED BY <1>6, <3>1, <3>2, <3>3
  <2> QED BY <2>1, <2>2
<1>13. /\ EndOf(g, a) = b /\ EndOf(g, b) = EndOf(h, a)
       /\ \A x \in D : x # a => EndOf(g, x) = EndOf(h, x)
  BY <1>1, <1>2, <1>3, <1>11 DEF EndOf
<1>14. \A x \in DOMAIN g : Linked(g, x)
  <2>1. Linked(g, a)
    <3>1. h[a].prev # NULL => h[a].prev # a /\ h[a].prev \in D /\ h[h[a].prev].next = a
      BY <1>1, <1>2 DEF Chain, Linked, EndOf
    <3> QED BY <1>4, <1>11, <1>13, <3>1 DEF Chain, Linked
  <2>2. Linked(g, b)
    <3>1. /\ z = NULL => EndOf(h, a) = HEAP_END
          /\ z # NULL => z = EndOf(h, a) /\ z \in D /\ z # a
      BY <1>2, <1>5 DEF Chain, Linked
    <3>2. z # NULL => g[z].prev = b
      BY <1>11, <3>1
    <3>3. a # NULL
      BY <1>1
    <3> QED BY <1>11, <1>13, <3>1, <3>2, <3>3 DEF Linked
  <2>3. ASSUME NEW x \in D, x # a PROVE Linked(g, x)
    <3>1. Linked(h, x) /\ Linked(h, a)
      BY DEF Chain
    <3>2. h[x].next # NULL => h[x].next # z /\ h[x].next \in D
      <4>1. h[x].next # NULL /\ h[x].next = z => h[z].prev = x /\ h[z].prev = a
        BY <3>1 DEF Linked
      <4> QED BY <1>2, <2>3, <4>1
    <3>3. /\ g[x].next = h[x].next /\ EndOf(g, x) = EndOf(h, x)
          /\ g[x].prev = (IF x = z THEN b ELSE h[x].prev)
      BY <1>11, <1>13, <2>3
    <3>4. g[x].next # NULL => g[g[x].next].prev = x
      <4>1. CASE h[x].next = a
        BY <1>11, <3>1, <3>3, <4>1 DEF Linked
      <4> QED BY <1>11, <3>1, <3>2, <3>3, <4>1 DEF Linked
    <3>5. x # z /\ h[x].prev # NULL => h[x].prev # a /\ h[x].prev \in D
      BY <1>2, <3>1 DEF Linked
    <3>6. IF g[x].prev = NULL THEN x = HEAP_START ELSE g[g[x].prev].next = x
      <4>1. CASE x = z
        BY <1>4, <1>11, <3>3, <4>1
      <4>2. CASE x # z
        BY <1>11, <3>1, <3>3, <3>5, <4>2 DEF Linked
      <4> QED BY <4>1, <4>2
    <3> QED BY <3>1, <3>3, <3>4, <3>6 DEF Linked
  <2> QED BY <1>6, <2>1, <2>2, <2>3
<1>15. \A x \in DOMAIN g : EndOf(g, x) <= HEAP_END
  <2>1. EndOf(h, a) <= HEAP_END /\ EndOf(h, a) \in Nat /\ HEAP_END \in Nat
    BY <1>1, <1>2 DEF Chain, EndOf, HEAP_END
  <2> QED BY <1>3, <1>6, <1>13, <2>1 DEF Chain
<1>16. \A x, y \in DOMAIN g : x < y => EndOf(g, x) <= y
  <2>1. \A x, y \in D : x < y => EndOf(h, x) <= y
    BY DEF Chain
  <2>2. \A x \in D : EndOf(h, x) \in Nat /\ x \in Nat
    BY <1>1, <1>2 DEF EndOf
  <2>3. ASSUME NEW x \in D, x < b, x # a PROVE EndOf(h, x) <= b
    <3>1. x < a
      BY <1>1, <1>3, <2>1, <2>2, <2>3
    <3> QED BY <1>1, <1>3, <2>1, <2>2, <3>1
  <2>4. ASSUME NEW y \in D, b < y PROVE EndOf(h, a) <= y
    BY <1>1, <1>3, <2>1, <2>2, <2>4
  <2>5. ASSUME NEW y \in D, a < y PROVE b <= y
    BY <1>1, <1>3, <2>1, <2>2, <2>5
  <2> HIDE DEF b, D
  <2> QED BY <1>3, <1>6, <1>13, <2>1, <2>2, <2>3, <2>4, <2>5
<1>17. DOMAIN g \subseteq HEAP_START .. HEAP_END - 1 /\ HEAP_START \in DOMAIN g
  <2>1. EndOf(h, a) <= HEAP_END /\ EndOf(h, a) \in Nat /\ HEAP_END \in Nat
    BY <1>1, <1>2 DEF Chain, EndOf, HEAP_END
  <2>2. b \in HEAP_START .. HEAP_END - 1
    BY <1>1, <1>3, <2>1
  <2> HIDE DEF b
  <2> QED BY <1>6, <2>2 DEF Chain
<1>18. Chain(g)
  BY <1>12, <1>14, <1>15, <1>16, <1>17 DEF Chain
<1> QED BY <1>4, <1>6, <1>11, <1>18 DEF g

\* black_heap_merge joins a block with its free neighbour and touches no
\* other: every block in use keeps its place.
LEMMA MergeKeepsChain ==
  ASSUME NEW h, Chain(h), NEW a \in DOMAIN h
  PROVE  LET g == Merge(h, a)
         IN /\ Chain(g) /\ DOMAIN g \subseteq DOMAIN h /\ a \in DOMAIN g
            /\ \A x \in DOMAIN h : ~h[x].free => x \in DOMAIN g
            /\ \A x \in DOMAIN g : g[x].free = h[x].free /\ (x # a => g[x].size = h[x].size)
<1> DEFINE b == h[a].next
           z == h[b].next
           g == Merge(h, a)
           D == DOMAIN h
<1> USE HeapAssumption
<1>0. CASE ~Merges(h, a)
  BY <1>0 DEF Merge
<1> SUFFICES ASSUME Merges(h, a)
             PROVE  /\ Chain(g) /\ DOMAIN g \subseteq D /\ a \in DOMAIN g
                    /\ \A x \in D : ~h[x].free => x \in DOMAIN g
                    /\ \A x \in DOMAIN g : g[x].free = h[x].free /\ (x # a => g[x].size = h[x].size)
  BY <1>0 DEF g
<1>1. /\ D \subseteq Nat \ {0} /\ h \in [D -> Header(D)] /\ NULL \notin D
      /\ \A x \in D : x >= HEAP_START /\ x < HEAP_END
  BY DEF Chain, NULL, HEAP_END
<1>2. \A x \in D : /\ h[x].size \in Nat /\ h[x].free \in BOOLEAN
                   /\ h[x].next \in D \cup {NULL} /\ h[x].prev \in D \cup {NULL}
  BY <1>1 DEF Header
<1>3. b \in D /\ h[b].free /\ b = EndOf(h, a) /\ h[b].prev = a /\ b > a /\ EndOf(h, a) \in Nat
  BY <1>1, <1>2 DEF Merges, Chain, Linked, EndOf
<1>4. z # NULL => z \in D /\ z = EndOf(h, b) /\ h[z].prev = b /\ z > b
  BY <1>1, <1>2, <1>3 DEF Chain, Linked, EndOf
<1>5. a # b /\ z # a /\ z # b
  BY <1>1, <1>3, <1>4
<1>6. DOMAIN g = D \ {b}
  BY DEF Merge
<1>7. g[a] = [h[a] EXCEPT !.size = @ + HDR + h[b].size, !.next = z]
  BY <1>5 DEF Merge
<1>8. z # NULL => g[z] = [h[z] EXCEPT !.prev = a]
  BY <1>4, <1>5 DEF Merge
<1>9. \A x \in D : x # a /\ x # b /\ x # z => g[x] = h[x]
  BY DEF Merge
<1>10. g = [x \in DOMAIN g |-> g[x]]
  BY DEF Merge
<1> HIDE DEF g
<1>11. /\ g[a].size = h[a].size + HDR + h[b].size /\ g[a].free = h[a].free
       /\ g[a].next = z /\ g[a].prev = h[a].prev
       /\ \A x \in D \ {b} : x # a => /\ g[x].size = h[x].size /\ g[x].free = h[x].free
                                      /\ g[x].next = h[x].next
                                      /\ g[x].prev = (IF x = z THEN a ELSE h[x].prev)
  BY <1>1, <1>2, <1>7, <1>8, <1>9 DEF Header
<1>12. g \in [DOMAIN g -> Header(DOMAIN g)]
  <2>1. ASSUME NEW x \in DOMAIN g PROVE h[x].prev # b \/ x = z
    BY <1>1, <1>3, <1>6 DEF Chain, Linked
  <2>2. ASSUME NEW x \in DOMAIN g PROVE h[x].next # b \/ x = a
    BY <1>1, <1>3, <1>6 DEF Chain, Linked
  <2>3. ASSUME NEW x \in DOMAIN g PROVE g[x] \in Header(DOMAIN g)
    <3>1. h[x] \in Header(D)
      BY <1>1, <1>6
    <3>2. CASE x = a
      <4>1. h[a].size + HDR + h[b].size \in Nat
        BY <1>2, <1>3
      <4>2. z \in DOMAIN g \cup {NULL} /\ h[a].prev \in DOMAIN g \cup {NULL}
        BY <1>2, <1>4, <1>5, <1>6, <2>1
      <4>3. h[a].free \in BOOLEAN
        BY <1>2
      <4>4. h[a] = [size |-> h[a].size, free |-> h[a].free, next |-> h[a].next, prev |-> h[a].prev]
        BY <3>1, <3>2 DEF Header
      <4>5. g[a] = [size |-> h[a].size + HDR + h[b].size, free |-> h[a].free,
                    next |-> z, prev |-> h[a].prev]
        BY <1>7, <4>4
      <4> QED BY <3>2, <4>1, <4>2, <4>3, <4>5 DEF Header
    <3>3. CASE x = z
      <4>1. x # NULL /\ g[x] = [h[x] EXCEPT !.prev = a]
        BY <1>1, <1>6, <1>8, <3>3
      <4>2. h[x].next \in DOMAIN g \cup {NULL} /\ a \in DOMAIN g
        BY <1>2, <1>5, <1>6, <2>2, <3>3
      <4> QED BY <3>1, <4>1, <4>2 DEF Header
    <3>4. CASE x # a /\ x # z
      <4>1. g[x] = h[x]
        BY <1>6, <1>9, <3>4
      <4>2. h[x].next \in DOMAIN g \cup {NULL} /\ h[x].prev \in DOMAIN g \cup {NULL}
        BY <1>2, <1>6, <2>1, <2>2, <3>4
      <4> QED BY <3>1, <4>1, <4>2 DEF Header
    <3> QED BY <3>2, <3>3, <3>4
  <2> QED BY <1>10, <2>3
<1>13. EndOf(g, a) = EndOf(h, b) /\ \A x \in DOMAIN g : x # a => EndOf(g, x) = EndOf(h, x)
  <2>1. g[a].size = h[a].size + HDR + h[b].size /\ b = a + HDR + h[a].size
    BY <1>3, <1>11 DEF EndOf
  <2>2. a \in Nat /\ h[a].size \in Nat /\ h[b].size \in Nat
    BY <1>1, <1>2, <1>3
  <2>3. EndOf(g, a) = EndOf(h, b)
    <3> HIDE DEF b
    <3> QED BY <2>1, <2>2 DEF EndOf
  <2> QED BY <1>6, <1>11, <2>3 DEF EndOf
<1>14. \A x \in DOMAIN g : Linked(g, x)
  <2>1. Linked(h, a) /\ Linked(h, b)
    BY <1>3 DEF Chain
  <2>2. Linked(g, a)
    <3>1. h[a].prev # NULL => /\ h[a].prev \in D /\ h[a].prev # a /\ h[a].prev # b
                              /\ h[h[a].prev].next = a
      <4>1. h[a].prev # NULL => h[a].prev \in D /\ h[h[a].prev].next = a
        BY <1>2, <2>1 DEF Linked
      <4>2. h[a].prev # a
        BY <1>1, <1>3, <1>5, <4>1
      <4>3. h[a].prev # b
        BY <1>1, <1>3, <1>5, <4>1
      <4> QED BY <4>1, <4>2, <4>3
    <3>2. IF g[a].prev = NULL THEN a = HEAP_START ELSE g[g[a].prev].next = a
      BY <1>11, <2>1, <3>1 DEF Linked
    <3>3. IF z = NULL THEN EndOf(h, b) = HEAP_END ELSE z = EndOf(h, b) /\ g[z].prev = a
      BY <1>4, <1>5, <1>11, <2>1 DEF Linked
    <3> QED BY <1>11, <1>13, <3>2, <3>3 DEF Linked
  <2>3. ASSUME NEW x \in D, x # a, x # b PROVE Linked(g, x)
    <3>1. Linked(h, x)
      BY DEF Chain
    <3>2. h[x].next # NULL => h[x].next # b /\ h[x].next # z /\ h[x].next \in D /\ h[h[x].next].prev = x
      BY <1>2, <1>3, <1>4, <2>3, <3>1 DEF Linked
    <3>3. x # z /\ h[x].prev # NULL => h[x].prev # a /\ h[x].prev # b /\ h[x].prev \in D
      BY <1>2, <2>3, <3>1 DEF Linked
    <3>4. /\ g[x].next = h[x].next /\ EndOf(g, x) = EndOf(h, x)
          /\ g[x].prev = (IF x = z THEN a ELSE h[x].prev)
      BY <1>6, <1>11, <1>13, <2>3
    <3>5. g[x].next # NULL => g[g[x].next].prev = x
      <4>1. CASE h[x].next = a
        BY <1>11, <3>2, <3>4, <4>1
      <4>2. CASE h[x].next # a
        BY <1>11, <3>2, <3>4, <4>2
      <4> QED BY <4>1, <4>2
    <3>6. IF g[x].prev = NULL THEN x = HEAP_START ELSE g[g[x].prev].next = x
      <4>1. CASE x = z
        BY <1>1, <1>11, <3>4, <4>1
      <4>2. CASE x # z
        BY <1>11, <3>1, <3>3, <3>4, <4>2 DEF Linked
      <4> QED BY <4>1, <4>2
    <3> QED BY <3>1, <3>4, <3>5, <3>6 DEF Linked
  <2> QED BY <1>6, <2>2, <2>3
<1>15. \A x \in DOMAIN g : EndOf(g, x) <= HEAP_END
  BY <1>3, <1>6, <1>13 DEF Chain
<1>16. \A x, y \in DOMAIN g : x < y => EndOf(g, x) <= y
  <2>1. \A x, y \in D : x < y => EndOf(h, x) <= y
    BY DEF Chain
  <2>2. \A x \in D : EndOf(h, x) \in Nat /\ x \in Nat
    BY <1>1, <1>2 DEF EndOf
  <2>3. ASSUME NEW y \in D, a < y, y # b PROVE EndOf(h, b) <= y
    BY <1>3, <2>1, <2>2, <2>3
  <2> HIDE DEF b, D
  <2> QED BY <1>6, <1>13, <2>1, <2>3
<1>17. DOMAIN g \subseteq HEAP_START .. HEAP_END - 1 /\ HEAP_START \in DOMAIN g
  <2>1. b # HEAP_START
    BY <1>1, <1>3
  <2> QED BY <1>6, <2>1 DEF Chain
<1>18. Chain(g)
  BY <1>12, <1>14, <1>15, <1>16, <1>17 DEF Chain
<1>19. \A x \in D : ~h[x].free => x \in DOMAIN g
  BY <1>3, <1>6
<1> QED BY <1>5, <1>6, <1>11, <1>18, <1>19
-----------------------------------------------------------------------------
\* black_heap_alloc takes a free block that is large enough out of the free
\* ones; the rest of it, if any, stays free.
LEMMA AllocatedUse ==
  ASSUME Chain(hdr), NEW a \in Blocks, NEW n \in Nat, hdr[a].free, hdr[a].size >= n
  PROVE  LET g == Allocated(a, n)
         IN /\ Chain(g) /\ a \in DOMAIN g /\ ~g[a].free /\ g[a].size >= n
            /\ SameUse(hdr, g, {}, {a})
<1> DEFINE h == IF Splits(hdr, a, n) THEN Split(hdr, a, n) ELSE hdr
           g == [h EXCEPT ![a].free = FALSE]
           b == a + HDR + n
<1>1. /\ Chain(h) /\ DOMAIN hdr \subseteq DOMAIN h /\ DOMAIN h \subseteq DOMAIN hdr \cup {b}
      /\ h[a].size >= n
      /\ \A x \in DOMAIN hdr : x # a => h[x].size = hdr[x].size /\ h[x].free = hdr[x].free
      /\ \A x \in DOMAIN h : x \notin DOMAIN hdr => h[x].free
  <2>1. CASE Splits(hdr, a, n)
    <3>1. h = Split(hdr, a, n)
      BY <2>1
    <3> HIDE DEF h
    <3>2. /\ Chain(h) /\ DOMAIN h = DOMAIN hdr \cup {b}
          /\ h[a].size = n /\ h[b].free
          /\ \A x \in DOMAIN hdr : x # a => h[x].size = hdr[x].size /\ h[x].free = hdr[x].free
      <4>1. a \in DOMAIN hdr
        BY DEF Blocks
      <4> QED BY <2>1, <3>1, <4>1, SplitKeepsChain
    <3> HIDE DEF b
    <3> QED BY <3>2
  <2>2. CASE ~Splits(hdr, a, n)
    <3>1. h = hdr
      BY <2>2
    <3> HIDE DEF h
    <3> QED BY <3>1
  <2> QED BY <2>1, <2>2
<1>2. g = Allocated(a, n)
  BY DEF Allocated
<1> HIDE DEF h
<1>3. /\ Chain(g) /\ DOMAIN g = DOMAIN h /\ g[a].free = FALSE
      /\ \A x \in DOMAIN h : g[x].size = h[x].size /\ (x # a => g[x].free = h[x].free)
  BY <1>1, MarkKeepsChain DEF Blocks
<1> HIDE DEF g
<1>4. SameUse(hdr, g, {}, {a})
  BY <1>1, <1>3 DEF SameUse
<1> QED BY <1>1, <1>2, <1>3, <1>4 DEF Blocks

\* kfree takes one block from those in use, whichever neighbours it merges.
LEMMA FreedUse ==
  ASSUME NEW h, Chain(h), NEW c \in DOMAIN h
  PROVE  LET g == Freed(h, c) IN Chain(g) /\ SameUse(h, g, {c}, {})
<1> DEFINE h1 == [h EXCEPT ![c].free = TRUE]
           b  == IF h1[c].prev # NULL /\ h1[h1[c].prev].free THEN h1[c].prev ELSE c
           h2 == Merge(h1, b)
           h3 == IF h2[b].next # NULL THEN Merge(h2, b) ELSE h2
<1>1. h3 = Freed(h, c)
  BY DEF Freed
<1>2. /\ Chain(h1) /\ DOMAIN h1 = DOMAIN h /\ h1[c].free
      /\ \A x \in DOMAIN h : h1[x].size = h[x].size /\ (x # c => h1[x].free = h[x].free)
  BY MarkKeepsChain
<1> HIDE DEF h1
<1>3. b \in DOMAIN h1 /\ h1[b].free
  <2>1. h1[c].prev \in DOMAIN h1 \cup {NULL}
    BY <1>2 DEF Chain, Header
  <2> QED BY <1>2, <2>1
<1> HIDE DEF b
<1>4. /\ Chain(h2) /\ DOMAIN h2 \subseteq DOMAIN h1 /\ b \in DOMAIN h2
      /\ \A x \in DOMAIN h1 : ~h1[x].free => x \in DOMAIN h2
      /\ \A x \in DOMAIN h2 : h2[x].free = h1[x].free /\ (x # b => h2[x].size = h1[x].size)
  BY <1>2, <1>3, MergeKeepsChain
<1> HIDE DEF h2
<1>5. /\ Chain(h3) /\ DOMAIN h3 \subseteq DOMAIN h2
      /\ \A x \in DOMAIN h2 : ~h2[x].free => x \in DOMAIN h3
      /\ \A x \in DOMAIN h3 : h3[x].free = h2[x].free /\ (x # b => h3[x].size = h2[x].size)
  <2>1. CASE h2[b].next # NULL
    <3>1. h3 = Merge(h2, b)
      BY <2>1
    <3> HIDE DEF h3
    <3> QED BY <1>4, <3>1, MergeKeepsChain
  <2>2. CASE h2[b].next = NULL
    <3>1. h3 = h2
      BY <2>2
    <3> HIDE DEF h3
    <3> QED BY <1>4, <3>1
  <2> QED BY <2>1, <2>2
<1> HIDE DEF h3
<1>6. SameUse(h, h3, {c}, {})
  <2>1. ASSUME NEW x \in DOMAIN h \ {c}, ~h[x].free
        PROVE  x \in DOMAIN h3 /\ ~h3[x].free /\ h3[x].size = h[x].size
    <3>1. x \in DOMAIN h1 /\ ~h1[x].free /\ h1[x].size = h[x].size /\ x # b
      BY <1>2, <1>3, <2>1
    <3>2. x \in DOMAIN h2 /\ ~h2[x].free /\ h2[x].size = h[x].size
      BY <1>4, <3>1
    <3> QED BY <1>5, <3>1, <3>2
  <2>2. ASSUME NEW x \in DOMAIN h3, ~h3[x].free PROVE x \in DOMAIN h \ {c} /\ ~h[x].free
    <3>1. x \in DOMAIN h1 /\ ~h1[x].free
      BY <1>4, <1>5, <2>2
    <3> QED BY <1>2, <3>1
  <2> QED BY <2>1, <2>2 DEF SameUse
<1> QED BY <1>1, <1>5, <1>6
-----------------------------------------------------------------------------
\* The block of a pointer.
LEMMA PtrBlock ==
  ASSUME Chain(hdr), NEW a \in Blocks
  PROVE  a \in Nat /\ Ptr(a) \in Nat /\ BlockOf(Ptr(a)) = a
BY HeapAssumption DEF Chain, Blocks, Ptr, BlockOf, HEAP_END

\* A pointer that is owned is that of a block in use, large enough.
LEMMA OwnedBlock ==
  ASSUME IInv, NEW p \in DOMAIN owned
  PROVE  /\ BlockOf(p) \in Blocks /\ p = Ptr(BlockOf(p))
         /\ ~hdr[BlockOf(p)].free /\ owned[p] \in Nat /\ owned[p] <= hdr[BlockOf(p)].size
<1>1. PICK a \in Blocks : p = Ptr(a)
  BY DEF IInv
<1>2. BlockOf(p) = a
  BY <1>1, PtrBlock DEF IInv
<1> QED BY <1>1, <1>2 DEF IInv, UsedAreOwned

\* The memory of a block lies in the heap and in no other block.
LEMMA BlockMemory ==
  ASSUME Chain(hdr), NEW a \in Blocks, NEW n \in Nat, n <= hdr[a].size
  PROVE  /\ Abstract!Bytes(Ptr(a), n) \subseteq HEAP_START .. HEAP_END - 1
         /\ \A b \in Blocks, m \in Nat : b # a /\ m <= hdr[b].size =>
              Abstract!Bytes(Ptr(a), n) \cap Abstract!Bytes(Ptr(b), m) = {}
<1> USE HeapAssumption
<1>1. \A x \in Blocks : x \in Nat /\ x >= HEAP_START /\ hdr[x].size \in Nat
  BY DEF Chain, Blocks, Header, HEAP_END
<1>2. a + HDR + hdr[a].size <= HEAP_END /\ HEAP_END \in Nat
  BY DEF Chain, Blocks, EndOf, HEAP_END
<1>3. Abstract!Bytes(Ptr(a), n) \subseteq HEAP_START .. HEAP_END - 1
  BY <1>1, <1>2 DEF Abstract!Bytes, Ptr
<1>4. ASSUME NEW b \in Blocks, NEW m \in Nat, b # a, m <= hdr[b].size
      PROVE  Abstract!Bytes(Ptr(a), n) \cap Abstract!Bytes(Ptr(b), m) = {}
  <2>1. a + HDR + hdr[a].size <= b \/ b + HDR + hdr[b].size <= a
    BY <1>1, <1>4 DEF Chain, Blocks, EndOf
  <2> QED BY <1>1, <1>4, <2>1 DEF Abstract!Bytes, Ptr
<1> QED BY <1>3, <1>4

\* The bytes of a block meet what is owned only if the block is owned.
LEMMA BlockMeetsOwner ==
  ASSUME IInv, NEW a \in Blocks, NEW n \in Nat, n <= hdr[a].size,
         NEW p \in DOMAIN owned, p # Ptr(a)
  PROVE  Abstract!Bytes(Ptr(a), n) \cap Abstract!Bytes(p, owned[p]) = {}
<1>1. /\ BlockOf(p) \in Blocks /\ p = Ptr(BlockOf(p)) /\ BlockOf(p) # a
      /\ owned[p] \in Nat /\ owned[p] <= hdr[BlockOf(p)].size
  BY OwnedBlock
<1>2. Chain(hdr)
  BY DEF IInv
<1> QED BY <1>1, <1>2, BlockMemory

\* The best fit is a free block, large enough, and nobody's.
LEMMA BestIsFree ==
  ASSUME IInv, NEW n \in Nat, NEW a \in Blocks, IsBest(a, AlignUp(n))
  PROVE  /\ hdr[a].free /\ AlignUp(n) \in Nat /\ hdr[a].size >= AlignUp(n)
         /\ n <= hdr[a].size /\ Ptr(a) \notin DOMAIN owned
<1>1. hdr[a].free /\ hdr[a].size >= AlignUp(n) /\ hdr[a].size \in Nat
  BY DEF IsBest, Fits, IInv, Chain, Header, Blocks
<1>2. AlignUp(n) \in Nat /\ AlignUp(n) >= n
  BY AlignUpEnough
<1>3. n <= hdr[a].size
  BY <1>1, <1>2
<1> QED BY <1>1, <1>2, <1>3 DEF IInv, UsedAreOwned

\* A grant of n bytes at a free block's pointer meets nothing owned.
LEMMA FreshMemory ==
  ASSUME IInv, NEW n \in Nat, NEW a \in Blocks, n <= hdr[a].size, Ptr(a) \notin DOMAIN owned
  PROVE  Abstract!Bytes(Ptr(a), n) \subseteq (HEAP_START .. HEAP_END - 1) \ Abstract!Taken
<1>1. Abstract!Bytes(Ptr(a), n) \subseteq HEAP_START .. HEAP_END - 1
  BY BlockMemory DEF IInv
<1>2. \A p \in DOMAIN owned : Abstract!Bytes(Ptr(a), n) \cap Abstract!Bytes(p, owned[p]) = {}
  BY BlockMeetsOwner
<1> QED BY <1>1, <1>2 DEF Abstract!Taken

\* The invariant after a step, from the use of the blocks: what was given
\* back is gone, what was granted is new.
LEMMA UseGivesInvariant ==
  ASSUME IInv, NEW gone, NEW new, Chain(hdr'),
         SameUse(hdr, hdr', gone, new), gone \subseteq Blocks, new \subseteq Blocks \cap Blocks',
         \A a \in new : hdr[a].free /\ ~hdr'[a].free /\ owned'[Ptr(a)] <= hdr'[a].size,
         owned' \in [DOMAIN owned' -> Nat],
         DOMAIN owned' = (DOMAIN owned \ {Ptr(a) : a \in gone}) \cup {Ptr(a) : a \in new},
         \A p \in DOMAIN owned' : p \notin {Ptr(a) : a \in new} => owned'[p] = owned[p]
  PROVE  IInv'
<1>1. Chain(hdr) /\ UsedAreOwned
  BY DEF IInv
<1>2. \A a, b \in Blocks \cup Blocks' : /\ a \in Nat /\ (Ptr(a) = Ptr(b) <=> a = b)
                                        /\ BlockOf(Ptr(a)) = a
  BY <1>1, HeapAssumption DEF Chain, Blocks, Ptr, BlockOf, HEAP_END
<1>3. ASSUME NEW p \in DOMAIN owned'
      PROVE  \E a \in Blocks' : p = Ptr(a) /\ ~hdr'[a].free /\ owned'[p] <= hdr'[a].size
  <2>1. CASE p \in {Ptr(a) : a \in new}
    BY <2>1
  <2>2. CASE p \in DOMAIN owned /\ p \notin {Ptr(a) : a \in gone} /\ p \notin {Ptr(a) : a \in new}
    <3>1. PICK a \in Blocks : p = Ptr(a) /\ ~hdr[a].free /\ owned[p] <= hdr[a].size
      BY <2>2, OwnedBlock
    <3>2. a \notin gone
      BY <2>2, <3>1
    <3>3. a \in Blocks' /\ ~hdr'[a].free /\ hdr'[a].size = hdr[a].size
      BY <3>1, <3>2 DEF SameUse, Blocks
    <3> QED BY <2>2, <3>1, <3>3
  <2> QED BY <2>1, <2>2
<1>4. ASSUME NEW a \in Blocks', ~hdr'[a].free PROVE Ptr(a) \in DOMAIN owned'
  <2>1. CASE a \in new
    BY <2>1
  <2>2. CASE a \in Blocks /\ a \notin gone /\ ~hdr[a].free
    <3>1. Ptr(a) \in DOMAIN owned
      BY <1>1, <2>2 DEF UsedAreOwned
    <3>2. Ptr(a) \notin {Ptr(b) : b \in gone}
      BY <1>2, <2>2
    <3> QED BY <3>1, <3>2
  <2> QED BY <1>4, <2>1, <2>2 DEF SameUse, Blocks
<1>5. \A a \in Blocks' : ~hdr'[a].free <=> Ptr(a) \in DOMAIN owned'
  BY <1>2, <1>3, <1>4
<1>6. \A p \in DOMAIN owned' : owned'[p] <= hdr'[BlockOf(p)].size
  BY <1>2, <1>3
<1> QED BY <1>3, <1>5, <1>6 DEF IInv, UsedAreOwned
-----------------------------------------------------------------------------
\* kmalloc grants memory that is nobody's.
LEMMA AllocGets ==
  ASSUME IInv, NEW n \in Nat, Alloc(n)
  PROVE  IInv' /\ \E p \in DOMAIN owned' : Abstract!Get(p, n)
<1>1. PICK a \in Blocks : /\ n > 0 /\ IsBest(a, AlignUp(n))
                          /\ hdr' = Allocated(a, AlignUp(n))
                          /\ owned' = Grant(Ptr(a), n)
  BY DEF Alloc
<1>2. /\ hdr[a].free /\ AlignUp(n) \in Nat /\ hdr[a].size >= AlignUp(n)
      /\ n <= hdr[a].size /\ Ptr(a) \notin DOMAIN owned /\ AlignUp(n) >= n
  BY <1>1, BestIsFree, AlignUpEnough
<1>3. /\ Chain(hdr') /\ a \in DOMAIN hdr' /\ ~hdr'[a].free /\ hdr'[a].size >= AlignUp(n)
      /\ SameUse(hdr, hdr', {}, {a}) /\ Chain(hdr)
  BY <1>1, <1>2, AllocatedUse DEF IInv
<1>4. /\ DOMAIN owned' = DOMAIN owned \cup {Ptr(a)} /\ owned'[Ptr(a)] = n
      /\ \A p \in DOMAIN owned : owned'[p] = owned[p]
  BY <1>1, <1>2 DEF Grant
<1>5. owned' \in [DOMAIN owned' -> Nat]
  BY <1>1, <1>4 DEF Grant, IInv
<1>6. hdr'[a].size >= n
  <2>1. hdr'[a].size \in Nat
    BY <1>3 DEF Chain, Header
  <2> QED BY <1>2, <1>3, <2>1
<1>7. IInv'
  <2> DEFINE gone == {}
             new == {a}
  <2>1. gone \subseteq Blocks /\ new \subseteq Blocks \cap Blocks'
    BY <1>3 DEF Blocks
  <2>2. \A b \in new : hdr[b].free /\ ~hdr'[b].free /\ owned'[Ptr(b)] <= hdr'[b].size
    BY <1>2, <1>3, <1>4, <1>6
  <2>3. DOMAIN owned' = (DOMAIN owned \ {Ptr(b) : b \in gone}) \cup {Ptr(b) : b \in new}
    BY <1>4
  <2>4. \A p \in DOMAIN owned' : p \notin {Ptr(b) : b \in new} => owned'[p] = owned[p]
    BY <1>4
  <2>5. SameUse(hdr, hdr', gone, new)
    BY <1>3
  <2> HIDE DEF gone, new
  <2> QED BY <1>3, <1>5, <2>1, <2>2, <2>3, <2>4, <2>5, UseGivesInvariant
<1>8. Abstract!Get(Ptr(a), n)
  <2>1. Abstract!Bytes(Ptr(a), n) \subseteq (HEAP_START .. HEAP_END - 1) \ Abstract!Taken
    BY <1>1, <1>2, FreshMemory
  <2> QED BY <1>1, <1>2, <2>1 DEF Abstract!Get, Grant
<1> QED BY <1>4, <1>7, <1>8

\* kfree takes what its owner gives back.
LEMMA FreeGives ==
  ASSUME IInv, NEW p \in DOMAIN owned, Free(p)
  PROVE  IInv' /\ Abstract!Give(p)
<1> DEFINE c == BlockOf(p)
<1>1. c \in Blocks /\ p = Ptr(c) /\ Chain(hdr)
  BY OwnedBlock DEF IInv
<1>2. hdr' = Freed(hdr, c) /\ owned' = [q \in DOMAIN owned \ {p} |-> owned[q]]
  BY DEF Free
<1> HIDE DEF c
<1>3. Chain(hdr') /\ SameUse(hdr, hdr', {c}, {})
  BY <1>1, <1>2, FreedUse DEF Blocks
<1>4. owned' \in [DOMAIN owned' -> Nat]
  BY <1>2 DEF IInv
<1>5. IInv'
  <2> DEFINE gone == {c}
             new == {}
  <2>1. gone \subseteq Blocks /\ new \subseteq Blocks \cap Blocks'
    BY <1>1
  <2>2. \A b \in new : hdr[b].free /\ ~hdr'[b].free /\ owned'[Ptr(b)] <= hdr'[b].size
    OBVIOUS
  <2>3. DOMAIN owned' = (DOMAIN owned \ {Ptr(b) : b \in gone}) \cup {Ptr(b) : b \in new}
    BY <1>1, <1>2
  <2>4. \A q \in DOMAIN owned' : q \notin {Ptr(b) : b \in new} => owned'[q] = owned[q]
    BY <1>2
  <2>5. SameUse(hdr, hdr', gone, new)
    BY <1>3
  <2> HIDE DEF gone, new
  <2> QED BY <1>3, <1>4, <2>1, <2>2, <2>3, <2>4, <2>5, UseGivesInvariant
<1> QED BY <1>2, <1>5 DEF Abstract!Give, Abstract!Without

\* krealloc in place grows only into the block that is already the owner's.
LEMMA InPlaceResizes ==
  ASSUME IInv, NEW p \in DOMAIN owned, NEW n \in Nat, ReallocInPlace(p, n)
  PROVE  IInv' /\ Abstract!Resize(p, n)
<1> DEFINE c == BlockOf(p)
<1>1. c \in Blocks /\ p = Ptr(c) /\ ~hdr[c].free
  BY OwnedBlock
<1>2. /\ n <= hdr[c].size /\ owned' = [owned EXCEPT ![p] = n] /\ hdr' = hdr
  <2>1. hdr[c].size \in Nat /\ hdr[c].size >= n
    BY <1>1 DEF ReallocInPlace, IInv, Chain, Header, Blocks
  <2> QED BY <2>1 DEF ReallocInPlace
<1> HIDE DEF c
<1>3. IInv'
  <2>1. BlockOf(p) = c
    BY DEF c
  <2> QED BY <1>1, <1>2, <2>1 DEF IInv, UsedAreOwned, Blocks
<1>4. Abstract!Bytes(p, n) \subseteq HEAP_START .. HEAP_END - 1
  BY <1>1, <1>2, BlockMemory DEF IInv
<1>5. \A q \in DOMAIN owned : q # p => Abstract!Bytes(p, n) \cap Abstract!Bytes(q, owned[q]) = {}
  BY <1>1, <1>2, BlockMeetsOwner
<1>6. Abstract!Bytes(p, n) \cap Abstract!Taken \subseteq Abstract!Bytes(p, owned[p])
  BY <1>5 DEF Abstract!Taken
<1> QED BY <1>2, <1>3, <1>4, <1>6 DEF Abstract!Resize

\* krealloc with a move grants the new block while the old one is still
\* owned, and gives the old one back.
LEMMA MoveMoves ==
  ASSUME IInv, NEW p \in DOMAIN owned, NEW n \in Nat, ReallocMove(p, n)
  PROVE  IInv' /\ \E r \in DOMAIN owned' : Abstract!Move(p, r, n)
<1> DEFINE c == BlockOf(p)
<1>1. PICK a \in Blocks : /\ IsBest(a, AlignUp(n))
                          /\ hdr' = Freed(Allocated(a, AlignUp(n)), c)
                          /\ owned' = [q \in (DOMAIN owned \ {p}) \cup {Ptr(a)} |->
                                         IF q = Ptr(a) THEN n ELSE owned[q]]
  BY DEF ReallocMove
<1>2. /\ hdr[a].free /\ AlignUp(n) \in Nat /\ hdr[a].size >= AlignUp(n)
      /\ n <= hdr[a].size /\ Ptr(a) \notin DOMAIN owned /\ AlignUp(n) >= n
  BY <1>1, BestIsFree, AlignUpEnough
<1>3. c \in Blocks /\ p = Ptr(c) /\ ~hdr[c].free /\ c # a /\ Chain(hdr)
  BY <1>2, OwnedBlock DEF IInv
<1> HIDE DEF c
<1> DEFINE g == Allocated(a, AlignUp(n))
<1>4. /\ Chain(g) /\ a \in DOMAIN g /\ ~g[a].free /\ g[a].size >= AlignUp(n)
      /\ SameUse(hdr, g, {}, {a})
  BY <1>2, <1>3, AllocatedUse
<1> HIDE DEF g
<1>5. c \in DOMAIN g /\ hdr' = Freed(g, c)
  BY <1>1, <1>3, <1>4 DEF SameUse, Blocks, g
<1>6. Chain(hdr') /\ SameUse(g, hdr', {c}, {})
  BY <1>4, <1>5, FreedUse
<1>7. SameUse(hdr, hdr', {c}, {a})
  <2>1. ASSUME NEW x \in DOMAIN hdr \ {c}, ~hdr[x].free
        PROVE  x \in DOMAIN hdr' /\ ~hdr'[x].free /\ hdr'[x].size = hdr[x].size
    <3>1. x \in DOMAIN g \ {c} /\ ~g[x].free /\ g[x].size = hdr[x].size
      BY <1>4, <2>1 DEF SameUse
    <3> QED BY <1>6, <3>1 DEF SameUse
  <2>2. ASSUME NEW x \in DOMAIN hdr', ~hdr'[x].free
        PROVE  x \in {a} \/ (x \in DOMAIN hdr \ {c} /\ ~hdr[x].free)
    <3>1. x \in DOMAIN g \ {c} /\ ~g[x].free
      BY <1>6, <2>2 DEF SameUse
    <3> QED BY <1>4, <3>1 DEF SameUse
  <2> QED BY <2>1, <2>2 DEF SameUse
<1>8. a \in Blocks' /\ ~hdr'[a].free /\ n <= hdr'[a].size
  <2>1. a \in DOMAIN hdr' /\ ~hdr'[a].free /\ hdr'[a].size = g[a].size
    BY <1>3, <1>4, <1>6 DEF SameUse
  <2>2. hdr'[a].size \in Nat
    BY <1>6, <2>1 DEF Chain, Header
  <2> QED BY <1>2, <1>4, <2>1, <2>2 DEF Blocks
<1>9. /\ DOMAIN owned' = (DOMAIN owned \ {p}) \cup {Ptr(a)} /\ owned'[Ptr(a)] = n
      /\ \A q \in DOMAIN owned' : q # Ptr(a) => owned'[q] = owned[q]
      /\ owned' \in [DOMAIN owned' -> Nat]
  BY <1>1, <1>2 DEF IInv
<1>10. IInv'
  <2> DEFINE gone == {c}
             new == {a}
  <2>1. gone \subseteq Blocks /\ new \subseteq Blocks \cap Blocks'
    BY <1>3, <1>8
  <2>2. \A b \in new : hdr[b].free /\ ~hdr'[b].free /\ owned'[Ptr(b)] <= hdr'[b].size
    BY <1>2, <1>8, <1>9
  <2>3. DOMAIN owned' = (DOMAIN owned \ {Ptr(b) : b \in gone}) \cup {Ptr(b) : b \in new}
    BY <1>3, <1>9
  <2>4. \A q \in DOMAIN owned' : q \notin {Ptr(b) : b \in new} => owned'[q] = owned[q]
    BY <1>9
  <2>5. SameUse(hdr, hdr', gone, new)
    BY <1>7
  <2> HIDE DEF gone, new
  <2> QED BY <1>6, <1>9, <2>1, <2>2, <2>3, <2>4, <2>5, UseGivesInvariant
<1>11. Abstract!Move(p, Ptr(a), n)
  <2>1. Abstract!Bytes(Ptr(a), n) \subseteq (HEAP_START .. HEAP_END - 1) \ Abstract!Taken
    BY <1>2, FreshMemory
  <2> QED BY <1>1, <1>2, <2>1 DEF Abstract!Move
<1> QED BY <1>9, <1>10, <1>11
-----------------------------------------------------------------------------
\* The one block of black_heap_init is a list, and nobody owns anything.
LEMMA InitEstablishes == Init => IInv /\ Abstract!Init
<1> SUFFICES ASSUME Init PROVE IInv /\ Abstract!Init
  OBVIOUS
<1> USE HeapAssumption
<1>1. /\ DOMAIN hdr = {HEAP_START} /\ HEAP_START \in HEAP_START .. HEAP_END - 1
      /\ hdr[HEAP_START].size = HEAP_SIZE - HDR /\ hdr[HEAP_START].free = TRUE
      /\ hdr[HEAP_START].next = NULL /\ hdr[HEAP_START].prev = NULL
      /\ HEAP_SIZE - HDR \in Nat
  BY DEF Init, HEAP_END
<1>2. hdr \in [DOMAIN hdr -> Header(DOMAIN hdr)]
  BY <1>1 DEF Init, Header
<1>3. EndOf(hdr, HEAP_START) = HEAP_END
  BY <1>1 DEF EndOf, HEAP_END
<1>4. Chain(hdr)
  <2>1. HEAP_END \in Nat /\ HEAP_START \in Nat
    BY DEF HEAP_END
  <2> QED BY <1>1, <1>2, <1>3, <2>1 DEF Chain, Linked
<1> QED BY <1>1, <1>4 DEF Init, IInv, UsedAreOwned, Blocks, Abstract!Init

\* Every call keeps the invariant and is a step of an allocator.
LEMMA NextSteps == IInv /\ [Next]_vars => IInv' /\ [Abstract!Next]_owned
<1> SUFFICES ASSUME IInv, [Next]_vars PROVE IInv' /\ [Abstract!Next]_owned
  OBVIOUS
<1>1. Sizes \subseteq Nat
  BY HeapAssumption
<1>2. ASSUME NEW n \in Sizes, Alloc(n) PROVE IInv' /\ Abstract!Next
  BY <1>1, <1>2, AllocGets DEF Abstract!Next
<1>3. ASSUME NEW p \in DOMAIN owned, Free(p) PROVE IInv' /\ Abstract!Next
  BY <1>3, FreeGives DEF Abstract!Next
<1>4. ASSUME NEW p \in DOMAIN owned, NEW n \in Sizes, ReallocInPlace(p, n)
      PROVE  IInv' /\ Abstract!Next
  BY <1>1, <1>4, InPlaceResizes DEF Abstract!Next
<1>5. ASSUME NEW p \in DOMAIN owned, NEW n \in Sizes, ReallocMove(p, n)
      PROVE  IInv' /\ Abstract!Next
  BY <1>1, <1>5, MoveMoves DEF Abstract!Next
<1>6. CASE UNCHANGED vars
  BY <1>6 DEF vars, IInv, UsedAreOwned, Blocks
<1> QED BY <1>2, <1>3, <1>4, <1>5, <1>6 DEF Next

\* After any sequence of splits and merges the list is sound and the blocks
\* in use are exactly those of the callers.
THEOREM HeapInvariance == Spec => []IInv
BY InitEstablishes, NextSteps, PTL DEF Spec

\* kmalloc, kcalloc, kfree and krealloc never hand out a byte that somebody
\* owns, and nobody loses memory but by giving it back.
THEOREM HeapIsAllocator == Spec => ImplementsAllocator
BY InitEstablishes, NextSteps, PTL DEF Spec, ImplementsAllocator, Abstract!Spec
=============================================================================
