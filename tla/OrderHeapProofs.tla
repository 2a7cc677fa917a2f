---------------------------- MODULE OrderHeapProofs ----------------------------
(***************************************************************************)
(* The order heap, proved for every number of variables: the heap and pos   *)
(* agree, the copies are exact, nothing that can be decided is missing, and  *)
(* what is picked has the greatest activity, whatever is bumped, popped,     *)
(* recycled or switched off.                                                 *)
(***************************************************************************)
EXTENDS OrderHeap, SequenceTheorems, WellFoundedInduction, TLAPS

IInv == TypeOK /\ HeapIndexed /\ UndecidedQueued /\ CopiesExact

\* A heap in which one entry was replaced.
LEMMA Replaced ==
    ASSUME NEW h \in Seq(Entry), NEW k \in DOMAIN h, NEW e \in Entry
    PROVE  /\ [h EXCEPT ![k] = e] \in Seq(Entry)
           /\ DOMAIN [h EXCEPT ![k] = e] = DOMAIN h
           /\ Len([h EXCEPT ![k] = e]) = Len(h)
           /\ \A j \in DOMAIN h : [h EXCEPT ![k] = e][j] = IF j = k THEN e ELSE h[j]
<1>1. DOMAIN h = 1..Len(h)
  BY LenProperties
<1>2. /\ [h EXCEPT ![k] = e] \in Seq(Entry)
      /\ Len([h EXCEPT ![k] = e]) = Len(h)
      /\ \A j \in 1..Len(h) : [h EXCEPT ![k] = e][j] = IF j = k THEN e ELSE h[j]
  BY <1>1, ExceptSeq
<1> QED
  BY <1>1, <1>2

\* A heap with one more entry.
LEMMA Appended ==
    ASSUME NEW h \in Seq(Entry), NEW e \in Entry
    PROVE  /\ Append(h, e) \in Seq(Entry)
           /\ DOMAIN Append(h, e) = DOMAIN h \cup {Len(h) + 1}
           /\ Len(h) + 1 \notin DOMAIN h
           /\ \A j \in DOMAIN h : Append(h, e)[j] = h[j]
           /\ Append(h, e)[Len(h) + 1] = e
<1>1. DOMAIN h = 1..Len(h) /\ Len(h) \in Nat
  BY LenProperties
<1>2. Append(h, e) \in Seq(Entry) /\ Len(Append(h, e)) = Len(h) + 1
  OBVIOUS
<1>3. DOMAIN Append(h, e) = 1..(Len(h) + 1)
  BY <1>2, LenProperties
<1> QED
  BY <1>1, <1>2, <1>3

\* What the type invariant says of the heap and of what is held out.
LEMMA HeapFacts ==
    ASSUME TypeOK
    PROVE  /\ DOMAIN heap = 1..Len(heap) /\ Len(heap) \in Nat
           /\ \A i \in DOMAIN heap : heap[i] \in Entry /\ EntryAt(i) \in Entry
           /\ \A i \in DOMAIN heap : EntryAt(i).var \in Vars /\ EntryAt(i).act \in Nat
           /\ sift.dir # "none" => sift.at \in DOMAIN heap /\ sift.entry \in Entry
           /\ sift.dir = "none" <=> Still
<1>1. DOMAIN heap = 1..Len(heap) /\ Len(heap) \in Nat
  BY LenProperties DEF TypeOK
<1>2. \A i \in DOMAIN heap : heap[i] \in Entry
  BY <1>1, ElementOfSeq DEF TypeOK
<1>3. sift.dir # "none" => sift.at \in DOMAIN heap /\ sift.entry \in Entry
  BY DEF TypeOK, Nowhere
<1>4. sift.dir = "none" <=> Still
  BY DEF TypeOK, Nowhere, Still
<1>5. \A i \in DOMAIN heap : EntryAt(i) \in Entry
  BY <1>2, <1>3 DEF EntryAt
<1> QED
  BY <1>1, <1>2, <1>3, <1>4, <1>5 DEF Entry

--------------------------------------------------------------------------------
\* The hole moves one place: the entries trade places, none is lost.
LEMMA MovedStep ==
    ASSUME IInv, sift.dir # "none", NEW i \in DOMAIN heap, i # sift.at, Moved(i),
           UNCHANGED <<searchVars, activity, recycled>>
    PROVE  IInv'
<1> USE DEF IInv, searchVars
<1>1. /\ DOMAIN heap = 1..Len(heap) /\ Len(heap) \in Nat
      /\ \A j \in DOMAIN heap : heap[j] \in Entry /\ heap[j].var \in Vars
      /\ sift.at \in DOMAIN heap /\ sift.entry \in Entry
      /\ \A j \in DOMAIN heap : EntryAt(j).var \in Vars
  BY HeapFacts DEF Entry
<1>2. /\ heap' \in Seq(Entry) /\ DOMAIN heap' = DOMAIN heap
      /\ \A j \in DOMAIN heap : heap'[j] = IF j = sift.at THEN heap[i] ELSE heap[j]
  BY <1>1, Replaced DEF TypeOK, Moved
<1>3. sift' \in [dir : {"up", "down"}, at : DOMAIN heap', entry : Entry]
      /\ sift'.dir = sift.dir /\ sift'.at = i /\ sift'.entry = sift.entry
  BY <1>1, <1>2 DEF TypeOK, Moved, Nowhere, Holding
<1>4. pos' \in [Vars -> Nat]
      /\ \A v \in Vars : pos'[v] = IF v = heap[i].var THEN sift.at ELSE pos[v]
  BY <1>1 DEF TypeOK, Moved
<1>5. TypeOK'
  BY <1>2, <1>3, <1>4 DEF TypeOK
<1> DEFINE swap(j) == IF j = i THEN sift.at ELSE IF j = sift.at THEN i ELSE j
<1>6. \A j \in DOMAIN heap : swap(j) \in DOMAIN heap /\ EntryAt(j)' = EntryAt(swap(j))
  BY <1>1, <1>2, <1>3 DEF EntryAt, Nowhere
<1>7. \A j, k \in DOMAIN heap : swap(j) = swap(k) => j = k
  OBVIOUS
<1>8. \A j \in DOMAIN heap : swap(swap(j)) = j
  OBVIOUS
<1>9. sift.at # 0 /\ Contains(heap[i].var)
  <2>1. EntryAt(i) = heap[i]
    BY DEF EntryAt
  <2> QED
    BY <1>1, <2>1 DEF HeapIndexed
<1>10. \A v \in Vars : Contains(v)' <=> Contains(v)
  BY <1>1, <1>4, <1>9 DEF Contains
<1> HIDE DEF swap
<1>11. HeapIndexed'
  <2>1. \A j, k \in DOMAIN heap' : EntryAt(j)'.var = EntryAt(k)'.var => j = k
    BY <1>2, <1>6, <1>7 DEF HeapIndexed
  <2>2. \A j \in DOMAIN heap' : (sift'.dir # "none" /\ j = sift'.at) \/ pos'[EntryAt(j)'.var] = j
    <3> SUFFICES ASSUME NEW j \in DOMAIN heap, j # i
                 PROVE  pos'[EntryAt(j)'.var] = j
      BY <1>2, <1>3
    <3>1. CASE j = sift.at
      <4>1. EntryAt(j)' = heap[i]
        BY <1>6, <3>1 DEF swap, EntryAt
      <4> QED
        BY <1>1, <1>4, <3>1, <4>1
    <3>2. CASE j # sift.at
      <4>1. EntryAt(j)' = EntryAt(j) /\ EntryAt(j).var # EntryAt(i).var
        BY <1>6, <3>2 DEF swap, HeapIndexed
      <4>2. EntryAt(i) = heap[i] /\ pos[EntryAt(j).var] = j
        BY <3>2 DEF EntryAt, HeapIndexed
      <4> QED
        BY <1>1, <1>4, <4>1, <4>2
    <3> QED
      BY <3>1, <3>2
  <2>3. \A v \in Vars : Contains(v)' <=> \E j \in DOMAIN heap' : EntryAt(j)'.var = v
    <3> SUFFICES ASSUME NEW v \in Vars
                 PROVE  (\E j \in DOMAIN heap : EntryAt(j).var = v) <=> (\E j \in DOMAIN heap : EntryAt(j)'.var = v)
      BY <1>2, <1>10 DEF HeapIndexed
    <3> QED
      BY <1>6, <1>8
  <2> QED
    BY <2>1, <2>2, <2>3 DEF HeapIndexed
<1>12. UndecidedQueued'
  BY <1>10 DEF UndecidedQueued, Eligible
<1>13. CopiesExact'
  BY <1>2, <1>6 DEF CopiesExact
<1> QED
  BY <1>5, <1>11, <1>12, <1>13

\* The held entry is put into the hole.
LEMMA SettledStep ==
    ASSUME IInv, sift.dir # "none", Settled, UNCHANGED <<searchVars, activity, recycled>>
    PROVE  IInv'
<1> USE DEF IInv, searchVars
<1>1. /\ \A j \in DOMAIN heap : heap[j] \in Entry /\ heap[j].var \in Vars
      /\ sift.at \in DOMAIN heap /\ sift.entry \in Entry /\ sift.entry.var \in Vars
      /\ DOMAIN heap = 1..Len(heap) /\ Len(heap) \in Nat
      /\ \A j \in DOMAIN heap : EntryAt(j).var \in Vars
  BY HeapFacts DEF Entry
<1>2. /\ heap' \in Seq(Entry) /\ DOMAIN heap' = DOMAIN heap
      /\ \A j \in DOMAIN heap : heap'[j] = IF j = sift.at THEN sift.entry ELSE heap[j]
  BY <1>1, Replaced DEF TypeOK, Settled
<1>3. pos' \in [Vars -> Nat]
      /\ \A v \in Vars : pos'[v] = IF v = sift.entry.var THEN sift.at ELSE pos[v]
  BY <1>1 DEF TypeOK, Settled
<1>4. TypeOK'
  BY <1>2, <1>3 DEF TypeOK, Settled
<1>5. \A j \in DOMAIN heap : EntryAt(j)' = EntryAt(j)
  BY <1>2 DEF EntryAt, Settled, Nowhere
<1>6. EntryAt(sift.at) = sift.entry
  BY DEF EntryAt
<1>7. \A v \in Vars : Contains(v)' <=> Contains(v)
  BY <1>1, <1>3, <1>6 DEF Contains, HeapIndexed
<1>8. HeapIndexed'
  <2>1. \A j \in DOMAIN heap : pos'[EntryAt(j).var] = j
    BY <1>1, <1>3, <1>6 DEF HeapIndexed
  <2> QED
    BY <1>2, <1>5, <1>7, <2>1 DEF HeapIndexed
<1>9. UndecidedQueued'
  BY <1>7 DEF UndecidedQueued, Eligible
<1>10. CopiesExact'
  BY <1>2, <1>5 DEF CopiesExact
<1> QED
  BY <1>4, <1>8, <1>9, <1>10

--------------------------------------------------------------------------------
HeapType ==
    /\ heap \in Seq(Entry)
    /\ pos \in [Vars -> Nat]
    /\ activity \in [Vars -> Nat]
    /\ sift = Nowhere \/ sift \in [dir : {"up", "down"}, at : DOMAIN heap, entry : Entry]

HeapRight == HeapType /\ HeapIndexed /\ CopiesExact

\* While nothing is held out, the entries are those of the heap.
LEMMA StillFacts ==
    ASSUME IInv, Still
    PROVE  /\ \A i \in DOMAIN heap : EntryAt(i) = heap[i] /\ heap[i] \in Entry /\ heap[i].var \in Vars
           /\ \A i \in DOMAIN heap : heap[i].act = activity[heap[i].var] /\ pos[heap[i].var] = i
           /\ \A i, j \in DOMAIN heap : heap[i].var = heap[j].var => i = j
           /\ \A v \in Vars : Contains(v) => pos[v] \in DOMAIN heap /\ heap[pos[v]].var = v
           /\ \A v \in Vars : ~Contains(v) => \A i \in DOMAIN heap : heap[i].var # v
           /\ \A i \in DOMAIN heap : Contains(heap[i].var)
<1>1. sift.dir = "none"
  BY DEF Still, Nowhere
<1>2. \A i \in DOMAIN heap : EntryAt(i) = heap[i]
  BY <1>1 DEF EntryAt
<1>3. \A i \in DOMAIN heap : heap[i] \in Entry /\ heap[i].var \in Vars
  BY HeapFacts DEF IInv, Entry
<1> QED
  BY <1>1, <1>2, <1>3 DEF IInv, HeapIndexed, CopiesExact

\* insert: the variable gets the last place, and its entry is held out there.
LEMMA InsertedStep ==
    ASSUME IInv, Still, NEW v \in Vars, NEW act \in [Vars -> Nat], Inserted(v, act), activity' = act,
           \A u \in Vars : Contains(u) => act[u] = activity[u]
    PROVE  HeapRight' /\ \A u \in Vars : Contains(u)' <=> (Contains(u) \/ u = v)
<1> USE DEF IInv
<1>1. CASE Contains(v)
  <2>1. UNCHANGED heapVars
    BY <1>1 DEF Inserted
  <2>2. \A i \in DOMAIN heap : EntryAt(i)' = EntryAt(i)
    BY <2>1 DEF heapVars, EntryAt
  <2>3. HeapType' /\ HeapIndexed'
    BY <2>1, <2>2 DEF heapVars, HeapType, TypeOK, HeapIndexed, Contains
  <2>4. CopiesExact'
    BY <2>1, <2>2, StillFacts DEF heapVars, CopiesExact, Contains, TypeOK
  <2> QED
    BY <1>1, <2>1, <2>3, <2>4 DEF heapVars, HeapRight, Contains
<1>2. CASE ~Contains(v)
  <2>0. Len(heap) \in Nat /\ [act |-> act[v], var |-> v] \in Entry
    BY HeapFacts DEF Entry
  <2> PICK n \in Nat : n = Len(heap) + 1
    BY <2>0
  <2> PICK e \in Entry : e = [act |-> act[v], var |-> v]
    BY <2>0
  <2>1. /\ heap' = Append(heap, e) /\ pos' = [pos EXCEPT ![v] = n] /\ sift' = Holding("up", n, e)
        /\ e \in Entry /\ Len(heap) \in Nat /\ DOMAIN heap = 1..Len(heap)
    BY <1>2, HeapFacts DEF Inserted, Entry
  <2>2. /\ heap' \in Seq(Entry) /\ DOMAIN heap' = DOMAIN heap \cup {n} /\ n \notin DOMAIN heap
        /\ \A j \in DOMAIN heap : heap'[j] = heap[j]
        /\ n # 0
    BY <2>1, Appended DEF TypeOK
  <2>3. pos' \in [Vars -> Nat] /\ \A u \in Vars : pos'[u] = IF u = v THEN n ELSE pos[u]
    BY <2>1, <2>2 DEF TypeOK
  <2>4. /\ sift' \in [dir : {"up", "down"}, at : DOMAIN heap', entry : Entry]
        /\ sift'.dir = "up" /\ sift'.at = n /\ sift'.entry = e
    BY <2>1, <2>2 DEF Holding
  <2>5. HeapType'
    BY <2>2, <2>3, <2>4 DEF HeapType
  <2>6. EntryAt(n)' = e /\ \A j \in DOMAIN heap : EntryAt(j)' = heap[j]
    BY <2>2, <2>4 DEF EntryAt
  <2>7. e.var = v /\ e.act = act[v] /\ \A j \in DOMAIN heap : heap[j].var # v /\ heap[j].var \in Vars
    BY <1>2, StillFacts
  <2>8. \A u \in Vars : Contains(u)' <=> (Contains(u) \/ u = v)
    BY <2>2, <2>3 DEF Contains
  <2>8a. /\ \A i, j \in DOMAIN heap : heap[i].var = heap[j].var => i = j
         /\ \A j \in DOMAIN heap : pos[heap[j].var] = j
         /\ \A u \in Vars : Contains(u) => \E j \in DOMAIN heap : heap[j].var = u
         /\ \A j \in DOMAIN heap : heap[j].act = activity[heap[j].var] /\ Contains(heap[j].var)
    BY StillFacts
  <2>9. HeapIndexed'
    <3>1. \A i, j \in DOMAIN heap' : EntryAt(i)'.var = EntryAt(j)'.var => i = j
      BY <2>2, <2>6, <2>7, <2>8a
    <3>2. \A j \in DOMAIN heap' : (sift'.dir # "none" /\ j = sift'.at) \/ pos'[EntryAt(j)'.var] = j
      BY <2>2, <2>3, <2>4, <2>6, <2>7, <2>8a
    <3>3. \A u \in Vars : Contains(u)' <=> \E j \in DOMAIN heap' : EntryAt(j)'.var = u
      <4> SUFFICES ASSUME NEW u \in Vars
                   PROVE  (Contains(u) \/ u = v) <=> \E j \in DOMAIN heap' : EntryAt(j)'.var = u
        BY <2>8
      <4>1. CASE u = v
        BY <2>2, <2>6, <2>7, <4>1
      <4>2. CASE u # v /\ Contains(u)
        <5> PICK j \in DOMAIN heap : heap[j].var = u
          BY <2>8a, <4>2
        <5>1. j \in DOMAIN heap' /\ EntryAt(j)' = heap[j]
          BY <2>2, <2>6
        <5> QED
          BY <4>2, <5>1
      <4>3. CASE u # v /\ ~Contains(u)
        BY <2>2, <2>6, <2>7, <2>8a, <4>3
      <4> QED
        BY <4>1, <4>2, <4>3
    <3> QED
      BY <3>1, <3>2, <3>3 DEF HeapIndexed
  <2>10. CopiesExact'
    <3>1. \A j \in DOMAIN heap : heap[j].act = act[heap[j].var]
      BY <2>7, <2>8a
    <3> QED
      BY <2>2, <2>6, <2>7, <3>1 DEF CopiesExact
  <2> QED
    BY <2>5, <2>8, <2>9, <2>10 DEF HeapRight
<1> QED
  BY <1>1, <1>2

\* decrease and refresh_all: the copies change, the places do not.
LEMMA RecopiedStep ==
    ASSUME IInv, Still, pos' = pos, activity' \in [Vars -> Nat],
           heap' \in Seq(Entry), DOMAIN heap' = DOMAIN heap,
           \A i \in DOMAIN heap : heap'[i].var = heap[i].var /\ heap'[i].act = activity'[heap[i].var],
           sift' = Nowhere \/ \E k \in DOMAIN heap : sift' = Holding("up", k, heap'[k])
    PROVE  HeapRight' /\ \A u \in Vars : Contains(u)' <=> Contains(u)
<1>1. \A i \in DOMAIN heap : heap'[i] \in Entry
  BY ElementOfSeq, LenProperties
<1>2. sift' = Nowhere \/ sift' \in [dir : {"up", "down"}, at : DOMAIN heap', entry : Entry]
  BY <1>1 DEF Holding
<1>3. \A i \in DOMAIN heap : EntryAt(i)' = heap'[i]
  BY DEF EntryAt, Holding, Nowhere
<1>4. HeapType'
  BY <1>2 DEF HeapType, IInv, TypeOK
<1>5. \A u \in Vars : Contains(u)' <=> Contains(u)
  BY DEF Contains
<1>6. /\ \A i, j \in DOMAIN heap : heap[i].var = heap[j].var => i = j
      /\ \A i \in DOMAIN heap : pos[heap[i].var] = i
      /\ \A u \in Vars : Contains(u) <=> \E i \in DOMAIN heap : heap[i].var = u
  BY StillFacts
<1>7. HeapIndexed'
  BY <1>3, <1>5, <1>6 DEF HeapIndexed
<1>8. CopiesExact'
  BY <1>3 DEF CopiesExact
<1> QED
  BY <1>4, <1>5, <1>7, <1>8 DEF HeapRight

\* pop: the root leaves, and the last entry is held out over its place.
LEMMA PoppedStep ==
    ASSUME IInv, Still, heap # <<>>, Popped, activity' = activity
    PROVE  /\ HeapRight'
           /\ 1 \in DOMAIN heap
           /\ \A u \in Vars : Contains(u)' <=> (Contains(u) /\ u # heap[1].var)
<1>1. /\ heap \in Seq(Entry) /\ pos \in [Vars -> Nat]
      /\ DOMAIN heap = 1..Len(heap) /\ Len(heap) \in Nat /\ Len(heap) > 0
  <2>1. heap \in Seq(Entry) /\ Len(heap) # 0
    BY EmptySeq DEF IInv, TypeOK
  <2> QED
    BY <2>1, HeapFacts DEF IInv, TypeOK
<1>2. /\ \A i, j \in DOMAIN heap : heap[i].var = heap[j].var => i = j
      /\ \A i \in DOMAIN heap : /\ heap[i] \in Entry /\ heap[i].var \in Vars
                               /\ pos[heap[i].var] = i /\ heap[i].act = activity[heap[i].var]
      /\ \A u \in Vars : Contains(u) <=> \E i \in DOMAIN heap : heap[i].var = u
  BY StillFacts
<1>3. 1 \in DOMAIN heap
  BY <1>1
<1>4. CASE Len(heap) = 1
  <2>1. heap' = <<>> /\ pos' = [pos EXCEPT ![heap[1].var] = 0] /\ sift' = Nowhere
    BY <1>4 DEF Popped
  <2>2. heap' \in Seq(Entry) /\ DOMAIN heap' = {}
    BY <2>1, EmptySeq
  <2>3. \A u \in Vars : pos'[u] = IF u = heap[1].var THEN 0 ELSE pos[u]
    BY <1>1, <2>1
  <2>4. HeapType'
    BY <1>1, <1>2, <2>1, <2>2 DEF HeapType, IInv, TypeOK
  <2>5. \A u \in Vars : Contains(u)' <=> (Contains(u) /\ u # heap[1].var)
    BY <2>3 DEF Contains
  <2>6. \A u \in Vars : ~Contains(u)'
    BY <1>1, <1>2, <1>4, <2>5
  <2>7. HeapIndexed' /\ CopiesExact'
    BY <2>2, <2>6 DEF HeapIndexed, CopiesExact
  <2> QED
    BY <1>3, <2>4, <2>5, <2>7 DEF HeapRight
<1>5. CASE Len(heap) > 1
  <2> PICK n \in Nat : n = Len(heap) /\ n > 1
    BY <1>1, <1>5
  <2> PICK last \in Entry : last = heap[n]
    BY <1>1, <1>2
  <2>1. /\ heap' = [SubSeq(heap, 1, n - 1) EXCEPT ![1] = last]
        /\ pos' = [pos EXCEPT ![heap[1].var] = 0, ![last.var] = 1]
        /\ sift' = Holding("down", 1, last)
    BY DEF Popped
  <2>2. /\ SubSeq(heap, 1, n - 1) \in Seq(Entry) /\ DOMAIN SubSeq(heap, 1, n - 1) = 1..(n - 1)
        /\ \A i \in 1..(n - 1) : SubSeq(heap, 1, n - 1)[i] = heap[i]
    BY <1>1, SubSeqProperties, LenProperties
  <2> PICK rest \in Seq(Entry) : rest = SubSeq(heap, 1, n - 1)
    BY <2>2
  <2>2a. heap' = [rest EXCEPT ![1] = last] /\ DOMAIN rest = 1..(n - 1) /\ 1 \in DOMAIN rest
         /\ \A i \in 1..(n - 1) : rest[i] = heap[i]
    BY <2>1, <2>2
  <2>3. /\ heap' \in Seq(Entry) /\ DOMAIN heap' = 1..(n - 1) /\ 1 \in DOMAIN heap'
        /\ \A i \in 1..(n - 1) : heap'[i] = IF i = 1 THEN last ELSE heap[i]
    BY <2>2a, Replaced
  <2>4. 1..(n - 1) \subseteq DOMAIN heap /\ n \in DOMAIN heap /\ DOMAIN heap = 1..(n - 1) \cup {n}
    BY <1>1
  <2>5. last.var \in Vars /\ last.var # heap[1].var /\ heap[1].var \in Vars
    BY <1>2, <1>3, <2>4
  <2>6. /\ pos' \in [Vars -> Nat]
        /\ \A u \in Vars : pos'[u] = IF u = last.var THEN 1 ELSE IF u = heap[1].var THEN 0 ELSE pos[u]
    BY <1>1, <2>1, <2>5
  <2>7. sift'.dir = "down" /\ sift'.at = 1 /\ sift'.entry = last
        /\ sift' \in [dir : {"up", "down"}, at : DOMAIN heap', entry : Entry]
    BY <2>1, <2>3 DEF Holding
  <2>8. HeapType'
    BY <2>3, <2>6, <2>7 DEF HeapType, IInv, TypeOK
  <2>9. \A i \in 1..(n - 1) : EntryAt(i)' = IF i = 1 THEN last ELSE heap[i]
    BY <2>3, <2>7 DEF EntryAt
  <2>10. \A u \in Vars : Contains(u)' <=> (Contains(u) /\ u # heap[1].var)
    BY <1>2, <2>4, <2>5, <2>6 DEF Contains
  <2>11. HeapIndexed'
    <3>1. \A i, j \in DOMAIN heap' : EntryAt(i)'.var = EntryAt(j)'.var => i = j
      BY <1>2, <2>3, <2>4, <2>9
    <3>2. \A i \in DOMAIN heap' : (sift'.dir # "none" /\ i = sift'.at) \/ pos'[EntryAt(i)'.var] = i
      <4> SUFFICES ASSUME NEW i \in 1..(n - 1), i # 1
                   PROVE  pos'[EntryAt(i)'.var] = i
        BY <2>3, <2>7
      <4>1. EntryAt(i)' = heap[i] /\ i \in DOMAIN heap /\ i # n
        BY <2>4, <2>9
      <4>2. heap[i].var # last.var /\ heap[i].var # heap[1].var
        BY <1>2, <1>3, <2>4, <4>1
      <4> QED
        BY <1>2, <2>6, <4>1, <4>2
    <3>3. \A u \in Vars : Contains(u)' <=> \E i \in DOMAIN heap' : EntryAt(i)'.var = u
      <4> SUFFICES ASSUME NEW u \in Vars
                   PROVE  ((\E i \in DOMAIN heap : heap[i].var = u) /\ u # heap[1].var)
                             <=> \E i \in DOMAIN heap' : EntryAt(i)'.var = u
        BY <1>2, <2>10
      <4>1. ASSUME NEW i \in DOMAIN heap, heap[i].var = u, u # heap[1].var
            PROVE  \E j \in DOMAIN heap' : EntryAt(j)'.var = u
        <5>1. CASE i = n
          BY <2>3, <2>9, <4>1, <5>1
        <5>2. CASE i # n
          <6>1. i \in DOMAIN heap' /\ i # 1
            BY <2>3, <2>4, <4>1, <5>2
          <6> QED
            BY <2>3, <2>9, <4>1, <6>1
        <5> QED
          BY <5>1, <5>2
      <4>2. ASSUME NEW i \in DOMAIN heap', EntryAt(i)'.var = u
            PROVE  (\E j \in DOMAIN heap : heap[j].var = u) /\ u # heap[1].var
        BY <1>2, <1>3, <2>3, <2>4, <2>5, <2>9, <4>2
      <4> QED
        BY <4>1, <4>2
    <3> QED
      BY <3>1, <3>2, <3>3 DEF HeapIndexed
  <2>12. CopiesExact'
    BY <1>2, <2>3, <2>4, <2>9 DEF CopiesExact
  <2> QED
    BY <1>3, <2>8, <2>10, <2>11, <2>12 DEF HeapRight
<1> QED
  BY <1>1, <1>4, <1>5

\* A step that leaves the heap and the activities alone.
LEMMA HeapKept ==
    ASSUME IInv, UNCHANGED <<heapVars, activity>>
    PROVE  HeapRight' /\ \A u \in Vars : Contains(u)' <=> Contains(u)
<1>1. \A i \in DOMAIN heap : EntryAt(i)' = EntryAt(i)
  BY DEF heapVars, EntryAt
<1> QED
  BY <1>1 DEF HeapRight, HeapType, IInv, TypeOK, HeapIndexed, CopiesExact, Contains, heapVars

--------------------------------------------------------------------------------
LEMMA InitIInv == Init => IInv
<1> SUFFICES ASSUME Init
             PROVE  IInv
  OBVIOUS
<1>1. heap = <<>> /\ DOMAIN heap = {} /\ heap \in Seq(Entry)
  BY EmptySeq DEF Init
<1>2. TypeOK
  BY <1>1 DEF Init, TypeOK
<1>3. HeapIndexed /\ UndecidedQueued /\ CopiesExact
  BY <1>1 DEF Init, HeapIndexed, UndecidedQueued, CopiesExact, Contains, Eligible
<1> QED
  BY <1>2, <1>3 DEF IInv

\* The two conjuncts that the heap alone does not decide.
LEMMA Whole ==
    ASSUME HeapRight', UndecidedQueued',
           decision' \subseteq Vars, assigned' \subseteq Vars, free' \subseteq Vars,
           picking' \in {"no", "pick", "peek"}, recycled' \in BOOLEAN
    PROVE  IInv'
BY DEF HeapRight, HeapType, IInv, TypeOK

LEMMA SiftUpStep ==
    ASSUME IInv, SiftUp
    PROVE  IInv'
<1>1. sift.dir # "none" /\ UNCHANGED <<searchVars, activity, recycled>>
  BY DEF SiftUp
<1>2. DOMAIN heap = 1..Len(heap) /\ Len(heap) \in Nat /\ sift.at \in DOMAIN heap
  BY <1>1, HeapFacts DEF IInv
<1>3. CASE Settled
  BY <1>1, <1>3, SettledStep
<1>4. CASE sift.at > 1 /\ Moved(Parent(sift.at))
  <2>1. Parent(sift.at) \in DOMAIN heap /\ Parent(sift.at) # sift.at
    BY <1>2, <1>4 DEF Parent
  <2> QED
    BY <1>1, <1>4, <2>1, MovedStep
<1> QED
  BY <1>3, <1>4 DEF SiftUp

LEMMA SiftDownStep ==
    ASSUME IInv, SiftDown
    PROVE  IInv'
<1>1. sift.dir # "none" /\ UNCHANGED <<searchVars, activity, recycled>>
  BY DEF SiftDown
<1>2. DOMAIN heap = 1..Len(heap) /\ Len(heap) \in Nat /\ sift.at \in DOMAIN heap
  BY <1>1, HeapFacts DEF IInv
<1>3. CASE Settled
  BY <1>1, <1>3, SettledStep
<1>4. CASE 2 * sift.at <= Len(heap) /\ Moved(Child(sift.at))
  <2>1. Child(sift.at) \in DOMAIN heap /\ Child(sift.at) # sift.at
    BY <1>2, <1>4 DEF Child
  <2> QED
    BY <1>1, <1>4, <2>1, MovedStep
<1> QED
  BY <1>3, <1>4 DEF SiftDown

\* What is popped to be decided gets a value, the rest of what is popped has one
\* or is not decided upon.
LEMMA PickStep ==
    ASSUME IInv, Pick
    PROVE  IInv'
<1>1. Still /\ heap # <<>> /\ Popped /\ UNCHANGED <<decision, free, activity, recycled>>
  BY DEF Pick
<1>2. /\ HeapRight' /\ 1 \in DOMAIN heap
      /\ \A u \in Vars : Contains(u)' <=> (Contains(u) /\ u # heap[1].var)
  BY <1>1, PoppedStep
<1>3. heap[1].var \in Vars
  BY <1>1, <1>2, StillFacts
<1>4. assigned' \subseteq Vars /\ picking' \in {"no", "pick", "peek"} /\ assigned \subseteq assigned'
      /\ (heap[1].var \in assigned' \/ ~Eligible(heap[1].var))
  BY <1>3 DEF Pick, IInv, TypeOK
<1>5. UndecidedQueued'
  BY <1>1, <1>2, <1>3, <1>4 DEF IInv, UndecidedQueued, Eligible
<1> QED
  BY <1>1, <1>2, <1>4, <1>5, Whole DEF IInv, TypeOK

LEMMA PeekStep ==
    ASSUME IInv, PeekStale
    PROVE  IInv'
<1>1. Still /\ heap # <<>> /\ Popped /\ UNCHANGED <<searchVars, activity, recycled>> /\ ~Eligible(heap[1].var)
  BY DEF PeekStale
<1>2. /\ HeapRight' /\ 1 \in DOMAIN heap
      /\ \A u \in Vars : Contains(u)' <=> (Contains(u) /\ u # heap[1].var)
  BY <1>1, PoppedStep
<1>3. UndecidedQueued'
  BY <1>1, <1>2 DEF IInv, UndecidedQueued, Eligible, searchVars
<1> QED
  BY <1>1, <1>2, <1>3, Whole DEF IInv, TypeOK, searchVars

\* A variable that becomes decidable is in the heap when it does.
LEMMA UnassignStep ==
    ASSUME IInv, NEW v \in Vars, Unassign(v)
    PROVE  IInv'
<1>1. Still /\ UNCHANGED <<decision, free, picking, activity, recycled>> /\ assigned' = assigned \ {v}
  BY DEF Unassign, Quiet
<1>2. CASE v \in decision
  <2>1. HeapRight' /\ \A u \in Vars : Contains(u)' <=> (Contains(u) \/ u = v)
    <3>1. Inserted(v, activity) /\ activity \in [Vars -> Nat] /\ activity' = activity
      BY <1>1, <1>2 DEF Unassign, IInv, TypeOK
    <3> QED
      BY <1>1, <3>1, InsertedStep
  <2>2. UndecidedQueued'
    BY <1>1, <2>1 DEF IInv, UndecidedQueued, Eligible
  <2> QED
    BY <1>1, <2>1, <2>2, Whole DEF IInv, TypeOK
<1>3. CASE v \notin decision
  <2>1. HeapRight' /\ \A u \in Vars : Contains(u)' <=> Contains(u)
    BY <1>1, <1>3, HeapKept DEF Unassign
  <2>2. UndecidedQueued'
    BY <1>1, <1>3, <2>1 DEF IInv, UndecidedQueued, Eligible
  <2> QED
    BY <1>1, <2>1, <2>2, Whole DEF IInv, TypeOK
<1> QED
  BY <1>2, <1>3

LEMMA SetDecisionStep ==
    ASSUME IInv, NEW v \in Vars, NEW on \in BOOLEAN, SetDecision(v, on)
    PROVE  IInv'
<1>1. /\ Still /\ UNCHANGED <<assigned, free, picking, activity, recycled>>
      /\ decision' = IF on THEN decision \cup {v} ELSE decision \ {v}
  BY DEF SetDecision, Quiet
<1>2. CASE on /\ v \notin assigned
  <2>1. HeapRight' /\ \A u \in Vars : Contains(u)' <=> (Contains(u) \/ u = v)
    <3>1. Inserted(v, activity) /\ activity \in [Vars -> Nat] /\ activity' = activity
      BY <1>1, <1>2 DEF SetDecision, IInv, TypeOK
    <3> QED
      BY <1>1, <3>1, InsertedStep
  <2>2. UndecidedQueued'
    BY <1>1, <2>1 DEF IInv, UndecidedQueued, Eligible
  <2> QED
    BY <1>1, <2>1, <2>2, Whole DEF IInv, TypeOK
<1>3. CASE ~(on /\ v \notin assigned)
  <2>1. HeapRight' /\ \A u \in Vars : Contains(u)' <=> Contains(u)
    BY <1>1, <1>3, HeapKept DEF SetDecision
  <2>2. UndecidedQueued'
    BY <1>1, <1>3, <2>1 DEF IInv, UndecidedQueued, Eligible
  <2> QED
    BY <1>1, <2>1, <2>2, Whole DEF IInv, TypeOK
<1> QED
  BY <1>2, <1>3

--------------------------------------------------------------------------------
\* A division by a positive number, as the rescale does it.
LEMMA RescaledNat ==
    ASSUME NEW act \in [Vars -> Nat]
    PROVE  Rescaled(act) \in [Vars -> Nat]
<1>1. \A n \in Nat : n \div (MaxAct + 1) \in Nat
  BY HeapAssumption
<1> QED
  BY <1>1 DEF Rescaled

\* refresh_all rewrites the copies and nothing else.
LEMMA RefreshedFacts ==
    ASSUME IInv, Still, NEW act \in [Vars -> Nat]
    PROVE  /\ Refreshed(act) \in Seq(Entry) /\ DOMAIN Refreshed(act) = DOMAIN heap
           /\ \A i \in DOMAIN heap : /\ Refreshed(act)[i] \in Entry
                                   /\ Refreshed(act)[i].var = heap[i].var
                                   /\ Refreshed(act)[i].act = act[heap[i].var]
<1> PICK n \in Nat : n = Len(heap)
  BY HeapFacts DEF IInv
<1>1. DOMAIN heap = 1..n /\ \A i \in 1..n : heap[i] \in Entry /\ heap[i].var \in Vars
  BY HeapFacts, StillFacts DEF IInv
<1>2. \A i \in 1..n : [heap[i] EXCEPT !.act = act[heap[i].var]] = [act |-> act[heap[i].var], var |-> heap[i].var]
  BY <1>1 DEF Entry
<1>3. \A i \in 1..n : [act |-> act[heap[i].var], var |-> heap[i].var] \in Entry
  BY <1>1 DEF Entry
<1>4. Refreshed(act) = [i \in 1..n |-> [heap[i] EXCEPT !.act = act[heap[i].var]]]
  BY <1>1 DEF Refreshed
<1> PICK r : r = Refreshed(act)
  OBVIOUS
<1>4a. r = [i \in 1..n |-> [act |-> act[heap[i].var], var |-> heap[i].var]]
  BY <1>2, <1>4
<1>5. r \in [1..n -> Entry]
  BY <1>3, <1>4a
<1>6. r \in Seq(Entry)
  BY <1>5, SeqDef
<1>7. \A i \in 1..n : r[i] = [act |-> act[heap[i].var], var |-> heap[i].var]
  BY <1>4a
<1>8. DOMAIN r = DOMAIN heap /\ \A i \in DOMAIN heap : /\ r[i] \in Entry
                                                     /\ r[i].var = heap[i].var
                                                     /\ r[i].act = act[heap[i].var]
  <2>1. DOMAIN r = 1..n
    BY <1>5
  <2>2. \A i \in 1..n : r[i] \in Entry
    BY <1>5
  <2>3. ASSUME NEW i \in 1..n
        PROVE  r[i].var = heap[i].var /\ r[i].act = act[heap[i].var]
    <3>1. r[i] = [act |-> act[heap[i].var], var |-> heap[i].var]
      BY <1>7
    <3> QED
      BY <3>1
  <2> QED
    BY <1>1, <2>1, <2>2, <2>3
<1> QED
  BY <1>6, <1>8

LEMMA BumpStep ==
    ASSUME IInv, NEW v \in Vars, Bump(v)
    PROVE  IInv'
<1> DEFINE act == [activity EXCEPT ![v] = @ + 1]
           big == act[v] > MaxAct
           new == IF big THEN Rescaled(act) ELSE act
           h == IF big THEN Refreshed(new) ELSE heap
<1>1. Still /\ activity' = new /\ Raised(v, h, new) /\ UNCHANGED <<pos, searchVars, recycled>>
  BY DEF Bump, Quiet
<1>2. act \in [Vars -> Nat] /\ \A u \in Vars : u # v => act[u] = activity[u]
  BY DEF IInv, TypeOK
<1>3. new \in [Vars -> Nat]
  BY <1>2, RescaledNat
<1>4. \A i \in DOMAIN heap : /\ heap[i] \in Entry /\ heap[i].var \in Vars
                            /\ heap[i].act = activity[heap[i].var] /\ pos[heap[i].var] = i
  BY <1>1, StillFacts
<1>5. /\ Contains(v) => pos[v] \in DOMAIN heap /\ heap[pos[v]].var = v
      /\ ~Contains(v) => \A i \in DOMAIN heap : heap[i].var # v
  BY <1>1, StillFacts
<1>6. heap \in Seq(Entry) /\ DOMAIN heap = 1..Len(heap) /\ Len(heap) \in Nat
  BY HeapFacts DEF IInv, TypeOK
<1> PICK nw \in [Vars -> Nat] : nw = new
  BY <1>3
<1>7. /\ h \in Seq(Entry) /\ DOMAIN h = DOMAIN heap
      /\ \A i \in DOMAIN heap : h[i] \in Entry /\ h[i].var = heap[i].var
                              /\ (heap[i].var # v => h[i].act = nw[heap[i].var])
                              /\ (big => h[i].act = nw[heap[i].var])
  <2>1. CASE big
    <3>1. h = Refreshed(nw)
      BY <2>1
    <3> HIDE DEF h, big
    <3> QED
      BY <1>1, <1>4, <3>1, RefreshedFacts
  <2>2. CASE ~big
    BY <1>2, <1>4, <1>6, <2>2
  <2> QED
    BY <2>1, <2>2
<1> PICK hh \in Seq(Entry) : hh = h
  BY <1>7
<1>7a. DOMAIN hh = DOMAIN heap
       /\ \A i \in DOMAIN heap : hh[i] \in Entry /\ hh[i].var = heap[i].var
                              /\ (heap[i].var # v => hh[i].act = nw[heap[i].var])
  BY <1>7
<1>7b. Raised(v, hh, nw) /\ activity' = nw
  BY <1>1
<1> HIDE DEF act, big, new, h
<1>8. /\ heap' \in Seq(Entry) /\ DOMAIN heap' = DOMAIN heap
      /\ \A i \in DOMAIN heap : heap'[i].var = heap[i].var /\ heap'[i].act = nw[heap[i].var]
      /\ sift' = Nowhere \/ \E k \in DOMAIN heap : sift' = Holding("up", k, heap'[k])
  <2>1. CASE Contains(v)
    <3> PICK k \in DOMAIN heap : k = pos[v] /\ heap[k].var = v
      BY <1>5, <2>1
    <3> PICK e \in Entry : e = [act |-> nw[v], var |-> v]
      BY DEF Entry
    <3>1. [hh[k] EXCEPT !.act = nw[v]] = e
      BY <1>7a DEF Entry
    <3>2. heap' = [hh EXCEPT ![k] = e] /\ sift' = Holding("up", k, e)
      BY <1>7b, <2>1, <3>1 DEF Raised
    <3>3. /\ heap' \in Seq(Entry) /\ DOMAIN heap' = DOMAIN heap
          /\ \A i \in DOMAIN heap : heap'[i] = IF i = k THEN e ELSE hh[i]
      BY <1>7a, <3>2, Replaced
    <3>4. \A i \in DOMAIN heap : i # k => heap[i].var # v
      BY <1>4
    <3> QED
      BY <1>7a, <3>2, <3>3, <3>4
  <2>2. CASE ~Contains(v)
    BY <1>5, <1>7a, <1>7b, <2>2 DEF Raised
  <2> QED
    BY <2>1, <2>2
<1>9. HeapRight' /\ \A u \in Vars : Contains(u)' <=> Contains(u)
  BY <1>1, <1>7b, <1>8, RecopiedStep
<1>10. UndecidedQueued'
  BY <1>1, <1>9 DEF IInv, UndecidedQueued, Eligible, searchVars
<1> QED
  BY <1>1, <1>9, <1>10, Whole DEF IInv, TypeOK, searchVars

\* new_var on a recycled number: its entry is already in the heap, or it enters.
LEMMA NewVarStep ==
    ASSUME IInv, NEW v \in Vars, NewVar(v)
    PROVE  IInv'
<1> PICK act \in [Vars -> Nat] : act = [activity EXCEPT ![v] = 0]
  BY DEF IInv, TypeOK
<1>1. /\ Still /\ free' = free \ {v} /\ decision' = decision \cup {v} /\ activity' = act
      /\ UNCHANGED <<assigned, picking>> /\ recycled' \in BOOLEAN
  BY DEF NewVar, Quiet, IInv, TypeOK
<1>2. act[v] = 0 /\ \A u \in Vars : u # v => act[u] = activity[u]
  BY DEF IInv, TypeOK
<1>3. HeapRight' /\ \A u \in Vars : Contains(u)' <=> (Contains(u) \/ u = v)
  <2>1. CASE Contains(v)
    <3>1. /\ \A i \in DOMAIN heap : /\ heap[i] \in Entry /\ heap[i].var \in Vars
                                  /\ heap[i].act = activity[heap[i].var] /\ pos[heap[i].var] = i
          /\ pos[v] \in DOMAIN heap /\ heap[pos[v]].var = v
      BY <1>1, <2>1, StillFacts
    <3> PICK k \in DOMAIN heap : k = pos[v] /\ heap[k].var = v
      BY <3>1
    <3> PICK e \in Entry : e = [act |-> 0, var |-> v]
      BY DEF Entry
    <3>2. [heap[k] EXCEPT !.act = 0] = e
      BY <3>1 DEF Entry
    <3>3. heap' = [heap EXCEPT ![k] = e] /\ pos' = pos /\ sift' = Nowhere
      BY <1>1, <2>1, <3>2 DEF NewVar, Still
    <3>4. /\ heap' \in Seq(Entry) /\ DOMAIN heap' = DOMAIN heap
          /\ \A i \in DOMAIN heap : heap'[i] = IF i = k THEN e ELSE heap[i]
      BY <3>3, Replaced DEF IInv, TypeOK
    <3>5. \A i \in DOMAIN heap : heap'[i].var = heap[i].var /\ heap'[i].act = act[heap[i].var]
      BY <1>2, <3>1, <3>4
    <3>6. HeapRight' /\ \A u \in Vars : Contains(u)' <=> Contains(u)
      BY <1>1, <3>3, <3>4, <3>5, RecopiedStep
    <3> QED
      BY <2>1, <3>6
  <2>2. CASE ~Contains(v)
    <3>1. Inserted(v, act)
      BY <2>2 DEF NewVar
    <3> QED
      BY <1>1, <1>2, <2>2, <3>1, InsertedStep
  <2> QED
    BY <2>1, <2>2
<1>4. UndecidedQueued'
  BY <1>1, <1>3 DEF IInv, UndecidedQueued, Eligible
<1> QED
  BY <1>1, <1>3, <1>4, Whole DEF IInv, TypeOK

--------------------------------------------------------------------------------
\* A step that changes neither heap nor activities and makes nothing decidable.
LEMMA KeptStep ==
    ASSUME IInv, UNCHANGED <<heapVars, activity, recycled>>,
           decision' \subseteq decision, assigned \subseteq assigned', assigned' \subseteq Vars,
           free' \subseteq Vars, picking' \in {"no", "pick", "peek"}
    PROVE  IInv'
<1>1. HeapRight' /\ \A u \in Vars : Contains(u)' <=> Contains(u)
  BY HeapKept
<1>2. UndecidedQueued'
  BY <1>1 DEF IInv, UndecidedQueued, Eligible
<1> QED
  BY <1>1, <1>2, Whole DEF IInv, TypeOK

LEMMA NextIInv == IInv /\ [Next]_vars => IInv'
<1> SUFFICES ASSUME IInv, [Next]_vars
             PROVE  IInv'
  OBVIOUS
<1>0. decision \subseteq Vars /\ assigned \subseteq Vars /\ free \subseteq Vars
      /\ picking \in {"no", "pick", "peek"}
  BY DEF IInv, TypeOK
<1>1. CASE SiftUp
  BY <1>1, SiftUpStep
<1>2. CASE SiftDown
  BY <1>2, SiftDownStep
<1>3. CASE Start("pick") \/ Start("peek") \/ PeekDone
  BY <1>0, <1>3, KeptStep DEF Start, PeekDone
<1>4. CASE Pick
  BY <1>4, PickStep
<1>5. CASE PeekStale
  BY <1>5, PeekStep
<1>6. ASSUME NEW v \in Vars, Assign(v)
      PROVE  IInv'
  BY <1>0, <1>6, KeptStep DEF Assign
<1>7. ASSUME NEW v \in Vars, Unassign(v) \/ Bump(v) \/ NewVar(v)
      PROVE  IInv'
  BY <1>7, UnassignStep, BumpStep, NewVarStep
<1>8. ASSUME NEW v \in Optional, Purge(v)
      PROVE  IInv'
  <2>1. v \in Vars
    BY HeapAssumption
  <2>2. /\ UNCHANGED <<heapVars, activity, recycled, assigned, picking>>
        /\ decision' \subseteq decision /\ free' \subseteq Vars
    BY <1>0, <1>8, <2>1 DEF Purge
  <2> QED
    BY <1>0, <2>2, KeptStep
<1>9. ASSUME NEW v \in Optional, SetDecision(v, TRUE) \/ SetDecision(v, FALSE)
      PROVE  IInv'
  BY <1>9, SetDecisionStep, HeapAssumption
<1>10. CASE UNCHANGED vars
  BY <1>0, <1>10, KeptStep DEF vars, searchVars
<1> QED
  BY <1>1, <1>2, <1>3, <1>4, <1>5, <1>6, <1>7, <1>8, <1>9, <1>10 DEF Next

LEMMA SpecIInv == Spec => []IInv
BY InitIInv, NextIInv, PTL DEF Spec

\* The state of the heap has its types in every reachable state, for any number
\* of variables: the hole of a sift lies in the heap.
THEOREM HeapTyped == Spec => []TypeOK
BY SpecIInv, PTL DEF IInv

\* Heap and index agree, also half-way through a sift, whatever is popped, bumped,
\* purged and made again (OrderHeap).
THEOREM HeapIndexSound == Spec => []HeapIndexed
BY SpecIInv, PTL DEF IInv

\* Nothing that can be decided is missing from the heap, so that an empty heap is a
\* complete assignment (pick_branch_lit, cancel_until, set_decision_var).
THEOREM NothingUnqueued == Spec => []UndecidedQueued
BY SpecIInv, PTL DEF IInv

\* The activities in the heap are those of the variables (decrease, refresh_all).
THEOREM CopiesSound == Spec => []CopiesExact
BY SpecIInv, PTL DEF IInv

--------------------------------------------------------------------------------
(***************************************************************************)
(* The order of the heap.  While an entry sinks or rises, the rest of the   *)
(* heap is ordered around it.                                               *)
(***************************************************************************)
\* The activities a at the places 1..n are ordered but for the entry held at k:
\* one that rises may exceed its parent, one that sinks its children, and the
\* children are no greater than what is above k.
Heaped(a, n, dir, k) ==
    \A i \in 2..n :
        /\ (dir = "up" => i # k) /\ (dir = "down" => Parent(i) # k) => a[i] <= a[Parent(i)]
        /\ dir # "none" /\ Parent(i) = k /\ k > 1 => a[i] <= a[Parent(k)]

\* A parent is at an earlier place.
LEMMA ParentFacts ==
    ASSUME NEW n \in Nat, NEW i \in 2..n
    PROVE  /\ Parent(i) \in 1..(i - 1) /\ Parent(i) \in 1..n
           /\ Parent(i) \in Nat /\ Parent(i) < i /\ i \in 1..n /\ i \in Nat
BY DEF Parent

\* sift_up: the parent comes down into the hole.
LEMMA RisesOrdered ==
    ASSUME NEW n \in Nat, NEW a \in [1..n -> Nat], NEW k \in 2..n, Heaped(a, n, "up", k),
           a[Parent(k)] < a[k], NEW b \in [1..n -> Nat],
           b[k] = a[Parent(k)], b[Parent(k)] = a[k],
           \A j \in 1..n : j # k /\ j # Parent(k) => b[j] = a[j]
    PROVE  Heaped(b, n, "up", Parent(k))
<1> PICK p : p = Parent(k)
  OBVIOUS
<1>1. p \in 1..(k - 1) /\ p \in Nat /\ p < k /\ p <= n
  BY ParentFacts
<1>0. /\ b[k] = a[p] /\ b[p] = a[k] /\ a[p] < a[k]
      /\ \A j \in 1..n : j # k /\ j # p => b[j] = a[j]
      /\ \A j \in 1..n : a[j] \in Nat
  OBVIOUS
<1> SUFFICES ASSUME NEW i \in 2..n
             PROVE  /\ i # p => b[i] <= b[Parent(i)]
                    /\ Parent(i) = p /\ p > 1 => b[i] <= b[Parent(p)]
  BY DEF Heaped
<1> PICK q : q = Parent(i)
  OBVIOUS
<1>2. q \in 1..(i - 1) /\ q \in Nat /\ q < i /\ q <= n
  BY ParentFacts
<1>3. /\ i # k => a[i] <= a[q]
      /\ q = k => a[i] <= a[p]
  BY <1>1, SMTT(20) DEF Heaped
<1>4. i # p => b[i] <= b[q]
  <2>1. CASE i = k
    BY <1>0, <1>1, <2>1
  <2>2. CASE i # k /\ q = k /\ i # p
    BY <1>0, <1>1, <1>2, <1>3, <2>2
  <2>3. CASE i # k /\ q = p /\ i # p
    BY <1>0, <1>1, <1>2, <1>3, <2>3
  <2>4. CASE i # k /\ q # p /\ q # k /\ i # p
    <3>1. i \in 1..n /\ q \in 1..n
      BY <1>2
    <3>2. b[i] = a[i] /\ b[q] = a[q] /\ a[i] <= a[q]
      BY <1>0, <1>3, <2>4, <3>1
    <3> QED
      BY <3>2
  <2> QED
    BY <2>1, <2>2, <2>3, <2>4
<1>5. q = p /\ p > 1 => b[i] <= b[Parent(p)]
  <2> SUFFICES ASSUME q = p, p > 1
               PROVE  b[i] <= b[Parent(p)]
    OBVIOUS
  <2> PICK g : g = Parent(p)
    OBVIOUS
  <2>1. g \in 1..(p - 1) /\ a[p] <= a[g]
    BY <1>0, <1>1, ParentFacts DEF Heaped
  <2>1a. g \in 1..n /\ g # k /\ g # p
    BY <1>1, <2>1, SMTT(20)
  <2>2. b[g] = a[g]
    BY <1>0, <2>1a
  <2>3. CASE i = k
    BY <1>0, <2>1, <2>1a, <2>2, <2>3
  <2>4. CASE i # k
    <3>1. i \in 1..n /\ i # p /\ p \in 1..n
      BY <1>1, <1>2
    <3>2. b[i] = a[i] /\ a[i] <= a[p]
      BY <1>0, <1>3, <2>4, <3>1
    <3>3. a[i] \in Nat /\ a[p] \in Nat /\ a[g] \in Nat
      BY <2>1a, <3>1
    <3> QED
      BY <2>1, <2>2, <3>2, <3>3
  <2> QED
    BY <2>3, <2>4
<1> QED
  BY <1>4, <1>5

\* sift_up ends below a parent that is no smaller, or at the root.
LEMMA RisenOrdered ==
    ASSUME NEW n \in Nat, NEW a \in [1..n -> Nat], NEW k \in 1..n, Heaped(a, n, "up", k),
           k = 1 \/ a[k] <= a[Parent(k)], NEW j
    PROVE  Heaped(a, n, "none", j)
BY DEF Heaped

\* sift_down: the greater child comes up into the hole.
LEMMA SinksOrdered ==
    ASSUME NEW n \in Nat, NEW a \in [1..n -> Nat], NEW k \in 1..n, Heaped(a, n, "down", k),
           NEW c \in 2..n, Parent(c) = k, a[k] < a[c],
           \A i \in 2..n : Parent(i) = k => a[i] <= a[c],
           NEW b \in [1..n -> Nat], b[k] = a[c], b[c] = a[k],
           \A j \in 1..n : j # k /\ j # c => b[j] = a[j]
    PROVE  Heaped(b, n, "down", c)
<1>1. k < c /\ k \in Nat /\ c \in Nat
  BY ParentFacts
<1> SUFFICES ASSUME NEW i \in 2..n
             PROVE  /\ Parent(i) # c => b[i] <= b[Parent(i)]
                    /\ Parent(i) = c => b[i] <= b[k]
  BY DEF Heaped
<1> PICK q : q = Parent(i)
  OBVIOUS
<1>2. q \in 1..(i - 1) /\ q \in Nat /\ q < i /\ q <= n
  BY ParentFacts
<1>3. /\ q # k => a[i] <= a[q]
      /\ q = k /\ k > 1 => a[i] <= a[Parent(k)]
      /\ q = k => a[i] <= a[c]
  BY DEF Heaped
<1>4. q # c => b[i] <= b[q]
  <2>1. CASE q = k
    BY <1>1, <1>2, <1>3, <2>1
  <2>2. CASE i = k /\ q # c
    <3>1. k > 1 /\ a[c] <= a[Parent(k)]
      BY <2>2 DEF Heaped
    <3> QED
      BY <1>1, <1>2, <2>2, <3>1
  <2>3. CASE q # k /\ i # k /\ q # c
    BY <1>1, <1>2, <1>3, <2>3, SMTT(20)
  <2> QED
    BY <2>1, <2>2, <2>3
<1>5. q = c => b[i] <= b[k]
  BY <1>1, <1>2, <1>3
<1> QED
  BY <1>4, <1>5

\* sift_down ends above children that are no greater.
LEMMA SunkOrdered ==
    ASSUME NEW n \in Nat, NEW a \in [1..n -> Nat], NEW k \in 1..n, Heaped(a, n, "down", k),
           \A i \in 2..n : Parent(i) = k => a[i] <= a[k], NEW j
    PROVE  Heaped(a, n, "none", j)
BY DEF Heaped

\* insert: a new last entry is held where it is.
LEMMA PushedOrdered ==
    ASSUME NEW n \in Nat, NEW a \in [1..n -> Nat], NEW b \in [1..(n + 1) -> Nat], NEW j,
           Heaped(a, n, "none", j), \A i \in 1..n : b[i] = a[i]
    PROVE  Heaped(b, n + 1, "up", n + 1)
<1> SUFFICES ASSUME NEW i \in 2..(n + 1)
             PROVE  /\ i # n + 1 => b[i] <= b[Parent(i)]
                    /\ Parent(i) # n + 1
  BY DEF Heaped
<1>1. Parent(i) \in 1..(i - 1)
  BY ParentFacts
<1>2. i # n + 1 => a[i] <= a[Parent(i)]
  BY DEF Heaped
<1> QED
  BY <1>1, <1>2

\* pop: the last entry is held over the root.
LEMMA PoppedOrdered ==
    ASSUME NEW n \in Nat, NEW a \in [1..(n + 1) -> Nat], NEW b \in [1..n -> Nat], NEW j,
           Heaped(a, n + 1, "none", j), \A i \in 2..n : b[i] = a[i]
    PROVE  Heaped(b, n, "down", 1)
<1> SUFFICES ASSUME NEW i \in 2..n, Parent(i) # 1
             PROVE  b[i] <= b[Parent(i)]
  BY DEF Heaped
<1>1. Parent(i) \in 1..(i - 1)
  BY ParentFacts
<1>2. a[i] <= a[Parent(i)]
  BY DEF Heaped
<1> QED
  BY <1>1, <1>2

\* decrease: one entry grows and is held where it is.
LEMMA GrownOrdered ==
    ASSUME NEW n \in Nat, NEW a \in [1..n -> Nat], NEW b \in [1..n -> Nat], NEW j,
           Heaped(a, n, "none", j), NEW k \in 1..n, a[k] <= b[k],
           \A i \in 1..n : i # k => b[i] = a[i]
    PROVE  Heaped(b, n, "up", k)
<1> SUFFICES ASSUME NEW i \in 2..n
             PROVE  /\ i # k => b[i] <= b[Parent(i)]
                    /\ Parent(i) = k /\ k > 1 => b[i] <= b[Parent(k)]
  BY DEF Heaped
<1>1. Parent(i) \in 1..(i - 1) /\ a[i] <= a[Parent(i)]
  BY ParentFacts DEF Heaped
<1>2. i # k => b[i] <= b[Parent(i)]
  BY <1>1, SMTT(20)
<1>3. Parent(i) = k /\ k > 1 => b[i] <= b[Parent(k)]
  <2>1. k > 1 => Parent(k) \in 1..(k - 1) /\ a[k] <= a[Parent(k)]
    BY ParentFacts DEF Heaped
  <2> QED
    BY <1>1, <2>1
<1> QED
  BY <1>2, <1>3

\* refresh_all: what scales every activity keeps their order.
LEMMA ScaledOrdered ==
    ASSUME NEW n \in Nat, NEW a \in [1..n -> Nat], NEW b \in [1..n -> Nat], NEW dir, NEW k \in Nat,
           Heaped(a, n, dir, k), \A i, j \in 1..n : a[i] <= a[j] => b[i] <= b[j]
    PROVE  Heaped(b, n, dir, k)
<1> SUFFICES ASSUME NEW i \in 2..n
             PROVE  /\ (dir = "up" => i # k) /\ (dir = "down" => Parent(i) # k)
                       => b[i] <= b[Parent(i)]
                    /\ dir # "none" /\ Parent(i) = k /\ k > 1 => b[i] <= b[Parent(k)]
  BY DEF Heaped
<1>1. Parent(i) \in 1..n /\ (k > 1 /\ Parent(i) = k => Parent(k) \in 1..n)
  <2>1. Parent(i) \in 1..(i - 1)
    BY ParentFacts
  <2>2. k > 1 => Parent(k) \in 1..(k - 1)
    BY ParentFacts
  <2> QED
    BY <2>1, <2>2, SMTT(20)
<1> QED
  BY <1>1 DEF Heaped

\* Nothing in an ordered heap exceeds its root: the first place that did would
\* have a parent that does.
LEMMA RootIsGreatest ==
    ASSUME NEW n \in Nat, NEW a \in [1..n -> Nat], NEW j, Heaped(a, n, "none", j), NEW m \in 1..n
    PROVE  a[m] <= a[1]
<1> DEFINE T == {i \in 1..n : ~(a[i] <= a[1])}
<1> SUFFICES ASSUME m \in T
             PROVE  FALSE
  OBVIOUS
<1>1. T \subseteq Nat /\ T # {}
  OBVIOUS
<1> HIDE DEF T
<1>2. PICK x \in T : \A y \in T : ~(<<y, x>> \in OpToRel(<, Nat))
  BY <1>1, WFMin, NatLessThanWellFounded
<1> USE DEF T
<1>3. x \in 2..n
  OBVIOUS
<1>3a. a[x] <= a[Parent(x)] /\ Parent(x) \in 1..n /\ Parent(x) < x /\ Parent(x) \in Nat /\ x \in Nat
  BY <1>3, ParentFacts DEF Heaped
<1>4. Parent(x) \in T
  BY <1>3a
<1> QED
  BY <1>2, <1>3a, <1>4 DEF OpToRel

\* The activities as the heap has them, the entry that is held out included.
Acts == [i \in 1..Len(heap) |-> EntryAt(i).act]

Ordered == Heaped(Acts, Len(heap), sift.dir, sift.at)

\* A heap and its order, read off a state.
Read(a, n, dir, k) ==
    /\ n \in Nat /\ a \in [1..n -> Nat]
    /\ n = Len(heap) /\ dir = sift.dir /\ k = sift.at /\ DOMAIN heap = 1..n
    /\ \A i \in 1..n : a[i] = EntryAt(i).act
    /\ Ordered <=> Heaped(a, n, dir, k)

Readable == \E a, n, dir, k : Read(a, n, dir, k)

LEMMA HeapReads == IInv => Readable
<1> SUFFICES ASSUME IInv
             PROVE  Readable
  OBVIOUS
<1>1. Len(heap) \in Nat /\ DOMAIN heap = 1..Len(heap) /\ \A i \in 1..Len(heap) : EntryAt(i).act \in Nat
  BY HeapFacts DEF IInv
<1>2. Acts \in [1..Len(heap) -> Nat] /\ \A i \in 1..Len(heap) : Acts[i] = EntryAt(i).act
  BY <1>1 DEF Acts
<1>3. Read(Acts, Len(heap), sift.dir, sift.at)
  BY <1>1, <1>2 DEF Read, Ordered
<1> QED
  BY <1>3 DEF Readable

\* The hole and its neighbour trade their entries.
LEMMA MovedReads ==
    ASSUME IInv, IInv', sift.dir # "none", NEW p \in DOMAIN heap, p # sift.at, Moved(p),
           NEW a, NEW n, NEW dir, NEW k, Read(a, n, dir, k)
    PROVE  \E b : /\ Read(b, n, dir, p)' /\ b \in [1..n -> Nat] /\ b[k] = a[p] /\ b[p] = a[k]
                  /\ \A j \in 1..n : j # k /\ j # p => b[j] = a[j]
<1>1. /\ n \in Nat /\ a \in [1..n -> Nat] /\ n = Len(heap) /\ dir = sift.dir /\ k = sift.at
      /\ DOMAIN heap = 1..n /\ \A i \in 1..n : a[i] = EntryAt(i).act
  BY DEF Read
<1>2. /\ heap \in Seq(Entry) /\ k \in 1..n /\ p \in 1..n /\ p # k /\ dir # "none"
      /\ heap[p] \in Entry
  BY <1>1, HeapFacts DEF IInv, TypeOK
<1>3. PICK h, e : h = heap' /\ e = sift.entry
  OBVIOUS
<1>4. h = [heap EXCEPT ![k] = heap[p]] /\ sift' = Holding(dir, p, e)
  BY <1>1, <1>3 DEF Moved
<1>5. Len(h) = n /\ \A j \in 1..n : h[j] = IF j = k THEN heap[p] ELSE heap[j]
  BY <1>1, <1>2, <1>4, Replaced
<1>6. sift'.dir = dir /\ sift'.at = p /\ sift'.entry = e
  BY <1>4 DEF Holding
<1>7. \A j \in 1..n : EntryAt(j)' = IF j = p THEN e ELSE h[j]
  BY <1>2, <1>3, <1>6 DEF EntryAt
<1>8. \A j \in 1..n : EntryAt(j) = IF j = k THEN e ELSE heap[j]
  BY <1>1, <1>2, <1>3 DEF EntryAt
<1>9. PICK b, m, d, q : Read(b, m, d, q)'
  <2>1. IInv' => Readable'
    BY HeapReads, PTL
  <2> QED
    BY <2>1 DEF Readable
<1>10. m = n /\ d = dir /\ q = p /\ b \in [1..n -> Nat] /\ \A i \in 1..n : b[i] = EntryAt(i)'.act
  BY <1>3, <1>5, <1>6, <1>9 DEF Read
<1>11. b[k] = a[p] /\ b[p] = a[k]
  <2>1. EntryAt(k)' = heap[p] /\ EntryAt(p)' = e
    BY <1>2, <1>5, <1>7
  <2>2. EntryAt(k) = e /\ EntryAt(p) = heap[p]
    BY <1>2, <1>8
  <2>3. b[k] = EntryAt(k)'.act /\ b[p] = EntryAt(p)'.act
    BY <1>2, <1>10
  <2>4. a[k] = EntryAt(k).act /\ a[p] = EntryAt(p).act
    BY <1>1, <1>2
  <2> QED
    BY <2>1, <2>2, <2>3, <2>4
<1>12. ASSUME NEW j \in 1..n, j # k, j # p
       PROVE  b[j] = a[j]
  BY <1>1, <1>5, <1>7, <1>8, <1>10, <1>12
<1> QED
  BY <1>9, <1>10, <1>11, <1>12

\* The entry that was held out stays where the hole was.
LEMMA SettledReads ==
    ASSUME IInv, IInv', sift.dir # "none", Settled,
           NEW a, NEW n, NEW dir, NEW k, Read(a, n, dir, k)
    PROVE  \E j : Read(a, n, "none", j)'
<1>1. /\ n \in Nat /\ a \in [1..n -> Nat] /\ n = Len(heap) /\ dir = sift.dir /\ k = sift.at
      /\ DOMAIN heap = 1..n /\ \A i \in 1..n : a[i] = EntryAt(i).act
  BY DEF Read
<1>2. heap \in Seq(Entry) /\ k \in 1..n /\ sift.entry \in Entry
  BY <1>1, HeapFacts DEF IInv, TypeOK
<1>3. PICK h, e : h = heap' /\ e = sift.entry
  OBVIOUS
<1>4. h = [heap EXCEPT ![k] = e] /\ sift' = Nowhere
  BY <1>1, <1>3 DEF Settled
<1>5. Len(h) = n /\ \A j \in 1..n : h[j] = IF j = k THEN e ELSE heap[j]
  BY <1>1, <1>2, <1>3, <1>4, Replaced
<1>6. \A j \in 1..n : EntryAt(j)' = h[j]
  BY <1>3, <1>4 DEF EntryAt, Nowhere
<1>7. \A j \in 1..n : EntryAt(j) = IF j = k THEN e ELSE heap[j]
  BY <1>1, <1>3 DEF EntryAt
<1>8. PICK b, m, d, q : Read(b, m, d, q)'
  <2>1. IInv' => Readable'
    BY HeapReads, PTL
  <2> QED
    BY <2>1 DEF Readable
<1>9. m = n /\ d = "none" /\ b \in [1..n -> Nat] /\ \A i \in 1..n : b[i] = EntryAt(i)'.act
  BY <1>3, <1>4, <1>5, <1>8 DEF Read, Nowhere
<1>10. \A i \in 1..n : b[i] = a[i]
  BY <1>1, <1>5, <1>6, <1>7, <1>9
<1>11. b = a
  BY <1>1, <1>9, <1>10
<1> QED
  BY <1>8, <1>9, <1>11

LEMMA SiftUpOrdered ==
    ASSUME IInv, IInv', Ordered, SiftUp
    PROVE  Ordered'
<1>1. PICK a, n, dir, k : Read(a, n, dir, k)
  BY HeapReads DEF Readable
<1>2. /\ n \in Nat /\ a \in [1..n -> Nat] /\ n = Len(heap) /\ dir = sift.dir /\ k = sift.at
      /\ DOMAIN heap = 1..n /\ Heaped(a, n, dir, k) /\ \A i \in 1..n : a[i] = EntryAt(i).act
  BY <1>1 DEF Read
<1>3. dir = "up" /\ sift.dir # "none" /\ k \in 1..n
  BY <1>2, HeapFacts DEF SiftUp, IInv
<1>4. EntryAt(k) = sift.entry /\ a[k] = sift.entry.act
  BY <1>2, <1>3 DEF EntryAt
<1>5. CASE k > 1 /\ heap[Parent(k)].act < sift.entry.act
  <2>1. PICK p : p = Parent(k) /\ p \in 1..n /\ p < k
    BY <1>2, <1>3, <1>5, ParentFacts
  <2>2. Moved(p) /\ p # sift.at /\ a[p] < a[k]
    BY <1>2, <1>3, <1>4, <1>5, <2>1 DEF SiftUp, EntryAt
  <2>3. PICK b : /\ Read(b, n, dir, p)' /\ b \in [1..n -> Nat] /\ b[k] = a[p] /\ b[p] = a[k]
                 /\ \A j \in 1..n : j # k /\ j # p => b[j] = a[j]
    BY <1>1, <1>2, <1>3, <2>1, <2>2, MovedReads, SMTT(20)
  <2>4. Heaped(b, n, "up", p)
    <3>1. k \in 2..n
      BY <1>2, <1>3, <1>5
    <3> QED
      BY <1>2, <1>3, <2>1, <2>2, <2>3, <3>1, RisesOrdered
  <2> QED
    BY <1>3, <2>3, <2>4 DEF Read
<1>6. CASE ~(k > 1 /\ heap[Parent(k)].act < sift.entry.act)
  <2>1. Settled
    BY <1>2, <1>6 DEF SiftUp
  <2>2. PICK j : Read(a, n, "none", j)'
    BY <1>1, <1>3, <2>1, <1>2, SettledReads
  <2>3. k = 1 \/ a[k] <= a[Parent(k)]
    <3> SUFFICES ASSUME k # 1
                 PROVE  a[k] <= a[Parent(k)]
      OBVIOUS
    <3>1. k \in 2..n
      BY <1>2, <1>3
    <3>2. PICK p : p = Parent(k) /\ p \in 1..n /\ p < k
      BY <1>2, <3>1, ParentFacts
    <3>3. a[p] = heap[p].act /\ ~(a[p] < a[k])
      BY <1>2, <1>3, <1>4, <1>6, <3>1, <3>2 DEF EntryAt
    <3> QED
      BY <1>2, <1>3, <3>2, <3>3
  <2>4. Heaped(a, n, "none", j)
    BY <1>2, <1>3, <2>3, RisenOrdered
  <2> QED
    BY <2>2, <2>4 DEF Read
<1> QED
  BY <1>5, <1>6

\* The children of a place, and the one Child chooses.
LEMMA ChildFacts ==
    ASSUME NEW n \in Nat, NEW k \in 1..n, 2 * k <= n
    PROVE  /\ 2 * k \in 2..n /\ Parent(2 * k) = k
           /\ 2 * k + 1 <= n => 2 * k + 1 \in 2..n /\ Parent(2 * k + 1) = k
BY DEF Parent

LEMMA ChildrenOnly ==
    ASSUME NEW n \in Nat, NEW k \in 1..n, NEW i \in 2..n, Parent(i) = k
    PROVE  2 * k <= n /\ (i = 2 * k \/ i = 2 * k + 1)
BY DEF Parent

LEMMA SiftDownOrdered ==
    ASSUME IInv, IInv', Ordered, SiftDown
    PROVE  Ordered'
<1>1. PICK a, n, dir, k : Read(a, n, dir, k)
  BY HeapReads DEF Readable
<1>2. /\ n \in Nat /\ a \in [1..n -> Nat] /\ n = Len(heap) /\ dir = sift.dir /\ k = sift.at
      /\ DOMAIN heap = 1..n /\ Heaped(a, n, dir, k) /\ \A i \in 1..n : a[i] = EntryAt(i).act
  BY <1>1 DEF Read
<1>3. dir = "down" /\ sift.dir # "none" /\ k \in 1..n
  BY <1>2, HeapFacts DEF SiftDown, IInv
<1>3a. n \in Nat /\ k \in Nat /\ k >= 1
  BY <1>2, <1>3
<1>4. a[k] = sift.entry.act /\ \A i \in 1..n : i # k => a[i] = heap[i].act
  BY <1>2, <1>3 DEF EntryAt
<1>5. PICK c : c = Child(k)
  OBVIOUS
<1>6. 2 * k <= n => /\ c \in 2..n /\ Parent(c) = k /\ c # k
                    /\ \A i \in 2..n : Parent(i) = k => a[i] <= a[c]
  <2> SUFFICES ASSUME 2 * k <= n
               PROVE  /\ c \in 2..n /\ Parent(c) = k /\ c # k
                      /\ \A i \in 2..n : Parent(i) = k => a[i] <= a[c]
    OBVIOUS
  <2> PICK l : l = 2 * k
    OBVIOUS
  <2>1. /\ l \in 2..n /\ Parent(l) = k /\ l > k
        /\ l + 1 <= n => l + 1 \in 2..n /\ Parent(l + 1) = k /\ l + 1 > k
    <3>1. \A m \in Nat : 2 * m \in Nat /\ (m >= 1 => 2 * m > m /\ 2 * m + 1 > m)
      OBVIOUS
    <3>2. /\ 2 * k \in 2..n /\ Parent(2 * k) = k
          /\ 2 * k + 1 <= n => 2 * k + 1 \in 2..n /\ Parent(2 * k + 1) = k
      BY <1>3, <1>3a, ChildFacts
    <3> QED
      BY <1>3a, <3>1, <3>2
  <2>2. \A i \in 2..n : Parent(i) = k => i = l \/ i = l + 1
    BY <1>3, <1>3a, ChildrenOnly
  <2>3. c = IF l + 1 <= n /\ heap[l + 1].act > heap[l].act THEN l + 1 ELSE l
    BY <1>2, <1>5 DEF Child
  <2>4. /\ heap[l].act = a[l] /\ a[l] \in Nat
        /\ l + 1 <= n => heap[l + 1].act = a[l + 1] /\ a[l + 1] \in Nat
    <3>1. l \in 1..n /\ l # k /\ (l + 1 <= n => l + 1 \in 1..n /\ l + 1 # k)
      BY <1>2, <1>3, <2>1
    <3> QED
      BY <1>2, <1>4, <3>1
  <2>5. c \in 2..n /\ Parent(c) = k /\ c # k
    BY <1>3, <2>1, <2>3
  <2>6. a[l] <= a[c] /\ (l + 1 <= n => a[l + 1] <= a[c])
    BY <2>3, <2>4
  <2> QED
    BY <1>2, <2>2, <2>5, <2>6
<1>7. CASE 2 * k <= n /\ heap[c].act > sift.entry.act
  <2>1. c \in DOMAIN heap /\ c # sift.at /\ Moved(c) /\ a[k] < a[c]
    <3>1. c \in 1..n /\ a[c] = heap[c].act
      BY <1>2, <1>4, <1>6, <1>7
    <3>2. Moved(c)
      BY <1>2, <1>5, <1>7 DEF SiftDown
    <3>3. a[c] \in Nat /\ a[k] \in Nat
      BY <1>2, <1>3, <3>1
    <3> QED
      BY <1>2, <1>4, <1>6, <1>7, <3>1, <3>2, <3>3
  <2>2. PICK b : /\ Read(b, n, dir, c)' /\ b \in [1..n -> Nat] /\ b[k] = a[c] /\ b[c] = a[k]
                 /\ \A j \in 1..n : j # k /\ j # c => b[j] = a[j]
    BY <1>1, <1>3, <2>1, MovedReads
  <2>3. Heaped(b, n, "down", c)
    <3>1. c \in 2..n /\ Parent(c) = k /\ \A i \in 2..n : Parent(i) = k => a[i] <= a[c]
      BY <1>6, <1>7
    <3>2. Heaped(a, n, "down", k) /\ a \in [1..n -> Nat]
      BY <1>2, <1>3
    <3> QED
      BY <1>3, <1>3a, <2>1, <2>2, <3>1, <3>2, SinksOrdered
  <2> QED
    BY <1>3, <2>2, <2>3 DEF Read
<1>8. CASE ~(2 * k <= n /\ heap[c].act > sift.entry.act)
  <2>1. Settled
    BY <1>2, <1>5, <1>8 DEF SiftDown
  <2>2. PICK j : Read(a, n, "none", j)'
    BY <1>1, <1>3, <2>1, <1>2, SettledReads
  <2>3. ASSUME NEW i \in 2..n, Parent(i) = k
        PROVE  a[i] <= a[k]
    <3>1. 2 * k <= n
      BY <1>3, <1>3a, <2>3, ChildrenOnly
    <3>2. c \in 1..n /\ a[i] <= a[c] /\ ~(a[c] > a[k])
      BY <1>2, <1>4, <1>6, <1>8, <2>3, <3>1
    <3>3. i \in 1..n /\ a[i] \in Nat /\ a[c] \in Nat /\ a[k] \in Nat
      BY <1>2, <1>3, <3>2
    <3> QED
      BY <3>2, <3>3
  <2>4. Heaped(a, n, "none", j)
    BY <1>2, <1>3, <2>3, SunkOrdered
  <2> QED
    BY <2>2, <2>4 DEF Read
<1> QED
  BY <1>7, <1>8

\* insert: the new entry is held at the end.
LEMMA InsertedOrdered ==
    ASSUME IInv, IInv', Ordered, Still, NEW v \in Vars, NEW act \in [Vars -> Nat], Inserted(v, act)
    PROVE  Ordered'
<1>1. CASE Contains(v)
  BY <1>1 DEF Inserted, heapVars, Ordered, Acts, EntryAt
<1>2. CASE ~Contains(v)
  <2>1. PICK a, n, dir, k : Read(a, n, dir, k)
    BY HeapReads DEF Readable
  <2>2. /\ n \in Nat /\ a \in [1..n -> Nat] /\ n = Len(heap) /\ dir = "none" /\ DOMAIN heap = 1..n
        /\ Heaped(a, n, "none", k) /\ \A i \in 1..n : a[i] = heap[i].act
    BY <2>1 DEF Read, Still, Nowhere, EntryAt
  <2>3. PICK h, e : h = heap' /\ e = [act |-> act[v], var |-> v] /\ e \in Entry
    <3>1. [act |-> act[v], var |-> v] \in Entry
      BY DEF Entry
    <3> QED
      BY <3>1
  <2>4. h = Append(heap, e) /\ sift' = Holding("up", n + 1, e)
    BY <1>2, <2>2, <2>3 DEF Inserted
  <2>5. Len(h) = n + 1 /\ \A i \in 1..n : h[i] = heap[i]
    BY <2>2, <2>3, <2>4 DEF IInv, TypeOK
  <2>6. PICK b, m, d, q : Read(b, m, d, q)'
    <3>1. IInv' => Readable'
      BY HeapReads, PTL
    <3> QED
      BY <3>1 DEF Readable
  <2>7. m = n + 1 /\ d = "up" /\ q = n + 1 /\ b \in [1..m -> Nat] /\ \A i \in 1..m : b[i] = EntryAt(i)'.act
    BY <2>3, <2>4, <2>5, <2>6 DEF Read, Holding
  <2>8. ASSUME NEW i \in 1..n
        PROVE  b[i] = a[i]
    <3>1. i # n + 1 /\ i \in 1..m
      BY <2>2, <2>7
    <3>2. EntryAt(i)' = h[i]
      BY <2>3, <2>4, <3>1 DEF EntryAt, Holding
    <3> QED
      BY <2>2, <2>5, <2>7, <3>1, <3>2
  <2>9. Heaped(b, n + 1, "up", n + 1)
    BY <2>2, <2>7, <2>8, PushedOrdered
  <2> QED
    BY <2>6, <2>7, <2>9 DEF Read
<1> QED
  BY <1>1, <1>2

\* pop: the last entry is held over the root.
LEMMA PoppedOrder ==
    ASSUME IInv, IInv', Ordered, Still, heap # <<>>, Popped
    PROVE  Ordered'
<1>1. PICK a, n, dir, k : Read(a, n, dir, k)
  BY HeapReads DEF Readable
<1>2. /\ n \in Nat /\ a \in [1..n -> Nat] /\ n = Len(heap) /\ dir = "none" /\ DOMAIN heap = 1..n
      /\ Heaped(a, n, "none", k) /\ \A i \in 1..n : a[i] = heap[i].act
  BY <1>1 DEF Read, Still, Nowhere, EntryAt
<1>3. PICK b, m, d, q : Read(b, m, d, q)'
  <2>1. IInv' => Readable'
    BY HeapReads, PTL
  <2> QED
    BY <2>1 DEF Readable
<1>4. heap \in Seq(Entry) /\ n # 0
  BY <1>2, EmptySeq DEF IInv, TypeOK
<1>5. CASE n = 1
  <2>1. heap' = <<>> /\ sift' = Nowhere
    BY <1>2, <1>5 DEF Popped
  <2>2. m = 0
    BY <1>3, <2>1 DEF Read
  <2>3. Heaped(b, m, d, q)
    BY <2>2 DEF Heaped
  <2> QED
    BY <1>3, <2>3 DEF Read
<1>6. CASE n # 1
  <2>1. PICK h, e, r, l : /\ h = heap' /\ e = heap[n] /\ l = n - 1 /\ r = SubSeq(heap, 1, l)
                          /\ l \in Nat /\ l >= 1 /\ n = l + 1
    <3>1. n - 1 \in Nat /\ n - 1 >= 1 /\ n = (n - 1) + 1
      BY <1>2, <1>4, <1>6
    <3> QED
      BY <3>1
  <2>2. h = [r EXCEPT ![1] = e] /\ sift' = Holding("down", 1, e)
    BY <1>2, <1>6, <2>1 DEF Popped
  <2>3. r \in Seq(Entry) /\ Len(r) = l /\ \A i \in 1..l : r[i] = heap[i]
    BY <1>2, <1>4, <2>1, SubSeqProperties
  <2>4. e \in Entry /\ DOMAIN r = 1..l /\ 1 \in DOMAIN r
    <3>1. n \in DOMAIN heap
      BY <1>2, <1>4
    <3> QED
      BY <2>1, <2>3, <3>1, LenProperties, HeapFacts DEF IInv
  <2>5. Len(h) = l /\ \A i \in 1..l : h[i] = IF i = 1 THEN e ELSE heap[i]
    BY <2>2, <2>3, <2>4, Replaced
  <2>6. m = l /\ d = "down" /\ q = 1 /\ b \in [1..l -> Nat] /\ \A i \in 1..l : b[i] = EntryAt(i)'.act
    BY <1>3, <2>1, <2>2, <2>5 DEF Read, Holding
  <2>7. ASSUME NEW i \in 2..l
        PROVE  b[i] = a[i]
    <3>1. i \in 1..l /\ i \in 1..n /\ i # 1
      BY <2>1
    <3>2. EntryAt(i)' = h[i]
      BY <2>1, <2>2, <3>1 DEF EntryAt, Holding
    <3> QED
      BY <1>2, <2>5, <2>6, <3>1, <3>2
  <2>8. Heaped(b, l, "down", 1)
    <3>1. a \in [1..(l + 1) -> Nat] /\ Heaped(a, l + 1, "none", k)
      BY <1>2, <2>1
    <3> QED
      BY <2>1, <2>6, <2>7, <3>1, PoppedOrdered
  <2> QED
    BY <1>3, <2>6, <2>8 DEF Read
<1> QED
  BY <1>5, <1>6

\* The rescale keeps the order of two activities.
LEMMA DivMonotone ==
    ASSUME NEW x \in Nat, NEW y \in Nat, NEW d \in Nat, d # 0, x <= y
    PROVE  x \div d <= y \div d
OBVIOUS

\* decrease, and refresh_all before it when activities are scaled down.
LEMMA BumpOrdered ==
    ASSUME IInv, IInv', Ordered, NEW v \in Vars, Bump(v)
    PROVE  Ordered'
<1> DEFINE act == [activity EXCEPT ![v] = @ + 1]
           big == act[v] > MaxAct
           new == IF big THEN Rescaled(act) ELSE act
<1>1. Still /\ activity' = new /\ Raised(v, IF big THEN Refreshed(new) ELSE heap, new) /\ pos' = pos
  BY DEF Bump, Quiet
<1>2. PICK a, n, dir, k : Read(a, n, dir, k)
  BY HeapReads DEF Readable
<1>3. /\ n \in Nat /\ a \in [1..n -> Nat] /\ n = Len(heap) /\ dir = "none" /\ k = 0
      /\ DOMAIN heap = 1..n /\ heap \in Seq(Entry) /\ Heaped(a, n, "none", k)
      /\ \A i \in 1..n : a[i] = activity[heap[i].var] /\ heap[i].var \in Vars /\ pos[heap[i].var] = i
  <2>1. /\ n \in Nat /\ a \in [1..n -> Nat] /\ n = Len(heap) /\ DOMAIN heap = 1..n
        /\ dir = sift.dir /\ k = sift.at /\ Heaped(a, n, dir, k)
        /\ \A i \in 1..n : a[i] = EntryAt(i).act
    BY <1>2 DEF Read
  <2>2. /\ \A i \in DOMAIN heap : EntryAt(i) = heap[i] /\ heap[i].var \in Vars
        /\ \A i \in DOMAIN heap : heap[i].act = activity[heap[i].var] /\ pos[heap[i].var] = i
    BY <1>1, StillFacts
  <2>3. sift.dir = "none" /\ sift.at = 0
    BY <1>1 DEF Still, Nowhere
  <2>4. heap \in Seq(Entry)
    BY DEF IInv, TypeOK
  <2>5. \A i \in 1..n : a[i] = activity[heap[i].var]
    BY <2>1, <2>2
  <2> QED
    BY <2>1, <2>2, <2>3, <2>4, <2>5
<1>4. /\ Contains(v) => pos[v] \in 1..n /\ heap[pos[v]].var = v
      /\ ~Contains(v) => \A i \in 1..n : heap[i].var # v
  BY <1>1, <1>3, StillFacts
<1>5. PICK f : f = act /\ f \in [Vars -> Nat] /\ f[v] = activity[v] + 1 /\ activity[v] \in Nat
               /\ \A u \in Vars : u # v => f[u] = activity[u]
  <2>1. act \in [Vars -> Nat] /\ act[v] = activity[v] + 1 /\ activity[v] \in Nat
        /\ \A u \in Vars : u # v => act[u] = activity[u]
    BY DEF IInv, TypeOK
  <2> HIDE DEF act
  <2> QED
    BY <2>1
<1>6. PICK g : g = new /\ g \in [Vars -> Nat] /\ \A u, w \in Vars : f[u] <= f[w] => g[u] <= g[w]
  <2>1. CASE big
    <3>1. new = Rescaled(f)
      BY <1>5, <2>1
    <3>2. Rescaled(f) \in [Vars -> Nat] /\ \A u \in Vars : Rescaled(f)[u] = f[u] \div (MaxAct + 1)
      BY <1>5, RescaledNat DEF Rescaled
    <3>3. MaxAct + 1 \in Nat /\ MaxAct + 1 # 0
      BY HeapAssumption
    <3>4. ASSUME NEW u \in Vars, NEW w \in Vars, f[u] <= f[w]
          PROVE  Rescaled(f)[u] <= Rescaled(f)[w]
      <4>1. f[u] \in Nat /\ f[w] \in Nat
        BY <1>5
      <4>2. f[u] \div (MaxAct + 1) <= f[w] \div (MaxAct + 1)
        BY <3>3, <3>4, <4>1, DivMonotone
      <4> QED
        BY <3>2, <4>2
    <3> HIDE DEF act, big, new
    <3> QED
      BY <3>1, <3>2, <3>4
  <2>2. CASE ~big
    <3>1. new = f
      BY <1>5, <2>2
    <3> HIDE DEF act, big, new
    <3> QED
      BY <1>5, <3>1
  <2> QED
    BY <2>1, <2>2
<1>7. PICK h : h = (IF big THEN Refreshed(g) ELSE heap) /\ Raised(v, h, g) /\ h \in Seq(Entry)
               /\ DOMAIN h = 1..n /\ \A i \in 1..n : h[i].var = heap[i].var
  <2> HIDE DEF act, big, new
  <2>1. Refreshed(g) \in Seq(Entry) /\ DOMAIN Refreshed(g) = 1..n /\ \A i \in 1..n : Refreshed(g)[i].var = heap[i].var
    BY <1>1, <1>3, <1>6, RefreshedFacts, SMTT(20)
  <2> QED
    BY <1>1, <1>3, <1>6, <2>1
<1>7a. activity' = g
  BY <1>1, <1>6
<1> HIDE DEF act, big, new
<1>8. PICK b, m, d, q : Read(b, m, d, q)'
  <2>1. IInv' => Readable'
    BY HeapReads, PTL
  <2> QED
    BY <2>1 DEF Readable
<1>9. /\ m = n /\ DOMAIN heap' = 1..n
      /\ \A i \in 1..n : EntryAt(i)'.var = heap[i].var
      /\ Contains(v) => d = "up" /\ q = pos[v]
      /\ ~Contains(v) => d = "none" /\ q = 0
  <2>1. CASE Contains(v)
    <3> PICK p \in 1..n : p = pos[v] /\ heap[p].var = v
      BY <1>4, <2>1
    <3> PICK e \in Entry : e = [act |-> g[v], var |-> v]
      BY <1>6 DEF Entry
    <3>1. [h[p] EXCEPT !.act = g[v]] = e
      <4>1. h[p] \in Entry /\ h[p].var = v
        BY <1>3, <1>7, ElementOfSeq, LenProperties
      <4> QED
        BY <4>1 DEF Entry
    <3>2. heap' = [h EXCEPT ![p] = e] /\ sift' = Holding("up", p, e)
      BY <1>7, <2>1, <3>1 DEF Raised
    <3>3. /\ DOMAIN heap' = 1..n /\ Len(heap') = Len(h)
          /\ \A i \in 1..n : heap'[i] = IF i = p THEN e ELSE h[i]
      <4>1. p \in DOMAIN h /\ h \in Seq(Entry)
        BY <1>7
      <4>2. /\ DOMAIN [h EXCEPT ![p] = e] = DOMAIN h
            /\ Len([h EXCEPT ![p] = e]) = Len(h)
            /\ \A i \in DOMAIN h : [h EXCEPT ![p] = e][i] = IF i = p THEN e ELSE h[i]
        BY <4>1, Replaced
      <4> QED
        BY <1>7, <3>2, <4>2
    <3>4. Len(h) = n
      BY <1>3, <1>7, LenProperties
    <3>5. sift'.dir = "up" /\ sift'.at = p /\ sift'.entry = e
      BY <3>2 DEF Holding
    <3>6. \A i \in 1..n : EntryAt(i)' = IF i = p THEN e ELSE h[i]
      BY <3>3, <3>5 DEF EntryAt
    <3>7. \A i \in 1..n : EntryAt(i)'.var = heap[i].var
      BY <1>7, <3>6
    <3>8. m = n /\ d = "up" /\ q = p
      BY <1>8, <3>3, <3>4, <3>5 DEF Read
    <3> QED
      BY <2>1, <3>3, <3>7, <3>8
  <2>2. CASE ~Contains(v)
    <3>1. heap' = h /\ sift' = Nowhere
      BY <1>7, <2>2 DEF Raised
    <3>2. Len(h) = n
      BY <1>3, <1>7, LenProperties
    <3> QED
      BY <1>7, <1>8, <2>2, <3>1, <3>2 DEF Read, EntryAt, Nowhere
  <2> QED
    BY <2>1, <2>2
<1>10. b \in [1..n -> Nat] /\ \A i \in 1..n : b[i] = g[heap[i].var]
  <2>1. b \in [1..n -> Nat] /\ \A i \in 1..n : b[i] = EntryAt(i)'.act
    BY <1>8, <1>9 DEF Read
  <2>2. \A i \in 1..n : EntryAt(i)'.act = activity'[EntryAt(i)'.var]
    BY <1>9 DEF IInv, CopiesExact
  <2> QED
    BY <1>7a, <1>9, <2>1, <2>2
<1>11. PICK c : c \in [1..n -> Nat] /\ \A i \in 1..n : c[i] = f[heap[i].var]
  <2> PICK c : c = [i \in 1..n |-> f[heap[i].var]]
    OBVIOUS
  <2>1. c \in [1..n -> Nat] /\ \A i \in 1..n : c[i] = f[heap[i].var]
    BY <1>3, <1>5
  <2> QED
    BY <2>1
<1>12. ASSUME NEW i \in 1..n, NEW j \in 1..n, c[i] <= c[j]
       PROVE  b[i] <= b[j]
  <2>1. PICK u, w \in Vars : u = heap[i].var /\ w = heap[j].var
    BY <1>3
  <2>2. c[i] = f[u] /\ c[j] = f[w] /\ b[i] = g[u] /\ b[j] = g[w]
    BY <1>10, <1>11, <2>1
  <2> QED
    BY <1>6, <1>12, <2>2
<1>13. CASE Contains(v)
  <2>1. PICK p : p = pos[v] /\ p \in 1..n /\ heap[p].var = v /\ p \in Nat
    BY <1>3, <1>4, <1>13
  <2>2. a[p] <= c[p] /\ \A i \in 1..n : i # p => c[i] = a[i]
    <3>1. a[p] = activity[v] /\ c[p] = activity[v] + 1
      BY <1>3, <1>5, <1>11, <2>1
    <3>2. a[p] <= c[p]
      <4>1. activity[v] \in Nat
        BY <1>5
      <4> QED
        BY <3>1, <4>1
    <3>3. ASSUME NEW i \in 1..n, i # p
          PROVE  c[i] = a[i]
      <4>1. PICK u \in Vars : u = heap[i].var /\ u # v
        BY <1>3, <2>1, <3>3
      <4>2. f[u] = activity[u]
        BY <1>5, <4>1
      <4>3. c[i] = f[u] /\ a[i] = activity[u]
        BY <1>3, <1>11, <4>1
      <4> QED
        BY <4>2, <4>3
    <3> QED
      BY <3>2, <3>3
  <2>3. Heaped(c, n, "up", p)
    <3>1. \E j : Heaped(a, n, "none", j)
      BY <1>3
    <3>2. n \in Nat /\ a \in [1..n -> Nat] /\ c \in [1..n -> Nat] /\ p \in 1..n
      BY <1>3, <1>11, <2>1
    <3> QED
      BY <2>2, <3>1, <3>2, GrownOrdered
  <2>4. Heaped(b, n, "up", p)
    BY <1>3, <1>10, <1>11, <1>12, <2>1, <2>3, ScaledOrdered
  <2> QED
    BY <1>8, <1>9, <1>13, <2>1, <2>4 DEF Read
<1>14. CASE ~Contains(v)
  <2>1. \A i \in 1..n : c[i] = a[i]
    <3> SUFFICES ASSUME NEW i \in 1..n
                 PROVE  c[i] = a[i]
      OBVIOUS
    <3>1. PICK u \in Vars : u = heap[i].var /\ u # v
      BY <1>3, <1>4, <1>14
    <3>2. f[u] = activity[u]
      BY <1>5, <3>1
    <3>3. c[i] = f[u] /\ a[i] = activity[u]
      BY <1>3, <1>11, <3>1
    <3> QED
      BY <3>2, <3>3
  <2>2. c = a
    BY <1>3, <1>11, <2>1
  <2>3. Heaped(b, n, "none", 0)
    BY <1>3, <1>10, <1>11, <1>12, <2>2, ScaledOrdered
  <2> QED
    BY <1>8, <1>9, <1>14, <2>3 DEF Read
<1> QED
  BY <1>13, <1>14

\* The order is kept by every step, until new_var reuses an entry in its place.
OrderKept == recycled \/ Ordered

LEMMA NextOrdered == IInv /\ IInv' /\ OrderKept /\ [Next]_vars => OrderKept'
<1> SUFFICES ASSUME IInv, IInv', Ordered, [Next]_vars, ~recycled, ~recycled'
             PROVE  Ordered'
  <2>1. [Next]_vars => (recycled => recycled')
    BY DEF Next, vars, SiftUp, SiftDown, Start, Pick, PeekStale, PeekDone, Assign, Unassign, Bump,
           NewVar, Purge, SetDecision
  <2> QED
    BY <2>1 DEF OrderKept
<1>1. activity \in [Vars -> Nat]
  BY DEF IInv, TypeOK
<1>2. ASSUME UNCHANGED heapVars
      PROVE  Ordered'
  BY <1>2 DEF heapVars, Ordered, Acts, EntryAt
<1>3. CASE SiftUp
  BY <1>3, SiftUpOrdered
<1>4. CASE SiftDown
  BY <1>4, SiftDownOrdered
<1>5. CASE Start("pick") \/ Start("peek") \/ PeekDone
  BY <1>2, <1>5 DEF Start, PeekDone
<1>6. CASE Pick \/ PeekStale
  BY <1>6, PoppedOrder DEF Pick, PeekStale
<1>7. ASSUME NEW v \in Vars, Assign(v)
      PROVE  Ordered'
  BY <1>2, <1>7 DEF Assign
<1>8. ASSUME NEW v \in Vars, Unassign(v)
      PROVE  Ordered'
  BY <1>1, <1>2, <1>8, InsertedOrdered DEF Unassign, Quiet
<1>9. ASSUME NEW v \in Vars, Bump(v)
      PROVE  Ordered'
  BY <1>9, BumpOrdered
<1>10. ASSUME NEW v \in Vars, NewVar(v)
       PROVE  Ordered'
  <2>1. Still /\ ~Contains(v) /\ Inserted(v, [activity EXCEPT ![v] = 0])
    BY <1>10 DEF NewVar, Quiet
  <2>2. [activity EXCEPT ![v] = 0] \in [Vars -> Nat]
    BY <1>1
  <2> QED
    BY <2>1, <2>2, InsertedOrdered
<1>11. ASSUME NEW v \in Optional, Purge(v)
       PROVE  Ordered'
  BY <1>2, <1>11 DEF Purge
<1>12. ASSUME NEW v \in Optional, SetDecision(v, TRUE) \/ SetDecision(v, FALSE)
       PROVE  Ordered'
  BY <1>1, <1>2, <1>12, InsertedOrdered, HeapAssumption DEF SetDecision, Quiet
<1>13. CASE UNCHANGED vars
  BY <1>2, <1>13 DEF vars
<1> QED
  BY <1>3, <1>4, <1>5, <1>6, <1>7, <1>8, <1>9, <1>10, <1>11, <1>12, <1>13 DEF Next

LEMMA InitOrdered == Init => OrderKept
<1> SUFFICES ASSUME Init
             PROVE  Ordered
  BY DEF OrderKept
<1>1. Len(heap) = 0
  BY EmptySeq DEF Init
<1> QED
  BY <1>1 DEF Ordered, Heaped

\* What is popped has the greatest activity of the heap, and all that can be
\* decided is in the heap.
LEMMA PickIsMax ==
    ASSUME IInv, Ordered, Pick, NEW v \in assigned' \ assigned, NEW u \in Vars, Eligible(u)
    PROVE  activity[u] <= activity[v]
<1>1. Still /\ heap # <<>> /\ v = heap[1].var
  BY DEF Pick
<1>2. PICK a, n, dir, k : Read(a, n, dir, k)
  BY HeapReads DEF Readable
<1>3. /\ n \in Nat /\ a \in [1..n -> Nat] /\ DOMAIN heap = 1..n /\ Heaped(a, n, "none", k)
      /\ \A i \in 1..n : a[i] = activity[heap[i].var]
  BY <1>1, <1>2, StillFacts DEF Read, Still, Nowhere, EntryAt
<1>4. n # 0
  BY <1>1, <1>2, <1>3, EmptySeq DEF Read, IInv, TypeOK
<1>5. PICK m : m = pos[u] /\ m \in 1..n /\ heap[m].var = u
  BY <1>1, <1>3, StillFacts DEF IInv, UndecidedQueued
<1>6. a[m] <= a[1]
  BY <1>3, <1>5, RootIsGreatest
<1> QED
  BY <1>1, <1>3, <1>4, <1>5, <1>6

\* pick_branch_lit decides a variable of the greatest activity among those that can
\* be decided, however the sifts of bumps, backtracking and pops interleave, as
\* long as new_var has not reused an entry in its place.
THEOREM PicksGreatest == Spec => PickedIsMax
<1> DEFINE A == (Pick /\ ~recycled) =>
                   \A v \in assigned' \ assigned : \A u \in Vars : Eligible(u) => activity[u] <= activity[v]
<1>1. Spec => [](IInv /\ OrderKept)
  <2>1. IInv /\ OrderKept /\ [Next]_vars => (IInv /\ OrderKept)'
    BY NextIInv, NextOrdered
  <2> QED
    BY InitIInv, InitOrdered, <2>1, PTL DEF Spec
<1>2. IInv /\ OrderKept => A
  BY PickIsMax DEF OrderKept
<1> QED
  BY <1>1, <1>2, PTL DEF PickedIsMax
================================================================================
