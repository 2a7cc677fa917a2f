--------------------------- MODULE PropagationTheorems ---------------------------
(***************************************************************************)
(* What each step of propagation, and each step a client takes between two  *)
(* runs of it, keeps of the invariant of module Propagation.  The theorems  *)
(* about the most general client (module PropagationProofs) and about the   *)
(* solver (module SolverProofs) rest on these lemmas.                       *)
(***************************************************************************)
EXTENDS Propagation, TrailTheorems

(***************************************************************************)
(* The inductive invariant.                                                 *)
(***************************************************************************)
\* The clauses have distinct literals, and the long ones at least three.
ClausesSound ==
    /\ \A c \in Crefs : Live(c) => Len(Body(c)) >= 3 /\ IsInjective(Body(c))
    /\ \A b \in binaries \cup learntBins : \E l, k \in Lits : l # k /\ b = {l, k}

\* The literal under visit, or the one whose visit ended in a conflict, is
\* the last one dequeued, and it belongs to the deepest level.
VisitSound ==
    /\ Busy => /\ conflict = <<>> /\ visit.lit \in Lits
               /\ trail.lits[trail.qhead] = -visit.lit
    /\ Busy \/ conflict # <<>> =>
          trail.qhead > 0 /\ \A n \in 1..Len(trail.lim) : trail.lim[n] < trail.qhead

PropInv ==
    /\ PropTypeOK /\ WellFormed(trail) /\ ClausesSound /\ VisitSound
    /\ WatchListsMatch /\ NothingMissed /\ LevelsExact /\ ReasonsOrdered

(***************************************************************************)
(* Watch lists as sequences of entries.                                     *)
(***************************************************************************)
LEMMA WatcherParts ==
    /\ \A c, l : Watcher(c, l).cref = c /\ Watcher(c, l).blocker = l
    /\ \A c \in 0..MaxSlots, l \in Lits : Watcher(c, l) \in Watchers
    /\ \A w \in Watchers : w.cref \in Nat /\ w.blocker \in Lits
  BY DEF Watcher, Watchers

LEMMA AppendEntry ==
    ASSUME NEW s \in Seq(Watchers), NEW w \in Watchers, NEW t, t = Append(s, w)
    PROVE  /\ t \in Seq(Watchers) /\ ToSet(t) = ToSet(s) \cup {w}
           /\ Never(s, w.cref) => Once(t, w.cref)
           /\ \A c : c # w.cref => /\ Once(s, c) => Once(t, c)
                                   /\ Never(s, c) => Never(t, c)
<1> DEFINE n == Len(s)
<1>1. /\ t \in Seq(Watchers) /\ n \in Nat /\ Len(t) = n + 1
      /\ DOMAIN s = 1..n /\ DOMAIN t = 1..(n + 1)
      /\ \A i \in 1..n : t[i] = s[i] /\ t[n + 1] = w
  BY AppendProperties, LenProperties
<1>2. t[n + 1] = w
  BY AppendProperties
<1> HIDE DEF n
<1>3. ToSet(t) = ToSet(s) \cup {w}
  <2>1. \A i \in 1..(n + 1) : i \in 1..n \/ i = n + 1
    BY <1>1
  <2>2. 1..n \subseteq 1..(n + 1) /\ n + 1 \in 1..(n + 1)
    BY <1>1
  <2> QED
    BY <1>1, <1>2, <2>1, <2>2 DEF ToSet
<1>4. ASSUME Never(s, w.cref) PROVE Once(t, w.cref)
  <2>1. \A j \in 1..(n + 1) : t[j].cref = w.cref <=> j = n + 1
    BY <1>1, <1>2, <1>4 DEF Never
  <2>2. n + 1 \in 1..(n + 1)
    BY <1>1
  <2> QED
    BY <1>1, <2>1, <2>2 DEF Once
<1>5. ASSUME NEW c, c # w.cref, Once(s, c) PROVE Once(t, c)
  <2>1. PICK i \in 1..n : \A j \in 1..n : s[j].cref = c <=> j = i
    BY <1>5 DEF Once, n
  <2>2. \A j \in 1..(n + 1) : t[j].cref = c <=> j = i
    BY <1>1, <1>2, <1>5, <2>1
  <2>3. i \in 1..(n + 1) /\ 1..Len(t) = 1..(n + 1)
    BY <1>1
  <2>4. i \in 1..Len(t) /\ \A j \in 1..Len(t) : t[j].cref = c <=> j = i
    BY <2>2, <2>3
  <2> QED
    BY <2>4 DEF Once
<1>6. ASSUME NEW c, c # w.cref, Never(s, c) PROVE Never(t, c)
  BY <1>1, <1>2, <1>6 DEF Never
<1> QED
  BY <1>1, <1>3, <1>4, <1>5, <1>6

\* One entry replaced by another of the same clause.
ReplacedBy(t, s, e, w) ==
    /\ w \in ToSet(t)
    /\ \A x \in ToSet(t) : x = w \/ x \in ToSet(s)
    /\ \A x \in ToSet(s) : x = e \/ x \in ToSet(t)
    /\ \A c : /\ Once(s, c) => Once(t, c)
              /\ Never(s, c) => Never(t, c)

LEMMA ReplaceEntry ==
    ASSUME NEW s \in Seq(Watchers), NEW p \in 1..Len(s), NEW w \in Watchers,
           w.cref = s[p].cref, NEW t \in Seq(Watchers), Len(t) = Len(s),
           \A i \in 1..Len(s) : t[i] = IF i = p THEN w ELSE s[i]
    PROVE  ReplacedBy(t, s, s[p], w)
<1>1. /\ DOMAIN s = 1..Len(s) /\ DOMAIN t = 1..Len(s)
      /\ \A i \in 1..Len(s) : t[i] = IF i = p THEN w ELSE s[i]
  BY LenProperties
<1>2. \A i \in 1..Len(s) : t[i].cref = s[i].cref
  BY <1>1
<1>3. w \in ToSet(t) /\ \A x \in ToSet(t) : x = w \/ x \in ToSet(s)
  BY <1>1 DEF ToSet
<1>4. \A x \in ToSet(s) : x = s[p] \/ x \in ToSet(t)
  BY <1>1 DEF ToSet
<1>5. ASSUME NEW c PROVE (Once(s, c) => Once(t, c)) /\ (Never(s, c) => Never(t, c))
  <2>1. Len(t) = Len(s)
    BY <1>1
  <2>2. ASSUME Once(s, c) PROVE Once(t, c)
    <3>1. PICK i \in 1..Len(s) : \A j \in 1..Len(s) : s[j].cref = c <=> j = i
      BY <2>2 DEF Once
    <3>2. \A j \in 1..Len(t) : t[j].cref = c <=> j = i
      BY <1>2, <2>1, <3>1
    <3> QED
      BY <2>1, <3>2 DEF Once
  <2>3. Never(s, c) => Never(t, c)
    BY <1>2, <2>1 DEF Never
  <2> QED
    BY <2>2, <2>3
<1> QED
  BY <1>1, <1>3, <1>4, <1>5 DEF ReplacedBy

\* One entry dropped.
DroppedFrom(t, s, e) ==
    /\ ToSet(t) \subseteq ToSet(s)
    /\ \A x \in ToSet(s) : x = e \/ x \in ToSet(t)
    /\ Once(s, e.cref) => Never(t, e.cref)
    /\ \A c : c # e.cref => /\ Once(s, c) => Once(t, c)
                            /\ Never(s, c) => Never(t, c)

LEMMA DropEntry ==
    ASSUME NEW s \in Seq(Watchers), NEW p \in 1..Len(s),
           NEW t \in Seq(Watchers), Len(t) = Len(s) - 1,
           \A i \in 1..Len(t) : t[i] = IF i < p THEN s[i] ELSE s[i + 1]
    PROVE  DroppedFrom(t, s, s[p])
<1> DEFINE n == Len(s)
           From(i) == IF i < p THEN i ELSE i + 1
           To(j) == IF j < p THEN j ELSE j - 1
<1>1. n \in Nat /\ Len(t) = n - 1 /\ DOMAIN s = 1..n /\ DOMAIN t = 1..(n - 1) /\ p \in 1..n
  BY LenProperties
<1>2. \A i \in 1..(n - 1) : From(i) \in 1..n /\ From(i) # p /\ To(From(i)) = i /\ t[i] = s[From(i)]
  BY <1>1
<1>3. \A j \in 1..n : j # p => To(j) \in 1..(n - 1) /\ From(To(j)) = j /\ t[To(j)] = s[j]
  BY <1>1
<1> HIDE DEF n, From, To
<1>4. ToSet(t) \subseteq ToSet(s)
  BY <1>1, <1>2 DEF ToSet
<1>5. \A x \in ToSet(s) : x = s[p] \/ x \in ToSet(t)
  BY <1>1, <1>3 DEF ToSet
<1>6. ASSUME Once(s, s[p].cref) PROVE Never(t, s[p].cref)
  <2>1. PICK i \in 1..n : \A j \in 1..n : s[j].cref = s[p].cref <=> j = i
    BY <1>6 DEF Once, n
  <2>2. i = p
    BY <1>1, <2>1
  <2> QED
    BY <1>1, <1>2, <2>1, <2>2 DEF Never
<1>7. ASSUME NEW c, c # s[p].cref, Once(s, c) PROVE Once(t, c)
  <2>1. PICK i \in 1..n : \A j \in 1..n : s[j].cref = c <=> j = i
    BY <1>7 DEF Once, n
  <2>2. i # p
    BY <1>7, <2>1
  <2>3. \A j \in 1..(n - 1) : t[j].cref = c <=> j = To(i)
    BY <1>2, <1>3, <2>1, <2>2
  <2>4. To(i) \in 1..(n - 1) /\ Len(t) = n - 1
    BY <1>1, <1>3, <2>2
  <2>5. PICK h : h = To(i)
    OBVIOUS
  <2>6. h \in 1..Len(t) /\ \A j \in 1..Len(t) : t[j].cref = c <=> j = h
    BY <2>3, <2>4, <2>5
  <2> QED
    BY <2>6 DEF Once
<1>8. ASSUME NEW c, c # s[p].cref, Never(s, c) PROVE Never(t, c)
  BY <1>1, <1>2, <1>8 DEF Never
<1> QED
  BY <1>4, <1>5, <1>6, <1>7, <1>8 DEF DroppedFrom

\* The list under visit, as the entries kept and those to come.
LEMMA SplitList ==
    ASSUME NEW k \in Seq(Watchers), NEW r \in Seq(Watchers), r # <<>>, NEW w \in Watchers,
           NEW s, s = k \o r, NEW p, p = Len(k) + 1
    PROVE  /\ p \in 1..Len(s) /\ s[p] = Head(r) /\ Head(r) \in Watchers
           /\ Tail(r) \in Seq(Watchers) /\ Append(k, w) \in Seq(Watchers)
           /\ Append(k, w) \o Tail(r) \in Seq(Watchers)
           /\ Len(Append(k, w) \o Tail(r)) = Len(s)
           /\ \A i \in 1..Len(s) : (Append(k, w) \o Tail(r))[i] = IF i = p THEN w ELSE s[i]
           /\ Append(k, Head(r)) \o Tail(r) = s
           /\ k \o Tail(r) \in Seq(Watchers) /\ Len(k \o Tail(r)) = Len(s) - 1
           /\ \A i \in 1..Len(k \o Tail(r)) :
                 (k \o Tail(r))[i] = IF i < p THEN s[i] ELSE s[i + 1]
           /\ ToSet(Tail(r)) \subseteq ToSet(r) /\ ToSet(r) = {Head(r)} \cup ToSet(Tail(r))
<1> DEFINE n == Len(k)
           m == Len(r)
           q == Tail(r)
<1>1. /\ n \in Nat /\ m \in Nat /\ m >= 1 /\ Head(r) = r[1] /\ r[1] \in Watchers
      /\ q \in Seq(Watchers) /\ Len(q) = m - 1 /\ \A i \in 1..(m - 1) : q[i] = r[i + 1]
  BY HeadTailProperties, LenProperties, EmptySeq
<1>2. s \in Seq(Watchers) /\ Len(s) = n + m
      /\ \A i \in 1..(n + m) : s[i] = IF i <= n THEN k[i] ELSE r[i - n]
  BY ConcatProperties
<1>3. \A x \in Watchers : /\ Append(k, x) \in Seq(Watchers) /\ Len(Append(k, x)) = n + 1
                          /\ Append(k, x)[n + 1] = x
                          /\ \A i \in 1..n : Append(k, x)[i] = k[i]
  BY AppendProperties
<1>4. p \in 1..Len(s) /\ s[p] = Head(r)
  BY <1>1, <1>2
<1> HIDE DEF n, m, q
<1>5. \A x \in Watchers :
         /\ Append(k, x) \o q \in Seq(Watchers) /\ Len(Append(k, x) \o q) = n + m
         /\ \A i \in 1..(n + m) : (Append(k, x) \o q)[i] = IF i = n + 1 THEN x ELSE s[i]
  <2> TAKE x \in Watchers
  <2> DEFINE a == Append(k, x)
  <2>1. /\ a \in Seq(Watchers) /\ Len(a) = n + 1 /\ a[n + 1] = x
        /\ \A i \in 1..n : a[i] = k[i]
    BY <1>3
  <2> HIDE DEF a
  <2>2. /\ a \o q \in Seq(Watchers) /\ Len(a \o q) = Len(a) + Len(q)
        /\ \A i \in 1..(Len(a) + Len(q)) : (a \o q)[i] = IF i <= Len(a) THEN a[i] ELSE q[i - Len(a)]
    BY <1>1, <2>1, ConcatProperties
  <2>3. Len(a) + Len(q) = n + m
    BY <1>1, <2>1
  <2>4. ASSUME NEW i \in 1..(n + m) PROVE (a \o q)[i] = IF i = n + 1 THEN x ELSE s[i]
    <3>4. i \in Int /\ n \in Int /\ (i <= n \/ i = n + 1 \/ i > n + 1)
      BY <1>1
    <3>1. CASE i <= n
      <4>1. i \in 1..Len(a) /\ i # n + 1 /\ i \in 1..n
        BY <1>1, <2>1, <3>1
      <4> QED
        BY <1>2, <2>1, <2>2, <2>3, <3>1, <4>1
    <3>2. CASE i = n + 1
      BY <1>1, <2>1, <2>2, <2>3, <3>2
    <3>3. CASE i > n + 1
      <4>1. i - (n + 1) \in 1..(m - 1) /\ (i - (n + 1)) + 1 = i - n
        BY <1>1, <3>3
      <4>2. (a \o q)[i] = q[i - (n + 1)]
        BY SMTT(60), <1>1, <2>1, <2>2, <2>3, <3>3
      <4> QED
        BY SMTT(60), <1>1, <1>2, <3>3, <4>1, <4>2
    <3> QED
      BY <3>1, <3>2, <3>3, <3>4
  <2> QED
    BY <2>2, <2>3, <2>4 DEF a
<1>6. /\ Append(k, w) \o q \in Seq(Watchers) /\ Len(Append(k, w) \o q) = Len(s)
      /\ \A i \in 1..Len(s) : (Append(k, w) \o q)[i] = IF i = p THEN w ELSE s[i]
  <2>1. p = n + 1
    BY DEF n
  <2> QED
    BY <1>2, <1>5, <2>1
<1>7. Append(k, Head(r)) \o q = s
  <2>1. Head(r) \in Watchers /\ s[n + 1] = Head(r)
    BY <1>1, <1>4 DEF n
  <2>2. PICK z : z = Append(k, Head(r)) \o q
    OBVIOUS
  <2>3. z \in Seq(Watchers) /\ Len(z) = n + m
        /\ \A i \in 1..(n + m) : z[i] = IF i = n + 1 THEN Head(r) ELSE s[i]
    BY <1>5, <2>1, <2>2
  <2>4. Len(z) = Len(s) /\ \A i \in 1..Len(s) : z[i] = s[i]
    BY <1>2, <2>1, <2>3
  <2>5. z = s
    BY <1>2, <2>3, <2>4, SeqEqual
  <2> QED
    BY <2>2, <2>5
<1>8. /\ k \o q \in Seq(Watchers) /\ Len(k \o q) = n + m - 1
      /\ \A i \in 1..(n + m - 1) : (k \o q)[i] = IF i <= n THEN k[i] ELSE q[i - n]
  <2>1. /\ k \o q \in Seq(Watchers) /\ Len(k \o q) = Len(k) + Len(q)
        /\ \A i \in 1..(Len(k) + Len(q)) : (k \o q)[i] = IF i <= Len(k) THEN k[i] ELSE q[i - Len(k)]
    BY <1>1, ConcatProperties
  <2>2. Len(k) = n /\ Len(k) + Len(q) = n + m - 1
    BY <1>1 DEF n
  <2> QED
    BY <2>1, <2>2
<1>9. ASSUME NEW i \in 1..(n + m - 1) PROVE (k \o q)[i] = IF i < n + 1 THEN s[i] ELSE s[i + 1]
  <2>1. CASE i <= n
    <3>1. i \in 1..(n + m) /\ i < n + 1
      BY <1>1, <2>1
    <3> QED
      BY <1>2, <1>8, <2>1, <3>1
  <2>2. CASE i > n
    <3>1. /\ i - n \in 1..(m - 1) /\ (i - n) + 1 = (i + 1) - n /\ i + 1 \in 1..(n + m)
          /\ ~(i < n + 1) /\ ~(i <= n) /\ ~(i + 1 <= n)
      BY <1>1, <2>2
    <3>2. (k \o q)[i] = q[i - n]
      BY <1>8, <3>1
    <3>3. q[i - n] = r[(i + 1) - n]
      BY <1>1, <3>1
    <3> QED
      BY <1>2, <3>1, <3>2, <3>3
  <2>3. i \in Int /\ n \in Int /\ (i <= n \/ i > n)
    BY <1>1
  <2> QED
    BY <2>1, <2>2, <2>3
<1>10. ToSet(r) = {Head(r)} \cup ToSet(q)
  <2>1. DOMAIN r = 1..m /\ DOMAIN q = 1..(m - 1)
    BY <1>1, LenProperties DEF m
  <2>2. \A i \in 1..m : i = 1 \/ (i - 1 \in 1..(m - 1) /\ (i - 1) + 1 = i)
    BY <1>1
  <2>3. 1 \in 1..m /\ \A i \in 1..(m - 1) : i + 1 \in 1..m
    BY <1>1
  <2>4. ASSUME NEW x \in ToSet(r) PROVE x \in {Head(r)} \cup ToSet(q)
    <3>1. PICK i \in 1..m : r[i] = x
      BY <2>1 DEF ToSet
    <3>2. i = 1 \/ q[i - 1] = r[i]
      BY <1>1, <2>2
    <3> QED
      BY <1>1, <2>1, <2>2, <3>1, <3>2 DEF ToSet
  <2>5. ASSUME NEW x \in {Head(r)} \cup ToSet(q) PROVE x \in ToSet(r)
    <3>1. x = r[1] \/ \E i \in 1..(m - 1) : x = q[i]
      BY <1>1, <2>1 DEF ToSet
    <3>2. \E j \in 1..m : x = r[j]
      BY <1>1, <2>3, <3>1
    <3> QED
      BY <2>1, <3>2 DEF ToSet
  <2> QED
    BY <2>4, <2>5
<1> QED
  BY SMTT(60), <1>1, <1>2, <1>3, <1>4, <1>6, <1>7, <1>8, <1>9, <1>10 DEF n, q

(***************************************************************************)
(* What one state says of a list, an entry and a reason.                    *)
(***************************************************************************)
LEMMA ListFacts ==
    ASSUME PropTypeOK, NEW l \in Lits
    PROVE  /\ List(l) \in Seq(Watchers) /\ watches[l] \in Seq(Watchers)
           /\ visit.kept \in Seq(Watchers) /\ visit.rest \in Seq(Watchers)
           /\ visit.lit \in Lits \cup {0} /\ l # 0
           /\ visit.lit = l => Busy
           /\ List(l) = IF visit.lit = l THEN visit.kept \o visit.rest ELSE watches[l]
           /\ visit = NoVisit => List(l) = watches[l]
<1>1. /\ visit.kept \in Seq(Watchers) /\ visit.rest \in Seq(Watchers)
      /\ visit.lit \in Lits \cup {0} /\ watches[l] \in Seq(Watchers)
  BY DEF PropTypeOK
<1>2. l # 0
  BY LitFacts
<1>3. visit.lit = l => Busy
  BY <1>2 DEF Busy, NoVisit
<1>4. visit.kept \o visit.rest \in Seq(Watchers)
  BY <1>1, ConcatProperties
<1>5. visit = NoVisit => visit.lit # l
  BY <1>2 DEF NoVisit
<1> QED
  BY <1>1, <1>2, <1>3, <1>4, <1>5 DEF List

LEMMA BodyFacts ==
    ASSUME PropTypeOK, ClausesSound, NEW c \in Crefs, Live(c)
    PROVE  /\ Body(c) \in Seq(Lits) /\ Len(Body(c)) \in Nat /\ Len(Body(c)) >= 3
           /\ 1 \in 1..Len(Body(c)) /\ 2 \in 1..Len(Body(c))
           /\ Body(c)[1] \in Lits /\ Body(c)[2] \in Lits /\ Body(c)[1] # Body(c)[2]
           /\ IsInjective(Body(c)) /\ ToSet(Body(c)) \subseteq Lits
           /\ c \in Nat /\ c # 0
<1>1. arena \in Seq([lits : Seq(Lits), kind : Kinds, lbd : Nat])
  BY DEF PropTypeOK
<1>2. c \in 1..Len(arena) /\ arena[c] \in [lits : Seq(Lits), kind : Kinds, lbd : Nat]
  BY <1>1, LenProperties, ElementOfSeq DEF Crefs
<1>3. Body(c) \in Seq(Lits) /\ Len(Body(c)) >= 3 /\ IsInjective(Body(c))
  BY <1>2 DEF Body, ClausesSound
<1>4. Len(Body(c)) \in Nat /\ DOMAIN Body(c) = 1..Len(Body(c))
  BY <1>3, LenProperties
<1>5. 1 \in 1..Len(Body(c)) /\ 2 \in 1..Len(Body(c))
  BY <1>3, <1>4
<1>6. Body(c)[1] # Body(c)[2]
  BY <1>3, <1>4, <1>5 DEF IsInjective
<1>7. c \in Nat /\ c # 0
  BY <1>1, <1>2, LenProperties
<1> QED
  BY <1>3, <1>4, <1>5, <1>6, <1>7, ElementOfSeq, ToSetFacts

\* An entry of a watch list and the clause it stands for.
LEMMA EntryFacts ==
    ASSUME PropTypeOK, ClausesSound, WatchListsMatch, NEW l \in Lits, NEW w \in ToSet(List(l))
    PROVE  /\ w \in Watchers /\ w.blocker \in Lits
           /\ Binary(w) => /\ w.blocker # l /\ {l, w.blocker} \in binaries \cup learntBins
                           /\ w.cref = 0
           /\ ~Binary(w) => /\ w.cref \in Crefs /\ Live(w.cref) /\ w.blocker \in ToSet(Body(w.cref))
                            /\ l \in {Body(w.cref)[1], Body(w.cref)[2]}
           /\ Claimed(w) \subseteq Lits
<1>1. List(l) \in Seq(Watchers)
  BY ListFacts
<1>2. PICK i \in 1..Len(List(l)) : List(l)[i] = w
  BY <1>1, ToSetFacts
<1>3. w \in Watchers /\ w.blocker \in Lits
  BY <1>1, <1>2, ElementOfSeq, WatcherParts
<1>4. Matches(l, List(l))
  BY DEF WatchListsMatch
<1>5. ASSUME Binary(w)
      PROVE  w.blocker # l /\ {l, w.blocker} \in binaries \cup learntBins /\ w.cref = 0
  <2>1. {l, w.blocker} \in binaries \cup learntBins
    BY <1>4, <1>5 DEF Matches
  <2>2. PICK a \in Lits, b \in Lits : a # b /\ {l, w.blocker} = {a, b}
    BY <2>1 DEF ClausesSound
  <2>3. a \in {l, w.blocker} /\ b \in {l, w.blocker}
    BY <2>2
  <2>4. w.blocker # l
    BY <2>2, <2>3
  <2> QED
    BY <1>5, <2>1, <2>4 DEF Binary
<1>6. ASSUME ~Binary(w)
      PROVE  /\ w.cref \in Crefs /\ Live(w.cref) /\ w.blocker \in ToSet(Body(w.cref))
             /\ l \in {Body(w.cref)[1], Body(w.cref)[2]}
  <2>1. w.cref \in Crefs /\ Live(w.cref) /\ w.blocker \in ToSet(Body(w.cref))
    BY <1>4, <1>6 DEF Matches
  <2>2. ~Never(List(l), w.cref)
    BY <1>2 DEF Never
  <2>3. l \in {Body(w.cref)[1], Body(w.cref)[2]}
    BY <1>4, <2>1, <2>2 DEF Matches
  <2> QED
    BY <2>1, <2>3
<1>7. Claimed(w) \subseteq Lits
  BY <1>3, <1>6, BodyFacts DEF Claimed
<1> QED
  BY <1>3, <1>5, <1>6, <1>7

(***************************************************************************)
(* What a cut or a longer trail keeps.                                      *)
(***************************************************************************)
LEMMA HarmlessKept ==
    ASSUME NEW t, NEW u, NEW m, Continues(t, u, m), NEW i \in 1..m, NEW l \in Lits, t.lits[i] = -l,
           NEW c \in SUBSET Lits, NEW d, c \subseteq d, Harmless(t, l, c)
    PROVE  Harmless(u, l, d)
<1>1. PICK q \in c : IsTrue(t, q) /\ LitLevel(t, q) <= LitLevel(t, l)
  BY DEF Harmless
<1>2. PICK j \in 1..Len(t.lits) : t.lits[j] = q
  BY <1>1 DEF IsTrue, Contains
<1>3. WellFormed(t) /\ WellFormed(u) /\ q \in Lits
  BY DEF Continues
<1>4. LitLevel(u, l) = LitLevel(t, l) /\ LitLevel(t, l) = LitLevel(t, t.lits[i]) /\ i \in 1..Len(t.lits)
  BY SamePast
<1>5. j <= m
  BY <1>1, <1>2, <1>4 DEF Continues
<1>6. j \in 1..m
  BY <1>2, <1>5 DEF Continues
<1>7. LitLevel(u, q) = LitLevel(t, q) /\ j \in 1..Len(u.lits) /\ u.lits[j] = q
  BY <1>2, <1>3, <1>6, SamePast
<1>8. IsTrue(u, q)
  BY <1>7 DEF IsTrue, Contains
<1> QED
  BY <1>1, <1>4, <1>7, <1>8 DEF Harmless

\* ReasonsOrdered and LevelsExact of the literal at position i.
ReasonRight(i) ==
    LET l == trail.lits[i]
        r == ReasonOf(trail, l)
    IN  r # Decision =>
          /\ r.cref # 0 => r.cref \in Crefs /\ Live(r.cref) /\ Body(r.cref)[1] = l
          /\ r.cref = 0 => {l, r.other} \in binaries \cup learntBins
          /\ \A q \in ToSet(ReasonTail(trail, l)) : \E j \in 1..(i - 1) : trail.lits[j] = -q
          /\ LitLevel(trail, l) = Max({LitLevel(trail, q) : q \in ToSet(ReasonTail(trail, l))})

LEMMA ReasonsEach ==
    WellFormed(trail) =>
        (LevelsExact /\ ReasonsOrdered <=> \A i \in 1..Len(trail.lits) : ReasonRight(i))
<1> SUFFICES ASSUME WellFormed(trail)
             PROVE  LevelsExact /\ ReasonsOrdered <=> \A i \in 1..Len(trail.lits) : ReasonRight(i)
  OBVIOUS
<1>1. DOMAIN trail.lits = 1..Len(trail.lits) /\ trail.lits \in Seq(Lits)
  BY TrailParts, LenProperties DEF WellFormed
<1>2. ASSUME LevelsExact, ReasonsOrdered, NEW i \in 1..Len(trail.lits) PROVE ReasonRight(i)
  <2>1. trail.lits[i] \in ToSet(trail.lits)
    BY <1>1, ToSetFacts
  <2> QED
    BY <1>1, <1>2, <2>1 DEF LevelsExact, ReasonsOrdered, ReasonRight
<1>3. ASSUME \A i \in 1..Len(trail.lits) : ReasonRight(i) PROVE LevelsExact
  <2> SUFFICES ASSUME NEW l \in ToSet(trail.lits), ReasonOf(trail, l) # Decision
               PROVE  LitLevel(trail, l) = Max({LitLevel(trail, q) : q \in ToSet(ReasonTail(trail, l))})
    BY DEF LevelsExact
  <2>1. PICK i \in 1..Len(trail.lits) : trail.lits[i] = l
    BY <1>1, ToSetFacts
  <2> QED
    BY <1>3, <2>1 DEF ReasonRight
<1>4. ASSUME \A i \in 1..Len(trail.lits) : ReasonRight(i) PROVE ReasonsOrdered
  BY <1>1, <1>4 DEF ReasonsOrdered, ReasonRight
<1> QED
  BY <1>2, <1>3, <1>4

\* The reasons of the literals a cut leaves are as good as before, when the
\* clauses they are in stay as they were.
LEMMA ReasonsKept ==
    ASSUME PropInv, NEW m, Continues(trail, trail', m),
           \A c \in Crefs : Live(c) /\ (\E i \in 1..m : ReasonOf(trail, trail.lits[i]).cref = c)
               => c \in Crefs' /\ Live(c)' /\ Body(c)' = Body(c),
           binaries \cup learntBins \subseteq (binaries \cup learntBins)',
           Len(trail'.lits) = m + 1 => ReasonRight(m + 1)'
    PROVE  LevelsExact' /\ ReasonsOrdered'
<1>1. WellFormed(trail) /\ WellFormed(trail)'
  BY DEF Continues
<1>2. /\ m \in Nat /\ Len(trail'.lits) \in Nat /\ m <= Len(trail.lits)
      /\ Len(trail'.lits) = m \/ Len(trail'.lits) = m + 1
      /\ \A i \in 1..Len(trail.lits) : trail.lits[i] \in Lits
      /\ \A i \in 1..Len(trail.lits) : ReasonRight(i)
  BY <1>1, TrailParts, ReasonsEach DEF Continues, WellFormed, PropInv
<1>3. ASSUME NEW i \in 1..m PROVE ReasonRight(i)'
  <2>0. PICK l, r, tail :
            l = trail.lits[i] /\ r = ReasonOf(trail, l) /\ tail = ReasonTail(trail, l)
    OBVIOUS
  <2>1. i \in 1..Len(trail.lits) /\ l \in Lits
    BY <1>2, <2>0
  <2>2. trail'.lits[i] = l /\ ReasonOf(trail', l) = r /\ LitLevel(trail', l) = LitLevel(trail, l)
    BY <2>0, <2>1, SamePast
  <2>3. CASE r = Decision
    BY <2>2, <2>3 DEF ReasonRight
  <2>4. CASE r # Decision
    <3>1. /\ r.cref # 0 => r.cref \in Crefs /\ Live(r.cref) /\ Body(r.cref)[1] = l
          /\ r.cref = 0 => {l, r.other} \in binaries \cup learntBins
          /\ \A q \in ToSet(tail) : \E j \in 1..(i - 1) : trail.lits[j] = -q
          /\ LitLevel(trail, l) = Max({LitLevel(trail, q) : q \in ToSet(tail)})
      BY <1>2, <2>0, <2>1, <2>4 DEF ReasonRight
    <3>2. r.cref # 0 => r.cref \in Crefs' /\ Live(r.cref)' /\ Body(r.cref)' = Body(r.cref)
      BY <2>0, <3>1
    <3>3. r.cref = 0 => {l, r.other} \in (binaries \cup learntBins)'
      BY <3>1
    <3>4. ReasonTail(trail, l)' = tail
      <4>1. CASE r.cref # 0
        BY <2>0, <2>2, <3>2, <4>1 DEF ReasonTail
      <4>2. CASE r.cref = 0
        BY <2>0, <2>2, <4>2 DEF ReasonTail
      <4> QED
        BY <4>1, <4>2
    <3>5. ToSet(tail) \subseteq Lits
      <4>1. CASE r.cref # 0
        <5>1. Body(r.cref) \in Seq(Lits) /\ Body(r.cref) # <<>>
          BY <3>1, <4>1, BodyFacts DEF PropInv, Live, Body
        <5>2. tail \in Seq(Lits)
          BY <2>0, <4>1, <5>1, HeadTailProperties DEF ReasonTail
        <5> QED
          BY <5>2, ToSetFacts
      <4>2. CASE r.cref = 0
        <5>1. tail = <<r.other>>
          BY <2>0, <4>2 DEF ReasonTail
        <5>2. PICK a \in Lits, b \in Lits : a # b /\ {l, r.other} = {a, b}
          BY <3>1, <4>2 DEF PropInv, ClausesSound
        <5>3. r.other \in {a, b}
          BY <5>2
        <5> QED
          BY <5>1, <5>2, <5>3 DEF ToSet
      <4> QED
        BY <4>1, <4>2
    <3>6. \A q \in ToSet(tail) : \E j \in 1..(i - 1) : trail'.lits[j] = -q
      <4> TAKE q \in ToSet(tail)
      <4>1. PICK j \in 1..(i - 1) : trail.lits[j] = -q
        BY <3>1
      <4>2. j \in 1..m
        BY <1>2
      <4> QED
        BY <4>1, <4>2 DEF Continues
    <3>7. \A q \in ToSet(tail) : LitLevel(trail', q) = LitLevel(trail, q)
      <4> TAKE q \in ToSet(tail)
      <4>1. PICK j \in 1..(i - 1) : trail.lits[j] = -q
        BY <3>1
      <4>2. j \in 1..m
        BY <1>2
      <4> QED
        BY <3>5, <4>1, <4>2, SamePast
    <3>8. {LitLevel(trail', q) : q \in ToSet(tail)} = {LitLevel(trail, q) : q \in ToSet(tail)}
      BY <3>7
    <3> QED
      BY <2>2, <3>1, <3>2, <3>3, <3>4, <3>6, <3>8 DEF ReasonRight
  <2> QED
    BY <2>3, <2>4
<1>4. \A i \in 1..Len(trail'.lits) : ReasonRight(i)'
  <2> TAKE i \in 1..Len(trail'.lits)
  <2>1. i \in 1..m \/ (i = m + 1 /\ Len(trail'.lits) = m + 1)
    BY <1>2
  <2> QED
    BY <1>3, <2>1
<1>5. (WellFormed(trail) =>
         (LevelsExact /\ ReasonsOrdered <=> \A i \in 1..Len(trail.lits) : ReasonRight(i)))'
  BY ReasonsEach, PTL
<1> QED
  BY <1>1, <1>4, <1>5

\* Outside a traversal, what a cut trail has visited was visited before.
LEMMA VisitedBefore ==
    ASSUME PropInv, visit = NoVisit, NEW m, Continues(trail, trail', m),
           conflict = <<>> \/ m < trail.qhead, NEW l \in Lits, NEW w, Visited(l, w)'
    PROVE  Visited(l, w) /\ \E i \in 1..m : trail.lits[i] = -l
<1>1. trail'.qhead \in Nat /\ trail.qhead \in Nat /\ m \in Nat /\ trail'.qhead <= m
      /\ trail'.qhead <= trail.qhead
  BY TrailParts DEF Continues, WellFormed
<1>2. PICK i \in 1..trail'.qhead : trail'.lits[i] = -l
  BY DEF Visited
<1>3. i \in 1..m /\ i \in 1..trail.qhead /\ trail.lits[i] = -l
  BY <1>1, <1>2 DEF Continues
<1>4. i = trail.qhead => conflict = <<>>
  BY <1>1, <1>3
<1>5. visit.lit # l
  BY LitFacts DEF NoVisit
<1>6. Visited(l, w)
  BY <1>3, <1>4, <1>5 DEF Visited
<1> QED
  BY <1>3, <1>6

\* A step that only cuts the trail or lengthens it.
LEMMA TrailStep ==
    ASSUME PropInv, visit = NoVisit, visit' = NoVisit, UNCHANGED dbVars,
           NEW m, Continues(trail, trail', m), conflict = <<>> \/ m < trail.qhead,
           Len(trail'.lits) = m + 1 => ReasonRight(m + 1)'
    PROVE  /\ WellFormed(trail)' /\ ClausesSound' /\ WatchListsMatch'
           /\ NothingMissed' /\ LevelsExact' /\ ReasonsOrdered'
<1> USE DEF dbVars
<1>1. WellFormed(trail)'
  BY DEF Continues
<1>2. ClausesSound'
  BY DEF PropInv, ClausesSound, Crefs, Live, Body
<1>3. \A l \in Lits : List(l)' = List(l)
  BY DEF List
<1>4. ASSUME NEW l \in Lits PROVE Matches(l, List(l))'
  <2>1. Matches(l, List(l))
    BY DEF PropInv, WatchListsMatch
  <2> QED
    BY <1>3, <2>1 DEF Matches, Crefs, Live, Body
<1>5. WatchListsMatch'
  BY <1>4 DEF WatchListsMatch
<1>6. NothingMissed'
  <2> SUFFICES ASSUME NEW l \in Lits, NEW w \in ToSet(List(l)'), Visited(l, w)'
               PROVE  Harmless(trail', l, Claimed(w)')
    BY DEF NothingMissed
  <2>1. Visited(l, w) /\ \E i \in 1..m : trail.lits[i] = -l
    BY VisitedBefore
  <2>2. w \in ToSet(List(l))
    BY <1>3
  <2>3. Harmless(trail, l, Claimed(w)) /\ Claimed(w) \subseteq Lits
    BY <2>1, <2>2, EntryFacts DEF PropInv, NothingMissed
  <2>4. Claimed(w)' = Claimed(w)
    BY DEF Claimed, Body
  <2> QED
    BY <2>1, <2>3, <2>4, HarmlessKept
<1>7. \A c \in Crefs : Live(c) => c \in Crefs' /\ Live(c)' /\ Body(c)' = Body(c)
  BY DEF Crefs, Live, Body
<1>8. LevelsExact' /\ ReasonsOrdered'
  BY <1>7, ReasonsKept
<1> QED
  BY <1>1, <1>2, <1>5, <1>6, <1>8

(***************************************************************************)
(* Attaching a clause.                                                      *)
(***************************************************************************)
\* The slot a clause is attached in holds no clause.
LEMMA FreeSlotFacts ==
    ASSUME PropTypeOK
    PROVE  /\ FreeSlot \in 1..(Len(arena) + 1)
           /\ FreeSlot \in Crefs => ~Live(FreeSlot)
           /\ FreeSlot \notin Crefs => FreeSlot = Len(arena) + 1
<1> DEFINE freed == {c \in Crefs : ~Live(c)}
<1>1. Crefs = 1..Len(arena) /\ Len(arena) \in Nat
  BY LenProperties DEF PropTypeOK, Crefs
<1>2. CASE freed # {}
  <2>1. freed \subseteq Nat
    BY <1>1
  <2>2. Min(freed) \in freed
    BY <1>2, <2>1, MinFacts
  <2>3. FreeSlot = Min(freed)
    BY <1>2 DEF FreeSlot
  <2> QED
    BY <1>1, <2>2, <2>3
<1>3. CASE freed = {}
  <2>1. FreeSlot = Len(arena) + 1
    BY <1>3 DEF FreeSlot
  <2> QED
    BY <1>1, <2>1
<1> QED
  BY <1>2, <1>3

\* Two of the lists are one entry longer.
Lengthened(ws, c, s) ==
    /\ ws \in [Lits -> Seq(Watchers)]
    /\ s[1] \in Lits /\ s[2] \in Lits
    /\ Watcher(c, s[1]) \in Watchers /\ Watcher(c, s[2]) \in Watchers
    /\ ws[s[1]] = Append(watches[s[1]], Watcher(c, s[2]))
    /\ ws[s[2]] = Append(watches[s[2]], Watcher(c, s[1]))
    /\ \A l \in Lits \ {s[1], s[2]} : ws[l] = watches[l]

LEMMA WatchedFacts ==
    ASSUME PropTypeOK, NEW c \in 0..MaxSlots, NEW s \in Seq(Lits), Len(s) >= 2, s[1] # s[2],
           NEW ws, ws = Watched(c, s)
    PROVE  Lengthened(ws, c, s)
<1>1. s[1] \in Lits /\ s[2] \in Lits
  BY LenProperties, ElementOfSeq
<1>2. Watcher(c, s[1]) \in Watchers /\ Watcher(c, s[2]) \in Watchers
  BY <1>1, WatcherParts
<1>3. watches \in [Lits -> Seq(Watchers)]
  BY DEF PropTypeOK
<1> DEFINE p == Append(watches[s[1]], Watcher(c, s[2]))
           q == Append(watches[s[2]], Watcher(c, s[1]))
<1>4. p \in Seq(Watchers) /\ q \in Seq(Watchers)
  BY <1>1, <1>2, <1>3, AppendProperties
<1>5. ws = [watches EXCEPT ![s[1]] = p, ![s[2]] = q]
  BY DEF Watched
<1> HIDE DEF p, q
<1>6. ws \in [Lits -> Seq(Watchers)] /\ ws[s[1]] = p /\ ws[s[2]] = q
  BY <1>1, <1>3, <1>4, <1>5
<1>7. \A l \in Lits \ {s[1], s[2]} : ws[l] = watches[l]
  BY <1>1, <1>3, <1>5
<1> QED
  BY <1>1, <1>2, <1>6, <1>7 DEF p, q, Lengthened

\* Attaching s keeps every clause, and adds only the two watchers of s.  The
\* reference c in them is 0 for a binary clause.
Attaches(s, c) ==
    /\ arena' \in Seq([lits : Seq(Lits), kind : Kinds, lbd : Nat])
    /\ watches' \in [Lits -> Seq(Watchers)]
    /\ binaries' \subseteq Clauses /\ learntBins' \subseteq Clauses
    /\ ClausesSound' /\ WatchListsMatch'
    /\ \A d \in Crefs : Live(d) => d \in Crefs' /\ Live(d)' /\ Body(d)' = Body(d)
    /\ binaries \cup learntBins \subseteq (binaries \cup learntBins)'
    /\ c = 0 => Len(s) = 2 /\ {s[1], s[2]} \in (binaries \cup learntBins)'
    /\ c # 0 => c \in Crefs' /\ Live(c)' /\ Body(c)' = s
    /\ \A l \in Lits : \A w \in ToSet(List(l)') :
          \/ w \in ToSet(List(l))
          \/ l = s[1] /\ w = Watcher(c, s[2])
          \/ l = s[2] /\ w = Watcher(c, s[1])

LEMMA BinaryAttaches ==
    ASSUME PropInv, visit = NoVisit, visit' = NoVisit,
           NEW s \in Seq(Lits), Len(s) = 2, IsInjective(s), NEW kind, AttachBinary(s, kind)
    PROVE  Attaches(s, 0)
<1> DEFINE a == s[1]
           b == s[2]
           bins == binaries \cup learntBins
<1>1. /\ PropTypeOK /\ ClausesSound /\ WatchListsMatch /\ MaxSlots \in Nat
      /\ watches' = Watched(0, s) /\ arena' = arena
  BY PropagationAssumption DEF PropInv, AttachBinary
<1>2. DOMAIN s = 1..2 /\ 1 \in 1..2 /\ 2 \in 1..2 /\ a # b
  BY LenProperties DEF IsInjective
<1>3. /\ watches' \in [Lits -> Seq(Watchers)] /\ a \in Lits /\ b \in Lits
      /\ Watcher(0, a) \in Watchers /\ Watcher(0, b) \in Watchers
      /\ watches'[a] = Append(watches[a], Watcher(0, b))
      /\ watches'[b] = Append(watches[b], Watcher(0, a))
      /\ \A l \in Lits \ {a, b} : watches'[l] = watches[l]
  <2>1. 0 \in 0..MaxSlots /\ Len(s) >= 2 /\ s[1] # s[2] /\ PropTypeOK
    BY <1>1, <1>2
  <2>2. PICK ws : ws = Watched(0, s)
    OBVIOUS
  <2>3. Lengthened(ws, 0, s)
    BY <2>1, <2>2, WatchedFacts
  <2> QED
    BY <1>1, <2>2, <2>3 DEF Lengthened
<1>4. ToSet(s) = {a, b}
  BY <1>2 DEF ToSet
<1>5. /\ (binaries \cup learntBins)' = bins \cup {{a, b}}
      /\ binaries' \subseteq Clauses /\ learntBins' \subseteq Clauses
  <2>1. {a, b} \in Clauses /\ binaries \subseteq Clauses /\ learntBins \subseteq Clauses
    BY <1>1, <1>3 DEF PropTypeOK, Clauses
  <2>2. \/ binaries' = binaries \cup {{a, b}} /\ learntBins' = learntBins
        \/ learntBins' = learntBins \cup {{a, b}} /\ binaries' = binaries
    BY <1>4 DEF AttachBinary
  <2> QED
    BY <2>1, <2>2
<1>6. \A c \in Crefs : Live(c) => c \in Crefs' /\ Live(c)' /\ Body(c)' = Body(c)
  BY <1>1 DEF Crefs, Live, Body
<1>7. ClausesSound'
  <2>1. \A c \in Crefs' : Live(c)' => Len(Body(c)') >= 3 /\ IsInjective(Body(c)')
    BY <1>1 DEF ClausesSound, Crefs, Live, Body
  <2>2. \A d \in bins \cup {{a, b}} : \E l, k \in Lits : l # k /\ d = {l, k}
    BY <1>1, <1>2, <1>3 DEF ClausesSound
  <2> QED
    BY <1>5, <2>1, <2>2 DEF ClausesSound
<1>8. \A l \in Lits : List(l) = watches[l] /\ List(l)' = watches'[l] /\ List(l) \in Seq(Watchers)
  BY <1>1, ListFacts DEF List, NoVisit
<1>9. ASSUME NEW l \in Lits, NEW k \in Lits, l # k, {l, k} = {a, b},
             watches'[l] = Append(watches[l], Watcher(0, k)), Watcher(0, k) \in Watchers
      PROVE  Matches(l, watches[l])' /\ ToSet(watches'[l]) = ToSet(watches[l]) \cup {Watcher(0, k)}
  <2> DEFINE w == Watcher(0, k)
  <2>1. /\ ToSet(watches'[l]) = ToSet(watches[l]) \cup {w}
        /\ \A c : c # 0 => /\ Once(watches[l], c) => Once(watches'[l], c)
                           /\ Never(watches[l], c) => Never(watches'[l], c)
    <3>1. watches[l] \in Seq(Watchers) /\ w \in Watchers /\ watches'[l] = Append(watches[l], w)
      BY <1>8, <1>9
    <3>2. w.cref = 0
      BY WatcherParts
    <3> HIDE DEF w
    <3> QED
      BY <3>1, <3>2, AppendEntry
  <2>2. Matches(l, watches[l])
    BY <1>1, <1>8 DEF WatchListsMatch
  <2>3. Binary(w) /\ w.blocker = k /\ w.cref = 0
    BY WatcherParts DEF Binary
  <2> HIDE DEF w
  <2>4. \A x \in ToSet(watches'[l]) :
            IF Binary(x) THEN {l, x.blocker} \in (binaries \cup learntBins)'
            ELSE x.cref \in Crefs' /\ Live(x.cref)' /\ x.blocker \in ToSet(Body(x.cref)')
    <3> TAKE x \in ToSet(watches'[l])
    <3>1. CASE x = w
      BY <1>5, <1>9, <2>3, <3>1
    <3>2. CASE x \in ToSet(watches[l])
      BY <1>5, <1>6, <2>2, <3>2 DEF Matches
    <3> QED
      BY <2>1, <3>1, <3>2
  <2>5. \A c \in {k2 \in Crefs' : Live(k2)'} :
            IF l \in {Body(c)'[1], Body(c)'[2]} THEN Once(watches'[l], c) ELSE Never(watches'[l], c)
    <3> TAKE c \in {k2 \in Crefs' : Live(k2)'}
    <3>1. c \in Crefs /\ Live(c) /\ Body(c)' = Body(c)
      BY <1>1 DEF Crefs, Live, Body
    <3>2. c # 0
      BY <1>1, <3>1, BodyFacts
    <3> QED
      BY <2>1, <2>2, <3>1, <3>2 DEF Matches
  <2>6. \A d \in (binaries \cup learntBins)' :
            l \in d => \E x \in ToSet(watches'[l]) : Binary(x) /\ {l, x.blocker} = d
    <3> TAKE d \in (binaries \cup learntBins)'
    <3>1. CASE d = {a, b}
      BY <1>9, <2>1, <2>3, <3>1
    <3>2. CASE d \in bins
      BY <2>1, <2>2, <3>2 DEF Matches
    <3> QED
      BY <1>5, <3>1, <3>2
  <2> QED
    BY <2>1, <2>4, <2>5, <2>6 DEF Matches, w
<1>10. /\ Matches(a, watches[a])' /\ ToSet(watches'[a]) = ToSet(watches[a]) \cup {Watcher(0, b)}
       /\ Matches(b, watches[b])' /\ ToSet(watches'[b]) = ToSet(watches[b]) \cup {Watcher(0, a)}
  BY <1>2, <1>3, <1>9
<1>11. ASSUME NEW l \in Lits \ {a, b} PROVE Matches(l, watches[l])'
  <2>1. Matches(l, watches[l]) /\ watches'[l] = watches[l]
    BY <1>1, <1>3, <1>8 DEF WatchListsMatch
  <2>2. l \notin {a, b}
    OBVIOUS
  <2> QED
    BY <1>1, <1>5, <2>1, <2>2 DEF Matches, Crefs, Live, Body
<1>12. WatchListsMatch'
  BY <1>8, <1>10, <1>11 DEF WatchListsMatch
<1>13. \A l \in Lits : \A w \in ToSet(List(l)') :
          \/ w \in ToSet(List(l))
          \/ l = a /\ w = Watcher(0, b)
          \/ l = b /\ w = Watcher(0, a)
  <2> SUFFICES ASSUME NEW l \in Lits, NEW w \in ToSet(watches'[l])
               PROVE  \/ w \in ToSet(watches[l])
                      \/ l = a /\ w = Watcher(0, b)
                      \/ l = b /\ w = Watcher(0, a)
    BY <1>8
  <2>1. CASE l = a
    BY <1>10, <2>1
  <2>2. CASE l = b
    BY <1>10, <2>2
  <2>3. CASE l \notin {a, b}
    BY <1>3, <2>3
  <2> QED
    BY <2>1, <2>2, <2>3
<1>15. arena' \in Seq([lits : Seq(Lits), kind : Kinds, lbd : Nat])
  BY <1>1 DEF PropTypeOK
<1>16. /\ binaries \cup learntBins \subseteq (binaries \cup learntBins)'
       /\ {s[1], s[2]} \in (binaries \cup learntBins)'
  BY <1>5
<1> QED
  BY <1>3, <1>5, <1>6, <1>7, <1>12, <1>13, <1>15, <1>16 DEF Attaches

LEMMA LongAttaches ==
    ASSUME PropInv, visit = NoVisit, visit' = NoVisit,
           NEW s \in Seq(Lits), Len(s) >= 3, IsInjective(s), NEW kind \in Kinds, NEW lbd \in Nat,
           AttachLong(s, kind, lbd)
    PROVE  FreeSlot # 0 /\ \E c : c = FreeSlot /\ Attaches(s, c)
<1> DEFINE a == s[1]
           b == s[2]
           body == [lits |-> s, kind |-> kind, lbd |-> lbd]
<1>0. PICK c0 : c0 = FreeSlot
  OBVIOUS
<1>1. /\ PropTypeOK /\ ClausesSound /\ WatchListsMatch
      /\ watches' = Watched(c0, s) /\ c0 <= MaxSlots
      /\ arena' = IF c0 \in Crefs THEN [arena EXCEPT ![c0] = body] ELSE Append(arena, body)
      /\ binaries' = binaries /\ learntBins' = learntBins
  BY <1>0 DEF PropInv, AttachLong
<1>2. /\ c0 \in 1..(Len(arena) + 1)
      /\ c0 \in Crefs => ~Live(c0)
      /\ c0 \notin Crefs => c0 = Len(arena) + 1
  BY <1>0, <1>1, FreeSlotFacts
<1>3. /\ arena \in Seq([lits : Seq(Lits), kind : Kinds, lbd : Nat])
      /\ Crefs = 1..Len(arena) /\ Len(arena) \in Nat
      /\ body \in [lits : Seq(Lits), kind : Kinds, lbd : Nat]
  BY <1>1, LenProperties DEF PropTypeOK, Crefs
<1>4. DOMAIN s = 1..Len(s) /\ Len(s) \in Nat /\ a # b /\ s # <<>>
  BY LenProperties, EmptySeq DEF IsInjective
<1>5. c0 \in Nat /\ c0 # 0 /\ c0 \in 0..MaxSlots
  BY <1>1, <1>2, <1>3, PropagationAssumption
<1>6. /\ arena' \in Seq([lits : Seq(Lits), kind : Kinds, lbd : Nat])
      /\ Crefs' = Crefs \cup {c0} /\ arena'[c0] = body
      /\ \A c \in Crefs : c # c0 => arena'[c] = arena[c]
  <2> HIDE DEF body
  <2>1. CASE c0 \in Crefs
    <3>1. arena' = [arena EXCEPT ![c0] = body]
      BY <1>1, <2>1
    <3>2. /\ arena' \in Seq([lits : Seq(Lits), kind : Kinds, lbd : Nat])
          /\ DOMAIN arena' = DOMAIN arena /\ arena'[c0] = body
          /\ \A c \in 1..Len(arena) : c # c0 => arena'[c] = arena[c]
      BY <1>3, <2>1, <3>1
    <3> QED
      BY <1>3, <2>1, <3>2 DEF Crefs
  <2>2. CASE c0 \notin Crefs
    <3>1. arena' = Append(arena, body) /\ c0 = Len(arena) + 1
      BY <1>1, <1>2, <2>2
    <3>2. /\ arena' \in Seq([lits : Seq(Lits), kind : Kinds, lbd : Nat])
          /\ Len(arena') = Len(arena) + 1 /\ arena'[c0] = body
          /\ \A c \in 1..Len(arena) : arena'[c] = arena[c]
      BY <1>3, <3>1, AppendProperties
    <3>3. DOMAIN arena' = 1..(Len(arena) + 1)
      BY <3>2, LenProperties
    <3>4. 1..(Len(arena) + 1) = 1..Len(arena) \cup {c0}
      BY <1>3, <3>1
    <3> QED
      BY <1>3, <3>2, <3>3, <3>4 DEF Crefs
  <2> QED
    BY <2>1, <2>2
<1>7. Live(c0)' /\ Body(c0)' = s
  <2>1. Body(c0)' = arena'[c0].lits /\ (Live(c0)' <=> arena'[c0].lits # <<>>)
    BY DEF Body, Live
  <2>2. arena'[c0].lits = s
    BY <1>6
  <2> QED
    BY <1>4, <2>1, <2>2
<1>8. \A c \in Crefs' : Live(c)' /\ c # c0 => c \in Crefs /\ Live(c) /\ Body(c)' = Body(c)
  BY <1>6 DEF Live, Body
<1>9. \A c \in Crefs : Live(c) => c # c0 /\ c \in Crefs' /\ Live(c)' /\ Body(c)' = Body(c)
  <2> SUFFICES ASSUME NEW c \in Crefs, Live(c)
               PROVE  c # c0 /\ c \in Crefs' /\ Live(c)' /\ Body(c)' = Body(c)
    OBVIOUS
  <2>1. c # c0
    BY <1>2
  <2>2. arena'[c] = arena[c] /\ c \in Crefs'
    BY <1>6, <2>1
  <2> QED
    BY <2>1, <2>2 DEF Live, Body
<1>10. ClausesSound'
  <2>1. ASSUME NEW c \in Crefs', Live(c)' PROVE Len(Body(c)') >= 3 /\ IsInjective(Body(c)')
    <3>1. CASE c = c0
      BY <1>7, <3>1
    <3>2. CASE c # c0
      BY <1>1, <1>8, <2>1, <3>2 DEF ClausesSound
    <3> QED
      BY <3>1, <3>2
  <2>2. \A d \in (binaries \cup learntBins)' : \E l, k \in Lits : l # k /\ d = {l, k}
    BY <1>1 DEF ClausesSound
  <2> QED
    BY <2>1, <2>2 DEF ClausesSound
<1>11. PICK ws : ws = Watched(c0, s)
  OBVIOUS
<1>12. /\ ws \in [Lits -> Seq(Watchers)] /\ s[1] \in Lits /\ s[2] \in Lits
       /\ Watcher(c0, s[1]) \in Watchers /\ Watcher(c0, s[2]) \in Watchers
       /\ ws[s[1]] = Append(watches[s[1]], Watcher(c0, s[2]))
       /\ ws[s[2]] = Append(watches[s[2]], Watcher(c0, s[1]))
       /\ \A l \in Lits \ {s[1], s[2]} : ws[l] = watches[l]
  <2>1. Len(s) >= 2 /\ s[1] # s[2] /\ c0 \in 0..MaxSlots /\ PropTypeOK
    BY <1>1, <1>4, <1>5
  <2>2. Lengthened(ws, c0, s)
    BY <1>11, <2>1, WatchedFacts
  <2> QED
    BY <2>2 DEF Lengthened
<1>13. watches' = ws
  BY <1>1, <1>11
<1>14. \A l \in Lits : List(l) = watches[l] /\ List(l)' = watches'[l] /\ List(l) \in Seq(Watchers)
  BY <1>1, ListFacts DEF List, NoVisit
<1>15. \A l \in Lits : Never(watches[l], c0)
  <2> SUFFICES ASSUME NEW l \in Lits, NEW j \in 1..Len(watches[l]), watches[l][j].cref = c0
               PROVE  FALSE
    BY DEF Never
  <2>1. PICK w \in ToSet(List(l)) : w.cref = c0
    BY <1>14, ToSetFacts
  <2>2. ~Binary(w)
    BY <1>5, <2>1 DEF Binary
  <2>3. w.cref \in Crefs /\ Live(w.cref)
    BY <1>1, <2>2, EntryFacts
  <2> QED
    BY <1>2, <2>1, <2>3
<1>16. ASSUME NEW l \in Lits, NEW k \in Lits, l # k, {l, k} = {a, b},
              ws[l] = Append(watches[l], Watcher(c0, k)), Watcher(c0, k) \in Watchers
       PROVE  Matches(l, watches[l])' /\ ToSet(ws[l]) = ToSet(watches[l]) \cup {Watcher(c0, k)}
  <2> DEFINE w == Watcher(c0, k)
  <2>1. ~Binary(w) /\ w.blocker = k /\ w.cref = c0
    BY <1>5, WatcherParts DEF Binary
  <2>2. /\ ToSet(ws[l]) = ToSet(watches[l]) \cup {w}
        /\ Once(ws[l], c0)
        /\ \A c : c # c0 => /\ Once(watches[l], c) => Once(ws[l], c)
                            /\ Never(watches[l], c) => Never(ws[l], c)
    <3>1. watches[l] \in Seq(Watchers) /\ w \in Watchers /\ ws[l] = Append(watches[l], w)
      BY <1>14, <1>16
    <3>2. Never(watches[l], w.cref)
      BY <1>15, <2>1
    <3> HIDE DEF w
    <3> QED
      BY <2>1, <3>1, <3>2, AppendEntry
  <2>3. Matches(l, watches[l])
    BY <1>1, <1>14 DEF WatchListsMatch
  <2>4. k \in ToSet(s) /\ l \in {s[1], s[2]}
    <3>1. s[1] \in ToSet(s) /\ s[2] \in ToSet(s)
      BY <1>4, ToSetFacts
    <3>2. l \in {a, b} /\ k \in {a, b}
      BY <1>16
    <3> QED
      BY <3>1, <3>2
  <2> HIDE DEF w
  <2>5. \A x \in ToSet(ws[l]) :
            IF Binary(x) THEN {l, x.blocker} \in (binaries \cup learntBins)'
            ELSE x.cref \in Crefs' /\ Live(x.cref)' /\ x.blocker \in ToSet(Body(x.cref)')
    <3> TAKE x \in ToSet(ws[l])
    <3>1. CASE x = w
      BY <1>6, <1>7, <2>1, <2>4, <3>1
    <3>2. CASE x \in ToSet(watches[l])
      BY <1>1, <1>9, <2>3, <3>2 DEF Matches
    <3> QED
      BY <2>2, <3>1, <3>2
  <2>6. \A c \in {d \in Crefs' : Live(d)'} :
            IF l \in {Body(c)'[1], Body(c)'[2]} THEN Once(ws[l], c) ELSE Never(ws[l], c)
    <3> TAKE c \in {d \in Crefs' : Live(d)'}
    <3>1. CASE c = c0
      BY <1>7, <2>2, <2>4, <3>1
    <3>2. CASE c # c0
      BY <1>8, <2>2, <2>3, <3>2 DEF Matches
    <3> QED
      BY <3>1, <3>2
  <2>7. \A d \in (binaries \cup learntBins)' :
            l \in d => \E x \in ToSet(ws[l]) : Binary(x) /\ {l, x.blocker} = d
    BY <1>1, <2>2, <2>3 DEF Matches
  <2>8. Matches(l, watches[l])'
    BY <1>13, <2>5, <2>6, <2>7 DEF Matches
  <2> QED
    BY <2>2, <2>8 DEF w
<1>17. /\ Matches(a, watches[a])' /\ ToSet(ws[a]) = ToSet(watches[a]) \cup {Watcher(c0, b)}
       /\ Matches(b, watches[b])' /\ ToSet(ws[b]) = ToSet(watches[b]) \cup {Watcher(c0, a)}
  BY <1>4, <1>12, <1>16
<1>18. ASSUME NEW l \in Lits \ {a, b} PROVE Matches(l, watches[l])'
  <2>1. Matches(l, watches[l]) /\ watches'[l] = watches[l] /\ Never(watches[l], c0)
    BY <1>1, <1>12, <1>13, <1>14, <1>15 DEF WatchListsMatch
  <2>2. \A x \in ToSet(watches[l]) :
            IF Binary(x) THEN {l, x.blocker} \in (binaries \cup learntBins)'
            ELSE x.cref \in Crefs' /\ Live(x.cref)' /\ x.blocker \in ToSet(Body(x.cref)')
    BY <1>1, <1>9, <2>1 DEF Matches
  <2>3. \A c \in {d \in Crefs' : Live(d)'} :
            IF l \in {Body(c)'[1], Body(c)'[2]} THEN Once(watches[l], c) ELSE Never(watches[l], c)
    <3> TAKE c \in {d \in Crefs' : Live(d)'}
    <3>1. CASE c = c0
      BY <1>7, <2>1, <3>1
    <3>2. CASE c # c0
      BY <1>8, <2>1, <3>2 DEF Matches
    <3> QED
      BY <3>1, <3>2
  <2>4. \A d \in (binaries \cup learntBins)' :
            l \in d => \E x \in ToSet(watches[l]) : Binary(x) /\ {l, x.blocker} = d
    BY <1>1, <2>1 DEF Matches
  <2> QED
    BY <2>1, <2>2, <2>3, <2>4 DEF Matches
<1>19. WatchListsMatch'
  BY <1>14, <1>17, <1>18 DEF WatchListsMatch
<1>20. \A l \in Lits : \A w \in ToSet(List(l)') :
          \/ w \in ToSet(List(l))
          \/ l = a /\ w = Watcher(c0, b)
          \/ l = b /\ w = Watcher(c0, a)
  <2> SUFFICES ASSUME NEW l \in Lits, NEW w \in ToSet(ws[l])
               PROVE  \/ w \in ToSet(watches[l])
                      \/ l = a /\ w = Watcher(c0, b)
                      \/ l = b /\ w = Watcher(c0, a)
    BY <1>13, <1>14
  <2>1. CASE l = a
    BY <1>17, <2>1
  <2>2. CASE l = b
    BY <1>17, <2>2
  <2>3. CASE l \notin {a, b}
    BY <1>12, <2>3
  <2> QED
    BY <2>1, <2>2, <2>3
<1>22. watches' \in [Lits -> Seq(Watchers)] /\ binaries' \subseteq Clauses /\ learntBins' \subseteq Clauses
  BY <1>1, <1>12, <1>13 DEF PropTypeOK
<1>23. binaries \cup learntBins \subseteq (binaries \cup learntBins)' /\ c0 \in Crefs'
  BY <1>1, <1>6
<1>24. Attaches(s, c0)
  BY <1>5, <1>6, <1>7, <1>9, <1>10, <1>19, <1>20, <1>22, <1>23 DEF Attaches
<1> QED
  BY <1>0, <1>5, <1>24

\* The literal l may be watched in s: it is not false at a visited position,
\* or a literal of s that no later backtracking unassigns first is true.
Watchable(t, l, s) ==
    (\E i \in 1..t.qhead : t.lits[i] = -l) => Harmless(t, l, ToSet(s))

\* A clause attached as the trail is cut, and at most one literal enqueued.
LEMMA AttachStep ==
    ASSUME PropInv, visit = NoVisit, visit' = NoVisit,
           NEW s \in Seq(Lits), Len(s) >= 2, NEW c, Attaches(s, c),
           NEW m, Continues(trail, trail', m), conflict = <<>> \/ m < trail.qhead,
           Len(trail'.lits) = m + 1 => ReasonRight(m + 1)',
           Watchable(trail', s[1], s), Watchable(trail', s[2], s)
    PROVE  /\ WellFormed(trail)' /\ ClausesSound' /\ WatchListsMatch'
           /\ NothingMissed' /\ LevelsExact' /\ ReasonsOrdered'
<1>1. WellFormed(trail)' /\ ClausesSound' /\ WatchListsMatch'
  BY DEF Continues, Attaches
<1>2. 1 \in 1..Len(s) /\ 2 \in 1..Len(s) /\ s[1] \in Lits /\ s[2] \in Lits
  BY LenProperties, ElementOfSeq
<1>3. ASSUME NEW l \in Lits, NEW k \in Lits, {l, k} = {s[1], s[2]}, Watchable(trail', l, s),
             Visited(l, Watcher(c, k))'
      PROVE  Harmless(trail', l, Claimed(Watcher(c, k))')
  <2>1. PICK i \in 1..trail'.qhead : trail'.lits[i] = -l
    BY <1>3 DEF Visited
  <2>2. PICK q \in ToSet(s) : IsTrue(trail', q) /\ LitLevel(trail', q) <= LitLevel(trail', l)
    BY <1>3, <2>1 DEF Watchable, Harmless
  <2>3. CASE c = 0
    <3>1. ToSet(s) = {l, k}
      <4>1. Len(s) = 2 /\ DOMAIN s = 1..2
        BY <2>3, LenProperties DEF Attaches
      <4>2. ToSet(s) = {s[1], s[2]}
        BY <4>1 DEF ToSet
      <4> QED
        BY <1>3, <4>2
    <3>2. i \in 1..Len(trail'.lits)
      BY <1>1, TrailParts DEF WellFormed
    <3>3. q # l
      BY <1>1, <2>1, <2>2, <3>2, TruthFacts
    <3>4. Claimed(Watcher(c, k))' = {k}
      BY <2>3, WatcherParts DEF Claimed, Binary
    <3> QED
      BY <2>2, <3>1, <3>3, <3>4 DEF Harmless
  <2>4. CASE c # 0
    <3>1. Claimed(Watcher(c, k))' = ToSet(s)
      BY <2>4, WatcherParts DEF Claimed, Binary, Attaches
    <3> QED
      BY <2>2, <3>1 DEF Harmless
  <2> QED
    BY <2>3, <2>4
<1>4. NothingMissed'
  <2> SUFFICES ASSUME NEW l \in Lits, NEW w \in ToSet(List(l)'), Visited(l, w)'
               PROVE  Harmless(trail', l, Claimed(w)')
    BY DEF NothingMissed
  <2>1. CASE w \in ToSet(List(l))
    <3>1. Visited(l, w) /\ \E i \in 1..m : trail.lits[i] = -l
      BY VisitedBefore
    <3>2. Harmless(trail, l, Claimed(w)) /\ Claimed(w) \subseteq Lits
      BY <2>1, <3>1, EntryFacts DEF PropInv, NothingMissed
    <3>3. Claimed(w)' = Claimed(w)
      <4>1. CASE Binary(w)
        BY <4>1 DEF Claimed
      <4>2. CASE ~Binary(w)
        <5>1. w.cref \in Crefs /\ Live(w.cref)
          BY <2>1, <4>2, EntryFacts DEF PropInv
        <5> QED
          BY <4>2, <5>1 DEF Claimed, Attaches
      <4> QED
        BY <4>1, <4>2
    <3> QED
      BY <3>1, <3>2, <3>3, HarmlessKept
  <2>2. CASE l = s[1] /\ w = Watcher(c, s[2])
    BY <1>2, <1>3, <2>2
  <2>3. CASE l = s[2] /\ w = Watcher(c, s[1])
    BY <1>2, <1>3, <2>3
  <2>4. \/ w \in ToSet(List(l))
        \/ l = s[1] /\ w = Watcher(c, s[2])
        \/ l = s[2] /\ w = Watcher(c, s[1])
    BY DEF Attaches
  <2> QED
    BY <2>1, <2>2, <2>3, <2>4
<1>5. LevelsExact' /\ ReasonsOrdered'
  BY ReasonsKept DEF Attaches
<1> QED
  BY <1>1, <1>4, <1>5

\* The reason under which the first literal of s follows.
Because(s, c) == IF Len(s) = 2 THEN ByBinary(s[2]) ELSE ByClause(c)

\* The first literal of s is enqueued because its other literals are false, one
\* of them at the level of the trail u.
LEMMA ImpliedRight ==
    ASSUME NEW s \in Seq(Lits), Len(s) >= 2, NEW c \in Nat, c = 0 <=> Len(s) = 2,
           NEW u, WellFormed(u), NEW m, m = Len(u.lits), IsUndef(u, s[1]),
           \A i \in 2..Len(s) : IsFalse(u, s[i]) /\ LitLevel(u, s[i]) <= LevelOf(u),
           \E i \in 2..Len(s) : LitLevel(u, s[i]) = LevelOf(u),
           trail' = Enqueued(u, s[1], Because(s, c)),
           c # 0 => c \in Crefs' /\ Live(c)' /\ Body(c)' = s,
           c = 0 => {s[1], s[2]} \in (binaries \cup learntBins)'
    PROVE  /\ ReasonRight(m + 1)' /\ LitLevel(trail', s[1]) = LevelOf(u)
           /\ \A i \in 2..Len(s) : LitLevel(trail', s[i]) = LitLevel(u, s[i])
           /\ Because(s, c) \in Reasons
<1>1. /\ 1 \in 1..Len(s) /\ 2 \in 1..Len(s) /\ 2 \in 2..Len(s)
      /\ s[1] \in Lits /\ s[2] \in Lits /\ DOMAIN s = 1..Len(s) /\ Len(s) \in Nat
      /\ \A i \in 2..Len(s) : i \in 1..Len(s) /\ s[i] \in Lits
  BY LenProperties, ElementOfSeq
<1>2. PICK r : r = Because(s, c)
  OBVIOUS
<1>3. r \in Reasons /\ r # Decision
  BY <1>1, <1>2, LitFacts DEF Because, ByBinary, ByClause, Decision, Reasons
<1>w. PICK w : w = trail' /\ w = Enqueued(u, s[1], r)
  BY <1>2
<1>4. m \in Nat /\ trail'.lits[m + 1] = s[1]
  <2>1. m \in Nat
    BY TrailParts DEF WellFormed
  <2>2. w.lits[m + 1] = s[1]
    BY SMTT(60), <1>1, <1>3, <1>w, EnqueuedFacts DEF WellFormed
  <2> QED
    BY <1>w, <2>1, <2>2
<1>5. /\ LitLevel(trail', s[1]) = LevelOf(u) /\ ReasonOf(trail', s[1]) = r
      /\ Continues(u, trail', m)
  <2>1. LitLevel(w, s[1]) = LevelOf(u) /\ ReasonOf(w, s[1]) = r
    BY <1>1, <1>3, <1>w, EnqueuedFacts DEF WellFormed
  <2>2. Continues(u, w, m)
    BY <1>1, <1>3, <1>w, EnqueueContinues
  <2> QED
    BY <1>w, <2>1, <2>2
<1>6. ASSUME NEW i \in 2..Len(s)
      PROVE  /\ \E j \in 1..m : trail'.lits[j] = -s[i]
             /\ LitLevel(trail', s[i]) = LitLevel(u, s[i])
  <2>1. PICK j \in 1..m : u.lits[j] = -s[i]
    BY <1>1, <1>4, TruthFacts
  <2> QED
    BY <1>1, <1>5, <2>1, SamePast
<1>7. LevelOf(u) \in Nat
  BY TrailParts DEF WellFormed, LevelOf
<1>8. PICK tail : tail = ReasonTail(trail, s[1])'
  OBVIOUS
<1>9. ToSet(tail) = {s[i] : i \in 2..Len(s)}
  <2>1. CASE c = 0
    <3>1. r = ByBinary(s[2]) /\ Len(s) = 2
      BY <1>2, <2>1 DEF Because
    <3>2. tail = <<s[2]>>
      BY <1>5, <1>8, <3>1 DEF ReasonTail, ByBinary
    <3>3. 2..Len(s) = {2}
      BY <3>1
    <3> QED
      BY <3>2, <3>3 DEF ToSet
  <2>2. CASE c # 0
    <3>1. r = ByClause(c)
      BY <1>2, <2>2 DEF Because
    <3>2. tail = Tail(s)
      BY <1>5, <1>8, <2>2, <3>1 DEF ReasonTail, ByClause
    <3>3. /\ tail \in Seq(Lits) /\ Len(tail) = Len(s) - 1
          /\ \A i \in 1..(Len(s) - 1) : tail[i] = s[i + 1]
      BY <1>1, <3>2, HeadTailProperties, EmptySeq
    <3>4. DOMAIN tail = 1..(Len(s) - 1)
      BY <3>3, LenProperties
    <3>5. /\ \A i \in 2..Len(s) : i - 1 \in 1..(Len(s) - 1) /\ (i - 1) + 1 = i
          /\ \A i \in 1..(Len(s) - 1) : i + 1 \in 2..Len(s)
      BY <1>1
    <3>6. \A i \in 2..Len(s) : tail[i - 1] = s[i]
      BY <3>3, <3>5
    <3>7. ToSet(tail) = {tail[i] : i \in 1..(Len(s) - 1)}
      BY <3>4 DEF ToSet
    <3>8. \A i \in 1..(Len(s) - 1) : tail[i] \in {s[k] : k \in 2..Len(s)}
      BY <3>3, <3>5
    <3>9. \A i \in 2..Len(s) : s[i] \in {tail[k] : k \in 1..(Len(s) - 1)}
      BY <3>5, <3>6
    <3> HIDE <3>3, <3>4, <3>5, <3>6
    <3> QED
      BY <3>7, <3>8, <3>9
  <2> QED
    BY <2>1, <2>2
<1>10. LevelOf(u) = Max({LitLevel(trail', q) : q \in ToSet(tail)})
  <2> DEFINE levels == {LitLevel(trail', q) : q \in ToSet(tail)}
  <2>1. \A i \in 2..Len(s) : LitLevel(trail', s[i]) \in 0..LevelOf(u)
    BY <1>1, <1>6, TruthFacts
  <2>2. levels \subseteq Int /\ LevelOf(u) \in levels
    BY <1>1, <1>6, <1>7, <1>9, <2>1
  <2>3. \A x \in levels : x <= LevelOf(u)
    BY <1>6, <1>9
  <2> HIDE DEF levels
  <2>4. Max(levels) = LevelOf(u)
    BY <2>2, <2>3, MaxIs
  <2> QED
    BY <2>4 DEF levels
<1>11. ReasonRight(m + 1)'
  <2>1. \A q \in ToSet(tail) : \E j \in 1..((m + 1) - 1) : trail'.lits[j] = -q
    <3>1. (m + 1) - 1 = m
      BY <1>4
    <3> QED
      BY <1>6, <1>9, <3>1
  <2>2. r.cref # 0 => r.cref \in Crefs' /\ Live(r.cref)' /\ Body(r.cref)'[1] = s[1]
    BY <1>2 DEF Because, ByBinary, ByClause
  <2>3. r.cref = 0 => {s[1], r.other} \in (binaries \cup learntBins)'
    BY <1>2 DEF Because, ByBinary, ByClause
  <2>4. LitLevel(trail', s[1]) = Max({LitLevel(trail', q) : q \in ToSet(tail)})
    BY <1>5, <1>10
  <2> QED
    BY <1>4, <1>5, <1>8, <2>1, <2>2, <2>3, <2>4 DEF ReasonRight
<1> QED
  BY <1>2, <1>3, <1>5, <1>6, <1>11

\* A clause attached and asserted: the trail is cut to the level of its second
\* literal, the deepest of the false ones, and its first literal enqueued.
LEMMA AssertStep ==
    ASSUME PropInv, visit = NoVisit, visit' = NoVisit,
           NEW s \in Seq(Lits), Len(s) >= 2, NEW c \in Nat, Attaches(s, c), c = 0 <=> Len(s) = 2,
           NEW u, NEW m, Continues(trail, u, m), Len(u.lits) = m,
           conflict = <<>> \/ m < trail.qhead,
           IsUndef(u, s[1]), \A i \in 2..Len(s) : IsFalse(u, s[i]) /\ LitLevel(u, s[i]) <= LevelOf(u),
           LitLevel(u, s[2]) = LevelOf(u),
           trail' = Enqueued(u, s[1], Because(s, c))
    PROVE  /\ WellFormed(trail)' /\ ClausesSound' /\ WatchListsMatch'
           /\ NothingMissed' /\ LevelsExact' /\ ReasonsOrdered'
<1>1. /\ 1 \in 1..Len(s) /\ 2 \in 1..Len(s) /\ 2 \in 2..Len(s)
      /\ s[1] \in Lits /\ s[2] \in Lits
  BY LenProperties, ElementOfSeq
<1>2. PICK r, w : r = Because(s, c) /\ w = trail' /\ w = Enqueued(u, s[1], r)
  OBVIOUS
<1>3. WellFormed(u) /\ LevelOf(u) \in Nat
  BY TrailParts DEF Continues, WellFormed, LevelOf
<1>4. /\ ReasonRight(m + 1)' /\ LitLevel(trail', s[1]) = LevelOf(u)
      /\ LitLevel(trail', s[2]) = LevelOf(u)
      /\ r \in Reasons
  <2>1. \E i \in 2..Len(s) : LitLevel(u, s[i]) = LevelOf(u)
    BY <1>1
  <2>2. c = 0 => {s[1], s[2]} \in (binaries \cup learntBins)'
    BY DEF Attaches
  <2>3. c # 0 => c \in Crefs' /\ Live(c)' /\ Body(c)' = s
    BY DEF Attaches
  <2>4. /\ ReasonRight(m + 1)' /\ LitLevel(trail', s[1]) = LevelOf(u)
        /\ \A i \in 2..Len(s) : LitLevel(trail', s[i]) = LitLevel(u, s[i])
        /\ Because(s, c) \in Reasons
    BY <1>3, <2>1, <2>2, <2>3, ImpliedRight
  <2> QED
    BY <1>1, <1>2, <2>4
<1>5. /\ Continues(trail, trail', m) /\ Len(trail'.lits) = m + 1 /\ trail'.lits[m + 1] = s[1]
      /\ WellFormed(trail)'
  <2>1. Continues(trail, w, m) /\ Len(w.lits) = m + 1 /\ w.lits[m + 1] = s[1]
    BY <1>1, <1>2, <1>4, CutThenEnqueue
  <2>2. WellFormed(w)
    BY <2>1 DEF Continues
  <2> QED
    BY <1>2, <2>1, <2>2
<1>6. Watchable(trail', s[1], s) /\ Watchable(trail', s[2], s)
  <2>1. m + 1 \in 1..Len(trail'.lits)
    BY <1>5 DEF Continues
  <2>2. IsTrue(trail', s[1]) /\ ~IsFalse(trail', s[1]) /\ s[1] \in ToSet(s)
    BY <1>1, <1>5, <2>1, TruthFacts, ToSetFacts
  <2>3. Harmless(trail', s[2], ToSet(s))
    BY <1>3, <1>4, <2>2 DEF Harmless
  <2>4. trail'.qhead \in Nat /\ trail'.qhead <= Len(trail'.lits) /\ Len(trail'.lits) \in Nat
    BY <1>5, TrailParts DEF WellFormed
  <2>5. ~ \E i \in 1..trail'.qhead : trail'.lits[i] = -s[1]
    <3>1. \A i \in 1..trail'.qhead : i \in 1..Len(trail'.lits)
      BY <2>4
    <3> QED
      BY <1>1, <1>5, <2>2, <3>1, TruthFacts
  <2> QED
    BY <2>3, <2>5 DEF Watchable
<1> QED
  BY <1>4, <1>5, <1>6, AttachStep

(***************************************************************************)
(* The client's steps, taken while nothing is traversed.                    *)
(***************************************************************************)
\* The facts of TrailStep and AttachStep make the invariant.
DbTyped ==
    /\ arena \in Seq([lits : Seq(Lits), kind : Kinds, lbd : Nat])
    /\ watches \in [Lits -> Seq(Watchers)]
    /\ binaries \subseteq Clauses /\ learntBins \subseteq Clauses

LEMMA Settled ==
    ASSUME visit' = NoVisit, conflict' = <<>>, DbTyped', formula' \subseteq InputClauses,
           dead' \in BOOLEAN, WellFormed(trail)', ClausesSound', WatchListsMatch',
           NothingMissed', LevelsExact', ReasonsOrdered'
    PROVE  PropInv'
<1>1. visit' \in [lit : Lits \cup {0}, kept : Seq(Watchers), rest : Seq(Watchers)]
  BY EmptySeq DEF NoVisit
<1>2. conflict' \in Seq(Lits)
  BY EmptySeq
<1>3. trail' \in TrailType
  BY DEF WellFormed
<1>4. PropTypeOK'
  BY <1>1, <1>2, <1>3 DEF PropTypeOK, DbTyped
<1>5. VisitSound'
  BY DEF VisitSound, Busy
<1> QED
  BY <1>4, <1>5 DEF PropInv

LEMMA TypedDb ==
    PropInv => /\ DbTyped /\ formula \subseteq InputClauses /\ dead \in BOOLEAN
               /\ conflict \in Seq(Lits) /\ WellFormed(trail)
  BY DEF PropInv, PropTypeOK, DbTyped

\* A cut below a conflict takes the literal whose visit found it.
LEMMA CutForgets ==
    ASSUME PropInv, NEW n \in Nat, n < LevelOf(trail), conflict # <<>>,
           NEW m, m = trail.lim[n + 1]
    PROVE  m < trail.qhead
<1>1. Len(trail.lim) \in Nat /\ LevelOf(trail) = Len(trail.lim)
  BY TypedDb, TrailParts DEF WellFormed, LevelOf
<1>2. n + 1 \in 1..Len(trail.lim)
  BY <1>1
<1> QED
  BY <1>2 DEF PropInv, VisitSound

\* cancel_until, which also forgets a conflict of the levels it takes.
LEMMA CutStep ==
    ASSUME PropInv, visit = NoVisit, visit' = NoVisit, conflict' = <<>>, UNCHANGED dbVars,
           formula' \subseteq InputClauses, dead' \in BOOLEAN,
           NEW n \in Nat, conflict = <<>> \/ n < LevelOf(trail), trail' = Cancelled(trail, n)
    PROVE  PropInv'
<1>1. PICK u : u = trail' /\ u = Cancelled(trail, n)
  OBVIOUS
<1>2. PICK m \in 0..Len(trail.lits) : /\ Continues(trail, u, m) /\ Len(u.lits) = m
                                      /\ n < LevelOf(trail) => m = trail.lim[n + 1]
  <2>1. PICK m \in 0..Len(trail.lits) : CutAt(trail, u, n, m)
    BY <1>1, TypedDb, CancelContinues
  <2> QED
    BY <2>1 DEF CutAt
<1>3. conflict = <<>> \/ m < trail.qhead
  BY <1>2, CutForgets
<1>4. Continues(trail, trail', m) /\ Len(trail'.lits) # m + 1
  BY <1>1, <1>2
<1>5. /\ WellFormed(trail)' /\ ClausesSound' /\ WatchListsMatch'
      /\ NothingMissed' /\ LevelsExact' /\ ReasonsOrdered'
  BY <1>3, <1>4, TrailStep
<1>6. DbTyped'
  BY TypedDb DEF DbTyped, dbVars
<1> QED
  BY <1>5, <1>6, Settled

\* A decision, when everything before it has been propagated.
LEMMA DecideStep ==
    ASSUME PropInv, Quiet, visit' = visit, conflict' = conflict, UNCHANGED dbVars,
           formula' \subseteq InputClauses, dead' \in BOOLEAN,
           NEW l \in Lits, IsUndef(trail, l), trail' = Enqueued(Opened(trail), l, Decision)
    PROVE  PropInv'
<1>1. /\ visit = NoVisit /\ visit' = NoVisit /\ conflict = <<>> /\ conflict' = <<>>
      /\ trail.qhead = Len(trail.lits)
  BY DEF Quiet
<1>2. PICK u, m : u = trail' /\ u = Enqueued(Opened(trail), l, Decision) /\ m = Len(trail.lits)
  OBVIOUS
<1>3. Continues(trail, u, m) /\ u.lits[m + 1] = l /\ ReasonOf(u, l) = Decision
  BY <1>1, <1>2, TypedDb, DecideContinues
<1>4. Continues(trail, trail', m) /\ ReasonRight(m + 1)'
  BY <1>2, <1>3 DEF ReasonRight
<1>5. /\ WellFormed(trail)' /\ ClausesSound' /\ WatchListsMatch'
      /\ NothingMissed' /\ LevelsExact' /\ ReasonsOrdered'
  BY <1>1, <1>4, TrailStep
<1>6. DbTyped'
  BY TypedDb DEF DbTyped, dbVars
<1> QED
  BY <1>1, <1>5, <1>6, Settled

\* A level that is opened and left empty.
LEMMA OpenStep ==
    ASSUME PropInv, Quiet, visit' = visit, conflict' = conflict, UNCHANGED dbVars,
           formula' \subseteq InputClauses, dead' \in BOOLEAN, trail' = Opened(trail)
    PROVE  PropInv'
<1>1. /\ visit = NoVisit /\ visit' = NoVisit /\ conflict = <<>> /\ conflict' = <<>>
      /\ trail.qhead = Len(trail.lits)
  BY DEF Quiet
<1>2. PICK u, m : u = trail' /\ u = Opened(trail) /\ m = Len(trail.lits)
  OBVIOUS
<1>3. Continues(trail, u, m) /\ u.lits = trail.lits /\ m \in Nat
  BY <1>1, <1>2, TypedDb, OpenContinues, TrailParts DEF WellFormed
<1>4. Continues(trail, trail', m) /\ Len(trail'.lits) # m + 1
  BY <1>2, <1>3
<1>5. /\ WellFormed(trail)' /\ ClausesSound' /\ WatchListsMatch'
      /\ NothingMissed' /\ LevelsExact' /\ ReasonsOrdered'
  BY <1>1, <1>4, TrailStep
<1>6. DbTyped'
  BY TypedDb DEF DbTyped, dbVars
<1> QED
  BY <1>1, <1>5, <1>6, Settled

\* A fact is enqueued at the level the trail is cut to.
LEMMA FactStep ==
    ASSUME PropInv, visit = NoVisit, visit' = NoVisit, UNCHANGED dbVars,
           NEW n \in Nat, conflict = <<>> \/ n < LevelOf(trail), NEW u, u = Cancelled(trail, n),
           NEW l \in Lits, IsUndef(u, l), trail' = Enqueued(u, l, Decision)
    PROVE  /\ WellFormed(trail)' /\ ClausesSound' /\ WatchListsMatch'
           /\ NothingMissed' /\ LevelsExact' /\ ReasonsOrdered'
<1>1. PICK m \in 0..Len(trail.lits) : /\ Continues(trail, u, m) /\ Len(u.lits) = m
                                      /\ n < LevelOf(trail) => m = trail.lim[n + 1]
  <2>1. PICK m \in 0..Len(trail.lits) : CutAt(trail, u, n, m)
    BY TypedDb, CancelContinues
  <2> QED
    BY <2>1 DEF CutAt
<1>2. conflict = <<>> \/ m < trail.qhead
  BY <1>1, CutForgets
<1>3. Decision \in Reasons
  BY DEF Decision, Reasons
<1>4. PICK w : w = trail' /\ w = Enqueued(u, l, Decision)
  OBVIOUS
<1>5. Continues(trail, w, m) /\ w.lits[m + 1] = l
  BY <1>1, <1>3, <1>4, CutThenEnqueue
<1>6. ReasonOf(w, l) = Decision
  BY <1>1, <1>3, <1>4, EnqueuedFacts DEF Continues, WellFormed
<1>7. Continues(trail, trail', m) /\ ReasonRight(m + 1)'
  BY <1>4, <1>5, <1>6 DEF ReasonRight
<1> QED
  BY <1>2, <1>7, TrailStep

LEMMA AttachFacts ==
    ASSUME PropInv, visit = NoVisit, visit' = NoVisit,
           NEW s \in Seq(Lits), Len(s) >= 2, IsInjective(s),
           NEW kind \in Kinds, NEW lbd \in Nat, Attach(s, kind, lbd)
    PROVE  \E c \in Nat : /\ Attaches(s, c) /\ (c = 0 <=> Len(s) = 2)
                          /\ ReasonFrom(s) = Because(s, c)
<1>0. PICK n \in Nat : n = Len(s) /\ n >= 2
  BY LenProperties
<1>1. n = 2 \/ n >= 3
  BY <1>0
<1>2. CASE n = 2
  <2>1. Attaches(s, 0)
    BY <1>0, <1>2, BinaryAttaches DEF Attach
  <2>2. ReasonFrom(s) = Because(s, 0)
    BY <1>0, <1>2 DEF ReasonFrom, Because
  <2> QED
    BY <1>0, <1>2, <2>1, <2>2
<1>3. CASE n >= 3
  <2>0. n # 2
    BY <1>3
  <2>1. AttachLong(s, kind, lbd) /\ Len(s) # 2
    BY <1>0, <2>0 DEF Attach
  <2>2. PICK c : c = FreeSlot /\ Attaches(s, c) /\ c # 0
    BY <1>0, <1>3, <2>1, LongAttaches
  <2>3. c \in Nat
    <3>1. FreeSlot \in 1..(Len(arena) + 1)
      BY FreeSlotFacts DEF PropInv
    <3> QED
      BY <2>2, <3>1
  <2>4. ReasonFrom(s) = Because(s, c)
    BY <2>1, <2>2 DEF ReasonFrom, Because
  <2> QED
    BY <2>1, <2>2, <2>3, <2>4
<1> QED
  BY <1>1, <1>2, <1>3

LEMMA AttachesTyped ==
    ASSUME NEW s, NEW c, Attaches(s, c)
    PROVE  DbTyped'
  BY DEF Attaches, DbTyped

\* A learned clause: all its literals are false, the first alone at the
\* current level.
LEMMA LearnStep ==
    ASSUME PropInv, conflict # <<>>, conflict' = <<>>, visit' = visit,
           formula' \subseteq InputClauses, dead' \in BOOLEAN, LevelOf(trail) > 0,
           NEW s \in Seq(Lits), IsInjective(s), Len(s) >= 1,
           \A i \in 1..Len(s) : IsFalse(trail, s[i]),
           \A i \in 1..Len(s) : LitLevel(trail, s[i]) = LevelOf(trail) <=> i = 1,
           \A i \in 2..Len(s) : LitLevel(trail, s[i]) <= LitLevel(trail, s[2]),
           NEW lbd \in Nat, Learnt(s, lbd)
    PROVE  PropInv'
<1>1. WellFormed(trail) /\ LevelOf(trail) \in Nat
  BY TypedDb, TrailParts DEF WellFormed, LevelOf
<1>2. visit = NoVisit /\ visit' = NoVisit
  BY DEF PropInv, VisitSound, Busy
<1>3. /\ Len(s) \in Nat /\ DOMAIN s = 1..Len(s)
      /\ \A i \in 1..Len(s) : s[i] \in Lits /\ IsFalse(trail, s[i])
  BY LenProperties, ElementOfSeq
<1>4. /\ 1 \in 1..Len(s)
      /\ \A i \in 1..Len(s) : LitLevel(trail, s[i]) \in 0..LevelOf(trail)
      /\ \A i \in 1..Len(s) : LitLevel(trail, s[i]) = LevelOf(trail) <=> i = 1
      /\ \A i \in 2..Len(s) : LitLevel(trail, s[i]) <= LitLevel(trail, s[2])
  <2>1. 1 \in 1..Len(s)
    BY <1>3
  <2>2. \A i \in 1..Len(s) : LitLevel(trail, s[i]) \in 0..LevelOf(trail)
    BY <1>1, <1>3, TruthFacts
  <2> QED
    BY <2>1, <2>2
<1>5. CASE Len(s) = 1
  <2>1. PICK u : u = Cancelled(trail, 0)
    OBVIOUS
  <2>2. trail' = Enqueued(u, s[1], Decision) /\ UNCHANGED dbVars
    BY <1>1, <1>5, <2>1 DEF Learnt
  <2>3. IsUndef(u, s[1])
    <3>1. ~(LitLevel(trail, s[1]) <= 0)
      BY <1>1, <1>4
    <3> QED
      BY <1>1, <1>3, <1>4, <2>1, <3>1, CancelledTruth DEF IsUndef
  <2>4. /\ WellFormed(trail)' /\ ClausesSound' /\ WatchListsMatch'
        /\ NothingMissed' /\ LevelsExact' /\ ReasonsOrdered'
    BY <1>1, <1>2, <1>3, <1>4, <2>1, <2>2, <2>3, FactStep
  <2>5. DbTyped' /\ formula' \subseteq InputClauses /\ dead' \in BOOLEAN
    BY <1>1, <2>2, TypedDb DEF DbTyped, dbVars
  <2> QED
    BY <1>1, <1>2, <2>4, <2>5, Settled
<1>6. CASE Len(s) >= 2
  <2>1. PICK bt : bt = LitLevel(trail, s[2])
    OBVIOUS
  <2>2. 2 \in 1..Len(s) /\ 2 \in 2..Len(s)
    BY <1>3, <1>6
  <2>3. bt \in Nat /\ bt < LevelOf(trail)
    BY <1>1, <1>4, <2>1, <2>2
  <2>4. PICK u : u = Cancelled(trail, bt)
    OBVIOUS
  <2>5. PICK m \in 0..Len(trail.lits) :
            /\ Continues(trail, u, m) /\ Len(u.lits) = m /\ m = trail.lim[bt + 1]
            /\ LevelOf(u) = bt
    <3>1. ~(LevelOf(trail) <= bt)
      BY <1>1, <2>3
    <3>2. PICK m \in 0..Len(trail.lits) : CutAt(trail, u, bt, m)
      BY <1>1, <2>3, <2>4, CancelContinues
    <3> QED
      BY <2>3, <3>1, <3>2 DEF CutAt
  <2>6. m < trail.qhead
    BY <1>1, <2>3, <2>5, CutForgets
  <2>7. trail' = Enqueued(u, s[1], ReasonFrom(s)) /\ Attach(s, "learnt", lbd)
    BY <1>3, <1>6, <1>1, <2>1, <2>4 DEF Learnt
  <2>8. PICK d \in Nat : Attaches(s, d) /\ (d = 0 <=> Len(s) = 2) /\ ReasonFrom(s) = Because(s, d)
    <3>1. "learnt" \in Kinds /\ lbd \in Nat
      BY DEF Kinds
    <3> QED
      BY <1>2, <1>3, <1>6, <2>7, <3>1, AttachFacts
  <2>9. IsUndef(u, s[1])
    <3>1. ~(LitLevel(trail, s[1]) <= bt)
      BY <1>1, <1>4, <2>3
    <3> QED
      BY <1>1, <1>3, <1>4, <2>3, <2>4, <3>1, CancelledTruth DEF IsUndef
  <2>10. ASSUME NEW i \in 2..Len(s)
         PROVE  /\ IsFalse(u, s[i]) /\ LitLevel(u, s[i]) <= LevelOf(u)
                /\ LitLevel(u, s[i]) = LitLevel(trail, s[i])
    <3>1. i \in 1..Len(s)
      BY <1>3
    <3> QED
      BY <1>1, <1>3, <1>4, <2>1, <2>3, <2>4, <2>5, <3>1, CancelledTruth
  <2>11. LitLevel(u, s[2]) = LevelOf(u)
    BY <2>1, <2>2, <2>5, <2>10
  <2>12. /\ WellFormed(trail)' /\ ClausesSound' /\ WatchListsMatch'
         /\ NothingMissed' /\ LevelsExact' /\ ReasonsOrdered'
    BY <1>2, <1>3, <1>6, <2>5, <2>6, <2>7, <2>8, <2>9, <2>10, <2>11, AssertStep
  <2>13. DbTyped' /\ formula' \subseteq InputClauses /\ dead' \in BOOLEAN
    BY <1>1, <2>8, AttachesTyped, TypedDb
  <2> QED
    BY <1>1, <1>2, <2>12, <2>13, Settled
<1> QED
  BY <1>3, <1>5, <1>6

(***************************************************************************)
(* add_clause.                                                              *)
(***************************************************************************)
LEMMA ContinuesSelf ==
    ASSUME NEW t, WellFormed(t)
    PROVE  Continues(t, t, Len(t.lits))
<1>1. Len(t.lits) \in Nat /\ t.qhead \in Nat /\ t.qhead <= Len(t.lits)
  BY TrailParts DEF WellFormed
<1> QED
  BY <1>1 DEF Continues

\* What add_clause keeps of a clause: its literals, sorted, but for those false
\* by a root fact; none is true by one.
LEMMA FilteredFacts ==
    ASSUME PropInv, NEW c \in InputClauses, ~Satisfied(c), NEW s, s = Filtered(c)
    PROVE  /\ s \in Seq(Lits) /\ IsInjective(s)
           /\ \A l \in ToSet(s) : IsTrue(trail, l) \/ IsFalse(trail, l) => LitLevel(trail, l) > 0
<1> DEFINE d == {l \in c : ~FixedFalse(trail, l)}
<1>1. d \in Clauses /\ IsFiniteSet(d) /\ WellFormed(trail)
  BY PropagationAssumption, FS_Subset, TypedDb DEF Clauses
<1>2. s = Sorted(d)
  BY DEF Filtered
<1> HIDE DEF d
<1>3. /\ s \in Seq(Lits) /\ \A i \in 1..Len(s) : s[i] \in d
      /\ \A i, j \in 1..Len(s) : s[i] = s[j] => i = j
  BY <1>1, <1>2, SortedFacts
<1>4. IsInjective(s)
  BY <1>3, LenProperties DEF IsInjective
<1>5. ASSUME NEW l \in ToSet(s), IsTrue(trail, l) \/ IsFalse(trail, l)
      PROVE  LitLevel(trail, l) > 0
  <2>1. l \in Lits /\ l \in d
    BY <1>3, ToSetFacts
  <2>2. l \in c /\ ~FixedTrue(trail, l) /\ ~FixedTrue(trail, -l)
    BY <2>1 DEF d, Satisfied, FixedFalse
  <2>3. LitLevel(trail, l) \in 0..LevelOf(trail) /\ LitLevel(trail, l) # 0
    BY <1>1, <1>5, <2>1, <2>2, TruthFacts DEF FixedTrue
  <2>4. LevelOf(trail) \in Nat
    BY <1>1, TrailParts DEF WellFormed, LevelOf
  <2> QED
    BY <2>3, <2>4
<1> QED
  BY <1>3, <1>4, <1>5

\* The cut that leaves a literal open.
LEMMA UnfalsifiedFacts ==
    ASSUME WellFormed(trail), NEW s \in Seq(Lits), Len(s) >= 2,
           \A l \in ToSet(s) : IsTrue(trail, l) \/ IsFalse(trail, l) => LitLevel(trail, l) > 0,
           NEW t, t = Unfalsified(s)
    PROVE  /\ \E n \in Nat : t = Cancelled(trail, n)
           /\ OpenAt(t, s) # {}
<1>1. /\ LevelOf(trail) \in Nat /\ DOMAIN s = 1..Len(s) /\ 1 \in 1..Len(s)
      /\ s[1] \in ToSet(s) /\ ToSet(s) \subseteq Lits
  BY TrailParts, LenProperties, ToSetFacts DEF WellFormed, LevelOf
<1>2. CASE \A l \in ToSet(s) : IsFalse(trail, l)
  <2>1. PICK d : d = DeepestFalse(trail, s)
    OBVIOUS
  <2>2. d \in 0..LevelOf(trail)
    BY <2>1, DeepestFacts
  <2>3. PICK l \in ToSet(s) : IsFalse(trail, l) /\ LitLevel(trail, l) = d
    BY <1>1, <1>2, <2>1, DeepestFacts
  <2>4. d - 1 \in Nat /\ ~(d <= d - 1)
    BY <1>1, <2>2, <2>3
  <2>5. t = Cancelled(trail, d - 1)
    BY <1>2, <2>1 DEF Unfalsified
  <2>6. ~IsFalse(t, l)
    BY <1>1, <2>3, <2>4, <2>5, CancelledTruth
  <2>7. PICK i \in 1..Len(s) : s[i] = l
    BY ToSetFacts
  <2> QED
    BY <1>1, <2>4, <2>5, <2>6, <2>7 DEF OpenAt
<1>3. CASE ~ \A l \in ToSet(s) : IsFalse(trail, l)
  <2>1. t = trail
    BY <1>3 DEF Unfalsified
  <2>2. t = Cancelled(trail, LevelOf(trail))
    BY <1>1, <2>1 DEF Cancelled
  <2>3. PICK l \in ToSet(s) : ~IsFalse(t, l)
    BY <1>3, <2>1
  <2>4. PICK i \in 1..Len(s) : s[i] = l
    BY ToSetFacts
  <2> QED
    BY <1>1, <2>2, <2>3, <2>4 DEF OpenAt
<1> QED
  BY <1>2, <1>3

\* The order in which a clause is attached.
LEMMA ArrangedFacts ==
    ASSUME NEW t, WellFormed(t), NEW s \in Seq(Lits), Len(s) >= 2, IsInjective(s),
           OpenAt(t, s) # {}, NEW r, r = Arranged(t, s), NEW d, d = DeepestFalse(t, s)
    PROVE  /\ r \in Seq(Lits) /\ Len(r) = Len(s) /\ ToSet(r) = ToSet(s) /\ IsInjective(r)
           /\ ~IsFalse(t, r[1])
           /\ ~IsUnit(t, s) => ~IsFalse(t, r[2])
           /\ IsUnit(t, s) => /\ \A i \in 2..Len(r) : IsFalse(t, r[i]) /\ LitLevel(t, r[i]) <= d
                              /\ LitLevel(t, r[2]) = d
<1>1. PICK n \in Nat : n = Len(s) /\ n >= 2 /\ DOMAIN s = 1..n
  BY LenProperties
<1>2. PICK open : open = OpenAt(t, s)
  OBVIOUS
<1>3. open \subseteq 1..n /\ \A i \in 1..n : i \in open <=> ~IsFalse(t, s[i])
  BY <1>1, <1>2 DEF OpenAt
<1>4. PICK first : first = Min(open)
  OBVIOUS
<1>5. first \in open /\ \A i \in open : first <= i
  <2>1. open \subseteq Nat /\ open # {}
    BY <1>1, <1>2, <1>3
  <2> QED
    BY <1>4, <2>1, MinFacts
<1>6. PICK q : q = Swapped(s, 1, first)
  OBVIOUS
<1>7. /\ q \in Seq(Lits) /\ Len(q) = n /\ ToSet(q) = ToSet(s) /\ IsInjective(q)
      /\ q[1] = s[first] /\ \A i \in 1..n : i # 1 /\ i # first => q[i] = s[i]
  <2>1. 1 \in 1..Len(s) /\ first \in 1..Len(s)
    BY <1>1, <1>3, <1>5
  <2>2. IsSwap(q, s, 1, first)
    BY <1>6, <2>1, SwapLits
  <2> QED
    BY <1>1, <2>2 DEF IsSwap
<1>8. DOMAIN q = 1..n /\ 1 \in 1..n /\ 2 \in 1..n
  BY <1>1, <1>7, LenProperties
<1>9. ~IsFalse(t, q[1])
  BY <1>3, <1>5, <1>7
<1>10. PICK second : second = IF IsUnit(t, s) THEN SecondWatch(t, q) ELSE Min(open \ {first})
  OBVIOUS
<1>11. r = Swapped(q, 2, second)
  BY <1>2, <1>4, <1>6, <1>10 DEF Arranged
<1>12. ASSUME NEW k \in 2..n, second = k
       PROVE  /\ r \in Seq(Lits) /\ Len(r) = n /\ ToSet(r) = ToSet(s) /\ IsInjective(r)
              /\ r[1] = q[1] /\ r[2] = q[k]
  <2>1. k \in 1..Len(q) /\ 2 \in 1..Len(q) /\ k # 1 /\ 1 \in 1..Len(q)
    BY <1>1, <1>7
  <2>2. IsSwap(r, q, 2, k)
    BY <1>7, <1>11, <1>12, <2>1, SwapLits
  <2> QED
    BY <1>7, <2>1, <2>2 DEF IsSwap
<1>13. CASE ~IsUnit(t, s)
  <2>1. second \in open \ {first}
    <3>1. open # {first}
      BY <1>2, <1>4, <1>13 DEF IsUnit
    <3>2. open \ {first} # {} /\ open \ {first} \subseteq Nat
      BY <1>1, <1>3, <1>5, <3>1
    <3> QED
      BY <1>10, <1>13, <3>2, MinFacts
  <2>2. second \in 2..n /\ second # first /\ second # 1 /\ second \in 1..n
    BY <1>1, <1>3, <1>5, <2>1
  <2>3. ~IsFalse(t, q[second])
    BY <1>3, <1>7, <2>1, <2>2
  <2> QED
    BY <1>1, <1>9, <1>12, <1>13, <2>2, <2>3
<1>14. CASE IsUnit(t, s)
  <2>1. \A l \in ToSet(s) : l # s[first] => IsFalse(t, l)
    <3>1. open = {first}
      BY <1>2, <1>4, <1>14 DEF IsUnit
    <3>2. \A i \in 1..n : i # first => IsFalse(t, s[i])
      BY <1>3, <3>1
    <3>3. \A l \in ToSet(s) : \E i \in 1..n : s[i] = l
      BY <1>1, ToSetFacts
    <3> QED
      BY <3>2, <3>3
  <2>2. d = DeepestFalse(t, q)
    BY <1>7 DEF DeepestFalse
  <2>3. /\ q[2] \in ToSet(s) /\ q[2] # q[1]
    <3>1. q[2] \in ToSet(s)
      BY <1>7, <1>8, ToSetFacts
    <3>2. 1 \in DOMAIN q /\ 2 \in DOMAIN q
      BY <1>8
    <3> QED
      BY <1>7, <3>1, <3>2 DEF IsInjective
  <2>4. PICK l \in ToSet(s) : IsFalse(t, l) /\ LitLevel(t, l) = d
    BY <1>7, <2>1, <2>2, <2>3, DeepestFacts
  <2>5. PICK j \in 1..n : q[j] = l
    BY <1>7, ToSetFacts
  <2> DEFINE S == {i \in 2..Len(q) : IsFalse(t, q[i]) /\ LitLevel(t, q[i]) = DeepestFalse(t, q)}
  <2>6. second = Min(S)
    BY <1>10, <1>14 DEF SecondWatch
  <2>7. S # {} /\ S \subseteq Nat
    <3>1. j # 1
      BY <1>9, <2>4, <2>5
    <3>2. j \in 2..n
      BY <1>1, <3>1
    <3> QED
      BY <1>7, <2>2, <2>4, <2>5, <3>2
  <2>8. second \in S
    <3> HIDE DEF S
    <3> QED
      BY <2>6, <2>7, MinFacts
  <2>9. second \in 2..n /\ LitLevel(t, q[second]) = d
    BY <1>7, <2>2, <2>8
  <2>10. /\ r \in Seq(Lits) /\ Len(r) = n /\ ToSet(r) = ToSet(s) /\ IsInjective(r)
         /\ r[1] = q[1] /\ r[2] = q[second]
    BY <1>12, <2>9
  <2>11. ASSUME NEW i \in 2..n PROVE IsFalse(t, r[i]) /\ LitLevel(t, r[i]) <= d
    <3>1. i \in 1..n /\ i # 1
      BY <1>1
    <3>2. r[i] \in ToSet(s)
      BY <2>10, <3>1, ToSetFacts
    <3>3. r[i] # r[1]
      <4>1. DOMAIN r = 1..n
        BY <2>10, LenProperties
      <4> QED
        BY <1>8, <2>10, <3>1, <4>1 DEF IsInjective
    <3>4. IsFalse(t, r[i])
      BY <1>7, <2>1, <2>10, <3>2, <3>3
    <3> QED
      BY <3>2, <3>4, DeepestFacts
  <2> QED
    BY <1>1, <1>9, <1>14, <2>9, <2>10, <2>11
<1> QED
  BY <1>13, <1>14

LEMMA AddLongStep ==
    ASSUME PropInv, visit = NoVisit, visit' = NoVisit, conflict = <<>>,
           NEW s \in Seq(Lits), IsInjective(s),
           \A l \in ToSet(s) : IsTrue(trail, l) \/ IsFalse(trail, l) => LitLevel(trail, l) > 0,
           AddLong(s)
    PROVE  /\ DbTyped' /\ WellFormed(trail)' /\ ClausesSound' /\ WatchListsMatch'
           /\ NothingMissed' /\ LevelsExact' /\ ReasonsOrdered'
<1>1. PICK t, r : /\ t = Unfalsified(s) /\ r = Arranged(t, s)
                  /\ Attach(r, "original", 0)
                  /\ trail' = LET u == ImpliedAt(t, s)
                              IN  IF ~IsUnit(t, s) THEN t
                                  ELSE IF IsUndef(u, r[1]) THEN Enqueued(u, r[1], ReasonFrom(r))
                                  ELSE u
  BY DEF AddLong
<1>2. WellFormed(trail) /\ Len(s) >= 2
  BY TypedDb DEF AddLong
<1>3. OpenAt(t, s) # {} /\ \E n \in Nat : t = Cancelled(trail, n)
  BY <1>1, <1>2, UnfalsifiedFacts
<1>4. PICK m1 \in 0..Len(trail.lits) : Continues(trail, t, m1) /\ Len(t.lits) = m1
  <2>1. PICK n \in Nat : t = Cancelled(trail, n)
    BY <1>3
  <2>2. PICK m \in 0..Len(trail.lits) :
            /\ Continues(trail, t, m) /\ Len(t.lits) = m
            /\ LevelOf(t) = IF LevelOf(trail) <= n THEN LevelOf(trail) ELSE n
    BY <1>2, <2>1, CancelContinues DEF CutAt
  <2> QED
    BY <2>2
<1>5. WellFormed(t) /\ m1 \in Nat
  BY <1>4 DEF Continues
<1>6. PICK d : d = DeepestFalse(t, s)
  OBVIOUS
<1>7. d \in 0..LevelOf(t) /\ LevelOf(t) \in Nat
  BY <1>5, <1>6, DeepestFacts, TrailParts DEF WellFormed, LevelOf
<1>8. /\ r \in Seq(Lits) /\ Len(r) = Len(s) /\ ToSet(r) = ToSet(s) /\ IsInjective(r)
      /\ ~IsFalse(t, r[1])
      /\ ~IsUnit(t, s) => ~IsFalse(t, r[2])
      /\ IsUnit(t, s) => /\ \A i \in 2..Len(r) : IsFalse(t, r[i]) /\ LitLevel(t, r[i]) <= d
                         /\ LitLevel(t, r[2]) = d
  BY <1>1, <1>2, <1>3, <1>5, <1>6, ArrangedFacts
<1>9. PICK n \in Nat : n = Len(r) /\ n >= 2
  BY <1>2, <1>8, LenProperties
<1>10. /\ 1 \in 1..n /\ 2 \in 1..n /\ 2 \in 2..n /\ \A i \in 1..n : r[i] \in Lits
       /\ \A i \in 2..n : i \in 1..n
  BY <1>8, <1>9, ElementOfSeq
<1>11. PICK c \in Nat : Attaches(r, c) /\ (c = 0 <=> Len(r) = 2) /\ ReasonFrom(r) = Because(r, c)
  <2>1. "original" \in Kinds /\ 0 \in Nat
    BY DEF Kinds
  <2> QED
    BY <1>1, <1>8, <1>9, <2>1, AttachFacts
<1>12. DbTyped'
  BY <1>11, AttachesTyped
<1>13. ASSUME NEW w, WellFormed(w), NEW l \in Lits, ~IsFalse(w, l)
       PROVE  Watchable(w, l, r)
  <2>1. w.qhead \in Nat /\ w.qhead <= Len(w.lits) /\ Len(w.lits) \in Nat
    BY <1>13, TrailParts DEF WellFormed
  <2>2. \A i \in 1..w.qhead : i \in 1..Len(w.lits)
    BY <2>1
  <2> QED
    BY <1>13, <2>2, TruthFacts DEF Watchable
<1>14. CASE ~IsUnit(t, s)
  <2>1. trail' = t
    BY <1>1, <1>14
  <2>2. Continues(trail, trail', m1) /\ Len(trail'.lits) # m1 + 1
    BY <1>4, <1>5, <2>1
  <2>3. Watchable(trail', r[1], r) /\ Watchable(trail', r[2], r)
    BY <1>5, <1>8, <1>10, <1>13, <1>14, <2>1
  <2>4. /\ WellFormed(trail)' /\ ClausesSound' /\ WatchListsMatch'
        /\ NothingMissed' /\ LevelsExact' /\ ReasonsOrdered'
    BY <1>8, <1>9, <1>11, <2>2, <2>3, AttachStep
  <2> QED
    BY <1>12, <2>4
<1>15. CASE IsUnit(t, s)
  <2>1. PICK u : u = Cancelled(t, d)
    OBVIOUS
  <2>2. trail' = IF IsUndef(u, r[1]) THEN Enqueued(u, r[1], Because(r, c)) ELSE u
    BY <1>1, <1>6, <1>11, <1>15, <2>1 DEF ImpliedAt
  <2>3. d \in Nat
    BY <1>7
  <2>4. PICK m \in 0..Len(t.lits) : /\ Continues(t, u, m) /\ Len(u.lits) = m
                                    /\ LevelOf(u) = IF LevelOf(t) <= d THEN LevelOf(t) ELSE d
    BY <1>5, <2>1, <2>3, CancelContinues DEF CutAt
  <2>5. LevelOf(u) = d
    BY <1>7, <2>4
  <2>6. Continues(trail, u, m) /\ WellFormed(u) /\ m \in Nat
    <3>1. Continues(trail, u, m)
      BY <1>4, <2>4, CutThenContinue
    <3>2. WellFormed(u)
      BY <3>1 DEF Continues
    <3>3. m \in Nat
      BY <1>5, <2>4, TrailParts DEF WellFormed
    <3> QED
      BY <3>1, <3>2, <3>3
  <2>7. ASSUME NEW i \in 2..n
        PROVE  IsFalse(u, r[i]) /\ LitLevel(u, r[i]) = LitLevel(t, r[i]) /\ LitLevel(u, r[i]) <= d
    <3>1. IsFalse(t, r[i]) /\ LitLevel(t, r[i]) <= d
      BY <1>8, <1>9, <1>15
    <3> QED
      BY <1>5, <1>10, <2>1, <2>3, <3>1, CancelledTruth
  <2>8. LitLevel(u, r[2]) = d /\ ~IsFalse(u, r[1])
    BY <1>5, <1>8, <1>10, <1>15, <2>1, <2>3, <2>7, CancelledTruth
  <2>9. CASE IsUndef(u, r[1])
    <3>1. trail' = Enqueued(u, r[1], Because(r, c))
      BY <2>2, <2>9
    <3>2. \A i \in 2..Len(r) : IsFalse(u, r[i]) /\ LitLevel(u, r[i]) <= LevelOf(u)
      BY <1>9, <2>5, <2>7
    <3>3. LitLevel(u, r[2]) = LevelOf(u)
      BY <2>5, <2>8
    <3>4. /\ WellFormed(trail)' /\ ClausesSound' /\ WatchListsMatch'
          /\ NothingMissed' /\ LevelsExact' /\ ReasonsOrdered'
      BY <1>8, <1>9, <1>11, <2>4, <2>6, <2>9, <3>1, <3>2, <3>3, AssertStep
    <3> QED
      BY <1>12, <3>4
  <2>10. CASE ~IsUndef(u, r[1])
    <3>1. trail' = u
      BY <2>2, <2>10
    <3>2. IsTrue(u, r[1])
      BY <2>8, <2>10 DEF IsUndef
    <3>3. LitLevel(u, r[1]) <= LitLevel(u, r[2])
      <4>1. LitLevel(u, r[1]) \in 0..d
        BY <1>10, <2>5, <2>6, <3>2, TruthFacts
      <4> QED
        BY <1>7, <2>8, <4>1
    <3>4. r[1] \in ToSet(r)
      BY <1>8, <1>9, <1>10, ToSetFacts
    <3>5. Watchable(u, r[2], r)
      BY <3>2, <3>3, <3>4 DEF Watchable, Harmless
    <3>6. Watchable(u, r[1], r)
      BY <1>10, <1>13, <2>6, <2>8
    <3>7. Continues(trail, trail', m) /\ Len(trail'.lits) # m + 1
      BY <2>4, <2>6, <3>1
    <3>8. /\ WellFormed(trail)' /\ ClausesSound' /\ WatchListsMatch'
          /\ NothingMissed' /\ LevelsExact' /\ ReasonsOrdered'
      BY <1>8, <1>9, <1>11, <3>1, <3>5, <3>6, <3>7, AttachStep
    <3> QED
      BY <1>12, <3>8
  <2> QED
    BY <2>9, <2>10
<1> QED
  BY <1>14, <1>15

LEMMA AddClauseKeeps ==
    ASSUME PropInv, ~Busy, conflict = <<>>, NEW c \in InputClauses, add_clause(c)
    PROVE  PropInv'
<1>1. /\ visit = NoVisit /\ visit' = NoVisit /\ conflict = <<>> /\ conflict' = <<>>
      /\ formula' \subseteq InputClauses /\ WellFormed(trail) /\ DbTyped /\ dead \in BOOLEAN
  BY TypedDb DEF add_clause, Busy
<1>2. PICK m0 : m0 = Len(trail.lits)
  OBVIOUS
<1>3. CASE dead \/ Satisfied(c)
  <2>1. UNCHANGED <<trail, dead, dbVars>>
    BY <1>3 DEF add_clause
  <2>2. Continues(trail, trail', m0) /\ Len(trail'.lits) # m0 + 1
    <3>1. m0 \in Nat
      BY <1>1, <1>2, TrailParts DEF WellFormed
    <3> QED
      BY <1>1, <1>2, <2>1, <3>1, ContinuesSelf
  <2>3. /\ WellFormed(trail)' /\ ClausesSound' /\ WatchListsMatch'
        /\ NothingMissed' /\ LevelsExact' /\ ReasonsOrdered'
    BY <1>1, <2>1, <2>2, TrailStep
  <2>4. DbTyped' /\ dead' \in BOOLEAN
    BY <1>1, <2>1 DEF DbTyped, dbVars
  <2> QED
    BY <1>1, <2>3, <2>4, Settled
<1>4. CASE ~dead /\ ~Satisfied(c)
  <2>1. PICK s : s = Filtered(c) /\ (AddEmpty(s) \/ AddUnit(s) \/ AddLong(s))
    BY <1>4 DEF add_clause
  <2>2. /\ s \in Seq(Lits) /\ IsInjective(s)
        /\ \A l \in ToSet(s) : IsTrue(trail, l) \/ IsFalse(trail, l) => LitLevel(trail, l) > 0
    BY <1>4, <2>1, FilteredFacts
  <2>3. PICK u : u = Cancelled(trail, 0)
    OBVIOUS
  <2>4. CASE AddEmpty(s)
    <3>1. trail' = u /\ UNCHANGED dbVars /\ dead' = TRUE
      BY <2>3, <2>4 DEF AddEmpty
    <3>2. PICK m \in 0..Len(trail.lits) : Continues(trail, u, m) /\ Len(u.lits) = m
      BY <1>1, <2>3, CancelContinues DEF CutAt
    <3>3. Continues(trail, trail', m) /\ Len(trail'.lits) # m + 1
      BY <3>1, <3>2
    <3>4. /\ WellFormed(trail)' /\ ClausesSound' /\ WatchListsMatch'
          /\ NothingMissed' /\ LevelsExact' /\ ReasonsOrdered'
      BY <1>1, <3>1, <3>3, TrailStep
    <3>5. DbTyped' /\ dead' \in BOOLEAN
      BY <1>1, <3>1 DEF DbTyped, dbVars
    <3> QED
      BY <1>1, <3>4, <3>5, Settled
  <2>5. CASE AddUnit(s)
    <3>1. trail' = Enqueued(u, s[1], Decision) /\ UNCHANGED dbVars /\ dead' = dead /\ Len(s) = 1
      BY <2>3, <2>5 DEF AddUnit
    <3>2. s[1] \in Lits /\ s[1] \in ToSet(s)
      <4>1. 1 \in 1..Len(s)
      BY <3>1
    <4> QED
      BY <2>2, <4>1, ElementOfSeq, ToSetFacts
    <3>3. IsUndef(u, s[1])
      <4>1. LitLevel(trail, s[1]) > 0 => ~(LitLevel(trail, s[1]) <= 0)
        <5>1. IsTrue(trail, s[1]) \/ IsFalse(trail, s[1]) => LitLevel(trail, s[1]) \in 0..LevelOf(trail)
          BY <1>1, <3>2, TruthFacts
        <5>2. LitLevel(trail, s[1]) \in Int
          BY <1>1, <3>2, LitFacts, TrailParts DEF WellFormed, LitLevel
        <5> QED
          BY <5>2
      <4> QED
        BY <1>1, <2>2, <2>3, <3>2, <4>1, CancelledTruth DEF IsUndef
    <3>4. /\ WellFormed(trail)' /\ ClausesSound' /\ WatchListsMatch'
          /\ NothingMissed' /\ LevelsExact' /\ ReasonsOrdered'
      BY <1>1, <2>3, <3>1, <3>2, <3>3, FactStep
    <3>5. DbTyped' /\ dead' \in BOOLEAN
      BY <1>1, <3>1 DEF DbTyped, dbVars
    <3> QED
      BY <1>1, <3>4, <3>5, Settled
  <2>6. CASE AddLong(s)
    <3>1. dead' = dead
      BY <2>6 DEF AddLong
    <3> QED
      BY <1>1, <2>2, <2>6, <3>1, AddLongStep, Settled
  <2> QED
    BY <2>1, <2>4, <2>5, <2>6
<1> QED
  BY <1>3, <1>4

(***************************************************************************)
(* The traversal: its start and its end.                                    *)
(***************************************************************************)
\* The trail's literals stay and no clause moves.
LEMMA SameReasons ==
    ASSUME PropInv, WellFormed(trail)', trail'.lits = trail.lits, trail'.info = trail.info,
           UNCHANGED <<arena, binaries, learntBins>>
    PROVE  /\ LevelsExact' /\ ReasonsOrdered' /\ ClausesSound'
           /\ \A w : Claimed(w)' = Claimed(w)
           /\ \A l, c : Harmless(trail', l, c) <=> Harmless(trail, l, c)
<1>1. \A l : /\ LitLevel(trail', l) = LitLevel(trail, l) /\ ReasonOf(trail', l) = ReasonOf(trail, l)
             /\ ReasonTail(trail, l)' = ReasonTail(trail, l)
             /\ IsTrue(trail', l) = IsTrue(trail, l)
  BY DEF LitLevel, ReasonOf, ReasonTail, Body, IsTrue
<1>2. ASSUME NEW i \in 1..Len(trail.lits) PROVE ReasonRight(i)'
  <2>1. PICK l, r : l = trail.lits[i] /\ r = ReasonOf(trail, l)
    OBVIOUS
  <2>2. l = trail'.lits[i] /\ r = ReasonOf(trail', l)
    BY <1>1, <2>1
  <2>3. ReasonRight(i)
    BY ReasonsEach DEF PropInv
  <2>4. PICK tail : tail = ReasonTail(trail, l) /\ tail = ReasonTail(trail, l)'
    BY <1>1
  <2>5. {LitLevel(trail', q) : q \in ToSet(tail)} = {LitLevel(trail, q) : q \in ToSet(tail)}
    BY <1>1
  <2>6. CASE r # Decision
    <3>1. /\ r.cref # 0 => r.cref \in Crefs /\ Live(r.cref) /\ Body(r.cref)[1] = l
          /\ r.cref = 0 => {l, r.other} \in binaries \cup learntBins
          /\ \A q \in ToSet(tail) : \E j \in 1..(i - 1) : trail.lits[j] = -q
          /\ LitLevel(trail, l) = Max({LitLevel(trail, q) : q \in ToSet(tail)})
      BY <2>1, <2>3, <2>4, <2>6 DEF ReasonRight
    <3> QED
      BY <1>1, <2>2, <2>4, <2>5, <3>1 DEF ReasonRight, Crefs, Live, Body
  <2> QED
    BY <2>2, <2>6 DEF ReasonRight
<1>3. LevelsExact' /\ ReasonsOrdered'
  <2>1. (WellFormed(trail) =>
           (LevelsExact /\ ReasonsOrdered <=> \A i \in 1..Len(trail.lits) : ReasonRight(i)))'
    BY ReasonsEach, PTL
  <2>2. \A i \in 1..Len(trail'.lits) : ReasonRight(i)'
    BY <1>2
  <2> QED
    BY <2>1, <2>2
<1>4. ClausesSound'
  BY DEF PropInv, ClausesSound, Crefs, Live, Body
<1>5. \A w : Claimed(w)' = Claimed(w)
  BY DEF Claimed, Body
<1>6. \A l, c : Harmless(trail', l, c) <=> Harmless(trail, l, c)
  BY <1>1 DEF Harmless
<1> QED
  BY <1>3, <1>4, <1>5, <1>6

\* The lists hold what they held.
LEMMA SameLists ==
    ASSUME PropInv, UNCHANGED <<arena, binaries, learntBins>>,
           \A l \in Lits : List(l)' = List(l)
    PROVE  WatchListsMatch'
<1>1. ASSUME NEW l \in Lits PROVE Matches(l, List(l))'
  <2>1. Matches(l, List(l))
    BY DEF PropInv, WatchListsMatch
  <2> QED
    BY <2>1 DEF Matches, Crefs, Live, Body
<1> QED
  BY <1>1 DEF WatchListsMatch

LEMMA DequeueKeeps ==
    ASSUME PropInv, Dequeue
    PROVE  PropInv'
<1>1. PICK p, k : p = trail.lits[k] /\ k = trail.qhead + 1
  OBVIOUS
<1>2. /\ visit = NoVisit /\ conflict = <<>> /\ conflict' = <<>>
      /\ visit' = [lit |-> -p, kept |-> <<>>, rest |-> watches[-p]]
      /\ trail' = [trail EXCEPT !.qhead = trail.qhead + 1] /\ trail.qhead < Len(trail.lits)
      /\ UNCHANGED <<arena, watches, binaries, learntBins, formula, dead>>
      /\ WellFormed(trail) /\ DbTyped /\ PropTypeOK
  BY <1>1, TypedDb DEF Dequeue, Busy, dbVars, clientVars, PropInv
<1>3. PICK u : u = trail' /\ u = [trail EXCEPT !.qhead = trail.qhead + 1]
  BY <1>2
<1>4. /\ WellFormed(trail)' /\ trail'.lits = trail.lits /\ trail'.lim = trail.lim
      /\ trail'.info = trail.info /\ trail'.qhead = k
  BY <1>1, <1>2, <1>3, DequeueWellFormed
<1>5. /\ trail.qhead \in Nat /\ k \in 1..Len(trail.lits) /\ k \in Nat
      /\ p \in Lits /\ -p \in Lits /\ -(-p) = p /\ -p # 0
  <2>1. trail.qhead \in Nat /\ Len(trail.lits) \in Nat
    BY <1>2, TrailParts DEF WellFormed
  <2>2. k \in 1..Len(trail.lits)
    BY <1>1, <1>2, <2>1
  <2>3. p \in Lits
    BY <1>1, <1>2, <2>2, TrailParts DEF WellFormed
  <2> QED
    BY <2>1, <2>2, <2>3, LitFacts
<1>6. watches[-p] \in Seq(Watchers)
  BY <1>2, <1>5 DEF DbTyped
<1>7. PropTypeOK'
  <2>1. visit' \in [lit : Lits \cup {0}, kept : Seq(Watchers), rest : Seq(Watchers)]
    BY <1>2, <1>5, <1>6, EmptySeq
  <2> QED
    BY <1>2, <1>4, <2>1 DEF PropTypeOK, WellFormed
<1>8. VisitSound'
  <2>1. Busy'
    BY <1>2, <1>5 DEF Busy, NoVisit
  <2>2. \A n \in 1..Len(trail.lim) : trail.lim[n] < k
    <3>1. \A n \in 1..Len(trail.lim) : trail.lim[n] \in Nat /\ trail.lim[n] <= trail.qhead
      BY <1>2, TrailParts DEF WellFormed
    <3> QED
      BY <1>1, <1>5, <3>1
  <2> QED
    BY <1>1, <1>2, <1>4, <1>5, <2>1, <2>2 DEF VisitSound
<1>9. /\ LevelsExact' /\ ReasonsOrdered' /\ ClausesSound'
      /\ \A w : Claimed(w)' = Claimed(w)
      /\ \A l, c : Harmless(trail', l, c) <=> Harmless(trail, l, c)
  BY <1>2, <1>4, SameReasons
<1>10. ASSUME NEW l \in Lits PROVE List(l)' = List(l) /\ List(l) = watches[l]
  <2>1. List(l) = watches[l]
    BY <1>2, ListFacts
  <2>2. CASE l = -p
    BY <1>2, <1>6, <2>1, <2>2, ConcatEmptySeq DEF List
  <2>3. CASE l # -p
    BY <1>2, <2>1, <2>3 DEF List
  <2> QED
    BY <2>1, <2>2, <2>3
<1>11. WatchListsMatch'
  BY <1>2, <1>10, SameLists
<1>12. NothingMissed'
  <2> SUFFICES ASSUME NEW l \in Lits, NEW w \in ToSet(watches[l]), Visited(l, w)'
               PROVE  Harmless(trail', l, Claimed(w)')
    BY <1>10 DEF NothingMissed
  <2>1. PICK i \in 1..k : trail.lits[i] = -l /\ (i = k /\ visit'.lit = l => ~Contains(visit'.rest, w))
    BY <1>4 DEF Visited
  <2>2. i # k
    <3>1. i = k => l = -p
      BY <1>1, <1>5, <2>1, LitFacts
    <3>2. i = k => ~Contains(watches[l], w)
      BY <1>2, <2>1, <3>1
    <3> QED
      BY <3>2 DEF Contains, ToSet
  <2>3. i \in 1..trail.qhead
    BY <1>1, <1>5, <2>2
  <2>4. visit.lit # l
    BY <1>2, LitFacts DEF NoVisit
  <2>5. Visited(l, w)
    BY <1>2, <2>1, <2>3, <2>4 DEF Visited
  <2>6. Harmless(trail, l, Claimed(w))
    BY <1>10, <2>5 DEF PropInv, NothingMissed
  <2> QED
    BY <1>9, <2>6
<1> QED
  BY <1>4, <1>7, <1>8, <1>9, <1>11, <1>12 DEF PropInv

\* While a list is traversed.
LEMMA BusyFacts ==
    ASSUME PropInv, Busy
    PROVE  /\ conflict = <<>> /\ visit.lit \in Lits /\ trail.qhead \in 1..Len(trail.lits)
           /\ trail.lits[trail.qhead] = -visit.lit
           /\ IsFalse(trail, visit.lit) /\ LitLevel(trail, visit.lit) = LevelOf(trail)
           /\ visit.kept \in Seq(Watchers) /\ visit.rest \in Seq(Watchers)
           /\ List(visit.lit) = visit.kept \o visit.rest
           /\ visit = [lit |-> visit.lit, kept |-> visit.kept, rest |-> visit.rest]
           /\ WellFormed(trail) /\ LevelOf(trail) \in Nat
<1>1. /\ conflict = <<>> /\ visit.lit \in Lits /\ trail.lits[trail.qhead] = -visit.lit
      /\ trail.qhead > 0 /\ \A n \in 1..Len(trail.lim) : trail.lim[n] < trail.qhead
      /\ WellFormed(trail) /\ PropTypeOK
  BY DEF PropInv, VisitSound
<1>2. PICK q \in 1..Len(trail.lits) : q = trail.qhead
  BY <1>1, TrailParts DEF WellFormed
<1>3. Len(trail.lim) \in Nat /\ LevelOf(trail) = Len(trail.lim)
  BY <1>1, TrailParts DEF WellFormed, LevelOf
<1>4. PICK d \in 0..Len(trail.lim) : d = LitLevel(trail, trail.lits[q])
  BY <1>1, <1>3 DEF WellFormed
<1>5. \A n \in 1..Len(trail.lim) : n <= d
  BY <1>1, <1>2, <1>4 DEF WellFormed
<1>6. d = Len(trail.lim)
  <2>1. CASE Len(trail.lim) = 0
    BY <1>4, <2>1
  <2>2. CASE Len(trail.lim) # 0
    <3>1. Len(trail.lim) \in 1..Len(trail.lim)
      BY <1>3, <2>2
    <3> QED
      BY <1>4, <1>5, <3>1
  <2> QED
    BY <2>1, <2>2
<1>7. LitLevel(trail, visit.lit) = LevelOf(trail) /\ IsFalse(trail, visit.lit)
  <2>1. LitLevel(trail, -visit.lit) = LitLevel(trail, visit.lit)
    BY <1>1, TruthFacts
  <2>2. IsFalse(trail, visit.lit)
    BY <1>1, <1>2, TruthFacts
  <2> QED
    BY <1>1, <1>2, <1>3, <1>4, <1>6, <2>1, <2>2
<1>8. /\ visit.kept \in Seq(Watchers) /\ visit.rest \in Seq(Watchers)
      /\ visit = [lit |-> visit.lit, kept |-> visit.kept, rest |-> visit.rest]
      /\ List(visit.lit) = visit.kept \o visit.rest
  BY <1>1 DEF PropTypeOK, List
<1> QED
  BY <1>1, <1>2, <1>3, <1>7, <1>8

LEMMA EndVisitKeeps ==
    ASSUME PropInv, EndVisit
    PROVE  PropInv'
<1>1. /\ Busy /\ visit.rest = <<>> /\ visit' = NoVisit
      /\ watches' = [watches EXCEPT ![visit.lit] = visit.kept]
      /\ UNCHANGED <<trail, arena, binaries, learntBins, conflict, formula, dead>>
  BY DEF EndVisit, clientVars
<1>2. /\ conflict = <<>> /\ conflict' = <<>> /\ visit.lit \in Lits
      /\ visit.kept \in Seq(Watchers) /\ List(visit.lit) = visit.kept
      /\ WellFormed(trail) /\ DbTyped /\ PropTypeOK
      /\ formula' \subseteq InputClauses /\ dead' \in BOOLEAN
  BY <1>1, BusyFacts, TypedDb, ConcatEmptySeq DEF PropInv
<1>3. DbTyped'
  BY <1>1, <1>2 DEF DbTyped
<1>4. \A l \in Lits : List(l)' = List(l)
  BY <1>1, <1>2, LitFacts DEF List, DbTyped, NoVisit
<1>5. WatchListsMatch'
  BY <1>1, <1>4, SameLists
<1>6. /\ LevelsExact' /\ ReasonsOrdered' /\ ClausesSound'
      /\ \A w : Claimed(w)' = Claimed(w)
      /\ \A l, c : Harmless(trail', l, c) <=> Harmless(trail, l, c)
  BY <1>1, <1>2, SameReasons
<1>7. NothingMissed'
  <2> SUFFICES ASSUME NEW l \in Lits, NEW w \in ToSet(List(l)), Visited(l, w)'
               PROVE  Harmless(trail, l, Claimed(w))
    BY <1>4, <1>6 DEF NothingMissed
  <2>1. ~Contains(visit.rest, w)
    BY <1>1 DEF Contains
  <2>2. Visited(l, w)
    BY <1>1, <1>2, <2>1 DEF Visited
  <2> QED
    BY <2>2 DEF PropInv, NothingMissed
<1> QED
  BY <1>1, <1>2, <1>3, <1>5, <1>6, <1>7, Settled

(***************************************************************************)
(* One watcher visited.                                                     *)
(***************************************************************************)
\* The clauses are the same, though one may have its literals in another
\* order: no reason of an assigned literal.
SameClauses ==
    /\ arena' \in Seq([lits : Seq(Lits), kind : Kinds, lbd : Nat])
    /\ Crefs' = Crefs /\ binaries' = binaries /\ learntBins' = learntBins
    /\ \A d \in Crefs : Live(d)' <=> Live(d)
    /\ \A d \in Crefs : Live(d) => /\ ToSet(Body(d)') = ToSet(Body(d))
                                   /\ Body(d)' = Body(d) \/ ~IsTrue(trail, Body(d)[1])
    /\ ClausesSound'

\* And it is watched by the same literals.
SameWatched ==
    \A d \in Crefs : Live(d) => {Body(d)'[1], Body(d)'[2]} = {Body(d)[1], Body(d)[2]}

LEMMA Unmoved ==
    ASSUME PropInv, UNCHANGED <<arena, binaries, learntBins>>
    PROVE  SameClauses /\ SameWatched
<1>1. Crefs' = Crefs /\ \A d \in Crefs : (Live(d)' <=> Live(d)) /\ Body(d)' = Body(d)
  BY DEF Crefs, Live, Body
<1>2. ClausesSound'
  BY <1>1 DEF PropInv, ClausesSound
<1>3. arena' \in Seq([lits : Seq(Lits), kind : Kinds, lbd : Nat])
  BY DEF PropInv, PropTypeOK
<1> QED
  BY <1>1, <1>2, <1>3 DEF SameClauses, SameWatched

\* A clause stored in another order.
LEMMA Rearranged ==
    ASSUME PropInv, NEW c \in Crefs, Live(c), NEW s \in Seq(Lits), Len(s) = Len(Body(c)),
           ToSet(s) = ToSet(Body(c)), IsInjective(s), s = Body(c) \/ ~IsTrue(trail, Body(c)[1]),
           arena' = [arena EXCEPT ![c].lits = s], UNCHANGED <<binaries, learntBins>>
    PROVE  /\ SameClauses /\ Body(c)' = s
           /\ \A d \in Crefs : d # c => Body(d)' = Body(d)
           /\ {s[1], s[2]} = {Body(c)[1], Body(c)[2]} => SameWatched
<1>1. /\ arena \in Seq([lits : Seq(Lits), kind : Kinds, lbd : Nat])
      /\ Crefs = 1..Len(arena) /\ Len(arena) \in Nat /\ PropTypeOK /\ ClausesSound
  BY LenProperties DEF PropInv, PropTypeOK, Crefs
<1> DEFINE T == [lits : Seq(Lits), kind : Kinds, lbd : Nat]
           e == [arena[c] EXCEPT !.lits = s]
<1>2. arena[c] \in T /\ e \in T /\ e.lits = s
  <2>1. arena[c] \in T
    <3> HIDE DEF T
    <3> QED
      BY <1>1, ElementOfSeq DEF T
  <2> QED
    BY <2>1
<1>3. arena' = [arena EXCEPT ![c] = e]
  OBVIOUS
<1>4. /\ arena' \in Seq(T)
      /\ DOMAIN arena' = DOMAIN arena /\ arena'[c] = e
      /\ \A d \in DOMAIN arena : d # c => arena'[d] = arena[d]
  <2>1. arena \in Seq(T) /\ c \in 1..Len(arena)
    BY <1>1
  <2>2. DOMAIN arena = 1..Len(arena)
    BY <2>1, LenProperties
  <2> HIDE DEF e, T
  <2> QED
    BY <1>2, <1>3, <2>1, <2>2
<1> HIDE DEF e
<1>5. Crefs' = Crefs /\ \A d \in Crefs : d # c => Body(d)' = Body(d) /\ (Live(d)' <=> Live(d))
  BY <1>4 DEF Crefs, Body, Live
<1>6. Body(c)' = s
  <2>1. Body(c)' = arena'[c].lits
    BY DEF Body
  <2> QED
    BY <1>2, <1>4, <2>1
<1>7. Len(s) >= 3 /\ s # <<>>
  <2>1. Len(s) >= 3
    BY <1>1, BodyFacts
  <2> QED
    BY <2>1, EmptySeq
<1>8. Live(c)'
  <2>1. Live(c)' <=> Body(c)' # <<>>
    BY DEF Live, Body
  <2> QED
    BY <1>6, <1>7, <2>1
<1>9. ClausesSound'
  <2>1. ASSUME NEW d \in Crefs', Live(d)' PROVE Len(Body(d)') >= 3 /\ IsInjective(Body(d)')
    <3>1. CASE d = c
      BY <1>6, <1>7, <3>1
    <3>2. CASE d # c
      <4>1. d \in Crefs /\ Live(d) /\ Body(d)' = Body(d)
        BY <1>5, <2>1, <3>2
      <4> QED
        BY <1>1, <4>1 DEF ClausesSound
    <3> QED
      BY <3>1, <3>2
  <2> QED
    BY <1>1, <2>1 DEF ClausesSound
<1>10. SameClauses
  <2>1. \A d \in Crefs : Live(d)' <=> Live(d)
    BY <1>5, <1>8
  <2>2. \A d \in Crefs : Live(d) => /\ ToSet(Body(d)') = ToSet(Body(d))
                                    /\ Body(d)' = Body(d) \/ ~IsTrue(trail, Body(d)[1])
    BY <1>5, <1>6
  <2> QED
    BY <1>4, <1>5, <1>9, <2>1, <2>2 DEF SameClauses
<1>11. {s[1], s[2]} = {Body(c)[1], Body(c)[2]} => SameWatched
  BY <1>5, <1>6 DEF SameWatched
<1> QED
  BY <1>5, <1>6, <1>10, <1>11

LEMMA ReasonsStand ==
    ASSUME PropInv, SameClauses, NEW m, m = Len(trail.lits), Continues(trail, trail', m),
           Len(trail'.lits) = m + 1 => ReasonRight(m + 1)'
    PROVE  LevelsExact' /\ ReasonsOrdered'
<1>1. ASSUME NEW c \in Crefs, Live(c), NEW i \in 1..m, ReasonOf(trail, trail.lits[i]).cref = c
      PROVE  c \in Crefs' /\ Live(c)' /\ Body(c)' = Body(c)
  <2>1. ReasonRight(i)
    BY ReasonsEach DEF PropInv
  <2>2. c # 0
    BY <1>1, BodyFacts DEF PropInv
  <2>3. Body(c)[1] = trail.lits[i]
    BY <1>1, <2>1, <2>2 DEF ReasonRight, Decision
  <2>4. IsTrue(trail, Body(c)[1])
    <3>1. DOMAIN trail.lits = 1..m
      BY TypedDb, TrailParts, LenProperties DEF WellFormed
    <3> QED
      BY <2>3, <3>1 DEF IsTrue, Contains
  <2> QED
    BY <1>1, <2>4 DEF SameClauses
<1>2. binaries \cup learntBins \subseteq (binaries \cup learntBins)'
  BY DEF SameClauses
<1> QED
  BY <1>1, <1>2, ReasonsKept

LEMMA SameClaims ==
    ASSUME PropInv, SameClauses, NEW l \in Lits, NEW w \in ToSet(List(l))
    PROVE  Claimed(w)' = Claimed(w)
<1>1. CASE Binary(w)
  BY <1>1 DEF Claimed
<1>2. CASE ~Binary(w)
  <2>1. w.cref \in Crefs /\ Live(w.cref)
    BY <1>2, EntryFacts DEF PropInv
  <2> QED
    BY <1>2, <2>1 DEF Claimed, SameClauses
<1> QED
  BY <1>1, <1>2

\* The visited watcher, which may now carry another blocker.
Updates(w) ==
    /\ w \in Watchers /\ w.cref = Current.cref
    /\ IF Binary(Current) THEN w = Current ELSE w.blocker \in ToSet(Body(w.cref))

\* The list under visit with the visited watcher updated.
Replaced(w) == Append(visit.kept, w) \o Tail(visit.rest)

LEMMA ReplacedMatch ==
    ASSUME PropInv, Busy, visit.rest # <<>>, SameClauses, SameWatched, NEW w, Updates(w),
           \A l \in Lits : List(l)' = IF l = visit.lit THEN Replaced(w) ELSE List(l)
    PROVE  WatchListsMatch'
<1>1. PICK s, t, cur, p, k, r, v :
          /\ s = k \o r /\ t = Append(k, w) \o Tail(r) /\ cur = Head(r) /\ p = Len(k) + 1
          /\ k = visit.kept /\ r = visit.rest /\ v = visit.lit
  OBVIOUS
<1>2. k \in Seq(Watchers) /\ r \in Seq(Watchers) /\ r # <<>> /\ w \in Watchers /\ v \in Lits
  BY <1>1, BusyFacts DEF Updates
<1>3. /\ p \in 1..Len(s) /\ s[p] = cur /\ t \in Seq(Watchers) /\ Len(t) = Len(s)
      /\ \A i \in 1..Len(s) : t[i] = IF i = p THEN w ELSE s[i]
  <2>1. s = k \o r /\ p = Len(k) + 1
    BY <1>1
  <2>2. p \in 1..Len(s) /\ s[p] = Head(r)
    BY <1>2, <2>1, SplitList
  <2>3. Append(k, w) \o Tail(r) \in Seq(Watchers) /\ Len(Append(k, w) \o Tail(r)) = Len(s)
    BY <1>2, <2>1, SplitList
  <2>4. \A i \in 1..Len(s) : (Append(k, w) \o Tail(r))[i] = IF i = p THEN w ELSE s[i]
    BY <1>2, <2>1, SplitList
  <2> QED
    BY <1>1, <2>2, <2>3, <2>4
<1>4. s \in Seq(Watchers)
  BY <1>1, <1>2, ConcatProperties
<1>5. /\ w.cref = cur.cref /\ (IF Binary(cur) THEN w = cur ELSE w.blocker \in ToSet(Body(w.cref)))
  BY <1>1 DEF Updates, Current
<1>6. /\ \A x \in ToSet(t) : x = w \/ x \in ToSet(s)
      /\ \A x \in ToSet(s) : x = cur \/ x \in ToSet(t)
      /\ \A c : /\ Once(s, c) => Once(t, c)
                /\ Never(s, c) => Never(t, c)
      /\ w \in ToSet(t)
  <2>1. w.cref = s[p].cref
    BY <1>3, <1>5
  <2>2. ReplacedBy(t, s, s[p], w)
    BY <1>2, <1>3, <1>4, <2>1, ReplaceEntry
  <2> QED
    BY <1>3, <2>2 DEF ReplacedBy
<1>7. cur \in ToSet(s)
  BY <1>3, <1>4, ToSetFacts
<1>8. s = List(v) /\ t = List(v)'
  BY <1>1, <1>2, BusyFacts DEF Replaced
<1>9. ASSUME NEW l \in Lits PROVE Matches(l, List(l))
  BY DEF PropInv, WatchListsMatch
<1>10. ASSUME NEW l \in Lits, NEW a, Matches(l, a), NEW b,
              \A x \in ToSet(b) : (x = w /\ a = s /\ l = v) \/ x \in ToSet(a),
              \A x \in ToSet(a) : Binary(x) => x \in ToSet(b),
              \A c : (Once(a, c) => Once(b, c)) /\ (Never(a, c) => Never(b, c))
       PROVE  Matches(l, b)'
  <2>1. \A x \in ToSet(b) :
            IF Binary(x) THEN {l, x.blocker} \in (binaries \cup learntBins)'
            ELSE x.cref \in Crefs' /\ Live(x.cref)' /\ x.blocker \in ToSet(Body(x.cref)')
    <3> TAKE x \in ToSet(b)
    <3>1. IF Binary(x) THEN {l, x.blocker} \in binaries \cup learntBins
          ELSE x.cref \in Crefs /\ Live(x.cref) /\ x.blocker \in ToSet(Body(x.cref))
      <4>1. CASE x \in ToSet(a)
        BY <1>10, <4>1 DEF Matches
      <4>2. CASE x = w /\ a = s /\ l = v
        <5>1. IF Binary(cur) THEN {l, cur.blocker} \in binaries \cup learntBins
              ELSE cur.cref \in Crefs /\ Live(cur.cref)
          BY <1>7, <1>10, <4>2 DEF Matches
        <5> QED
          BY <1>5, <4>2, <5>1 DEF Binary
      <4> QED
        BY <1>10, <4>1, <4>2
    <3> QED
      BY <3>1 DEF SameClauses
  <2>2. \A c \in {d \in Crefs' : Live(d)'} :
            IF l \in {Body(c)'[1], Body(c)'[2]} THEN Once(b, c) ELSE Never(b, c)
    <3> TAKE c \in {d \in Crefs' : Live(d)'}
    <3>1. c \in Crefs /\ Live(c)
      BY DEF SameClauses
    <3>2. {Body(c)'[1], Body(c)'[2]} = {Body(c)[1], Body(c)[2]}
      BY <3>1 DEF SameWatched
    <3>3. IF l \in {Body(c)[1], Body(c)[2]} THEN Once(a, c) ELSE Never(a, c)
      BY <1>10, <3>1 DEF Matches
    <3> QED
      BY <1>10, <3>2, <3>3
  <2>3. \A d \in (binaries \cup learntBins)' :
            l \in d => \E x \in ToSet(b) : Binary(x) /\ {l, x.blocker} = d
    <3> TAKE d \in (binaries \cup learntBins)'
    <3> HAVE l \in d
    <3>1. d \in binaries \cup learntBins
      BY DEF SameClauses
    <3>2. PICK x \in ToSet(a) : Binary(x) /\ {l, x.blocker} = d
      BY <1>10, <3>1 DEF Matches
    <3>3. x \in ToSet(b)
      BY <1>10, <3>2
    <3> QED
      BY <3>2, <3>3
  <2> QED
    BY <2>1, <2>2, <2>3 DEF Matches
<1>11. Matches(v, t)'
  <2>1. Matches(v, s)
    BY <1>2, <1>8, <1>9
  <2>2. \A x \in ToSet(s) : Binary(x) => x \in ToSet(t)
    BY <1>5, <1>6
  <2> QED
    BY <1>2, <1>6, <1>10, <2>1, <2>2
<1>12. ASSUME NEW l \in Lits, l # v PROVE Matches(l, List(l))'
  <2>1. PICK a : a = List(l) /\ a = List(l)'
    BY <1>1, <1>12
  <2>2. Matches(l, a)
    BY <1>9, <2>1
  <2>3. Matches(l, a)'
    BY <1>10, <2>2
  <2> QED
    BY <2>1, <2>3 DEF Matches
<1> QED
  BY <1>8, <1>11, <1>12 DEF WatchListsMatch

\* What an earlier position of the trail says of a list that the step leaves
\* alone, or of one whose visit is over.
LEMMA StillHarmless ==
    ASSUME PropInv, Busy, SameClauses, NEW m, m = Len(trail.lits), Continues(trail, trail', m),
           NEW l \in Lits, NEW w \in ToSet(List(l)),
           NEW i \in 1..trail.qhead, trail.lits[i] = -l,
           i = trail.qhead => ~Contains(visit.rest, w)
    PROVE  Harmless(trail', l, Claimed(w)')
<1>1. /\ conflict = <<>> /\ trail.qhead \in 1..m /\ m \in Nat
  BY BusyFacts, TrailParts DEF WellFormed
<1>2. Visited(l, w)
  BY <1>1 DEF Visited
<1>3. Harmless(trail, l, Claimed(w)) /\ Claimed(w) \subseteq Lits
  BY <1>2, EntryFacts DEF PropInv, NothingMissed
<1>4. i \in 1..m
  BY <1>1
<1>5. Claimed(w)' = Claimed(w)
  BY SameClaims
<1> QED
  BY <1>3, <1>4, <1>5, HarmlessKept

LEMMA KeepStep ==
    ASSUME PropInv, Busy, visit.rest # <<>>, SameClauses, SameWatched, NEW w, Updates(w),
           Keep(w), UNCHANGED <<watches, conflict, formula, dead>>,
           NEW m, m = Len(trail.lits), Continues(trail, trail', m),
           trail'.qhead = trail.qhead, trail'.lim = trail.lim,
           Len(trail'.lits) = m + 1 => ReasonRight(m + 1)',
           Harmless(trail', visit.lit, Claimed(w)')
    PROVE  PropInv'
<1>1. PICK cur, k, r, v : cur = Head(r) /\ k = visit.kept /\ r = visit.rest /\ v = visit.lit
  OBVIOUS
<1>2. /\ k \in Seq(Watchers) /\ r \in Seq(Watchers) /\ r # <<>> /\ v \in Lits /\ v # 0
      /\ conflict = <<>> /\ conflict' = <<>> /\ trail.qhead \in 1..m
      /\ trail.lits[trail.qhead] = -v /\ List(v) = k \o r
      /\ visit = [lit |-> v, kept |-> k, rest |-> r] /\ WellFormed(trail)
      /\ w \in Watchers
  BY <1>1, BusyFacts, LitFacts DEF Updates
<1>3. /\ visit' = [lit |-> v, kept |-> Append(k, w), rest |-> Tail(r)]
      /\ visit'.lit = v /\ visit'.rest = Tail(r)
  BY <1>1, <1>2 DEF Keep
<1>4. /\ Append(k, w) \in Seq(Watchers) /\ Tail(r) \in Seq(Watchers)
      /\ ToSet(r) = {cur} \cup ToSet(Tail(r))
  <2>1. PICK s, p : s = k \o r /\ p = Len(k) + 1
    OBVIOUS
  <2>2. Append(k, w) \in Seq(Watchers) /\ Tail(r) \in Seq(Watchers)
    BY <1>2, <2>1, SplitList
  <2>3. ToSet(r) = {Head(r)} \cup ToSet(Tail(r))
    BY <1>2, <2>1, SplitList
  <2> QED
    BY <1>1, <2>2, <2>3
<1>5. \A l \in Lits : List(l)' = IF l = visit.lit THEN Replaced(w) ELSE List(l)
  BY <1>1, <1>2, <1>3 DEF List, Replaced
<1>6. WatchListsMatch'
  BY <1>5, ReplacedMatch
<1>7. LevelsExact' /\ ReasonsOrdered' /\ WellFormed(trail)' /\ ClausesSound'
  BY ReasonsStand DEF Continues, SameClauses
<1>8. PropTypeOK'
  <2>1. visit' \in [lit : Lits \cup {0}, kept : Seq(Watchers), rest : Seq(Watchers)]
    BY <1>2, <1>3, <1>4
  <2>2. conflict' \in Seq(Lits) /\ trail' \in TrailType
    BY <1>2, <1>7, EmptySeq DEF WellFormed
  <2> QED
    BY <2>1, <2>2, TypedDb DEF PropTypeOK, SameClauses, DbTyped
<1>9. VisitSound'
  <2>1. Busy'
    BY <1>2, <1>3 DEF Busy, NoVisit
  <2>2. trail'.lits[trail'.qhead] = -v
    BY <1>2 DEF Continues
  <2> QED
    BY <1>1, <1>2, <1>3, <2>1, <2>2 DEF PropInv, VisitSound
<1>10. NothingMissed'
  <2> SUFFICES ASSUME NEW l \in Lits, NEW x \in ToSet(List(l)'), Visited(l, x)'
               PROVE  Harmless(trail', l, Claimed(x)')
    BY DEF NothingMissed
  <2>1. PICK i \in 1..trail.qhead : /\ trail'.lits[i] = -l
                                    /\ i = trail.qhead /\ visit'.lit = l => ~Contains(Tail(r), x)
    BY <1>3 DEF Visited
  <2>2. i \in 1..m /\ trail.lits[i] = -l
    <3>1. i \in 1..m
      BY <1>2
    <3> QED
      BY <2>1, <3>1 DEF Continues
  <2>3. i = trail.qhead <=> l = v
    <3>1. i = trail.qhead => l = v
      BY <1>2, <2>2, LitFacts
    <3>2. l = v => i = trail.qhead
      BY <1>2, <2>2 DEF WellFormed
    <3> QED
      BY <3>1, <3>2
  <2>4. CASE l # v
    <3>1. x \in ToSet(List(l)) /\ i # trail.qhead
      BY <1>1, <1>5, <2>3, <2>4
    <3> QED
      BY <2>2, <3>1, StillHarmless
  <2>5. CASE l = v
    <3>1. ~Contains(Tail(r), x)
      BY <1>3, <2>1, <2>3, <2>5
    <3>2. x \notin ToSet(Tail(r))
      BY <3>1 DEF Contains, ToSet
    <3>3. x = w \/ x \in ToSet(List(v))
      <4>1. PICK s, t, p : s = k \o r /\ t = Append(k, w) \o Tail(r) /\ p = Len(k) + 1
        OBVIOUS
      <4>2. /\ p \in 1..Len(s) /\ t \in Seq(Watchers) /\ Len(t) = Len(s)
        BY <1>2, <4>1, SplitList
      <4>3. \A j \in 1..Len(s) : t[j] = IF j = p THEN w ELSE s[j]
        <5>1. s = k \o r /\ p = Len(k) + 1 /\ w \in Watchers
          BY <1>2, <4>1
        <5>2. \A j \in 1..Len(s) : (Append(k, w) \o Tail(r))[j] = IF j = p THEN w ELSE s[j]
          BY SMTT(60), <1>2, <5>1, SplitList
        <5> QED
          BY <4>1, <5>2
      <4>4. s \in Seq(Watchers)
        BY <1>2, <4>1, ConcatProperties
      <4>5. t = List(l)' /\ s = List(v)
        BY <1>1, <1>2, <1>5, <2>5, <4>1 DEF Replaced
      <4>6. PICK j \in 1..Len(t) : t[j] = x
        BY <4>2, <4>5, ToSetFacts
      <4>7. t[j] = w \/ t[j] = s[j]
        BY <4>2, <4>3, <4>6
      <4> QED
        BY <4>2, <4>4, <4>5, <4>6, <4>7, ToSetFacts
    <3>4. CASE x \notin ToSet(r) /\ x \in ToSet(List(v))
      <4>1. ~Contains(visit.rest, x)
        BY <1>1, <3>4 DEF Contains, ToSet
      <4> QED
        BY <2>2, <2>5, <3>4, <4>1, StillHarmless
    <3>5. CASE x = w
      BY <1>1, <2>5, <3>5
    <3>6. CASE x = cur
      <4>1. w.cref = cur.cref /\ (Binary(cur) => w = cur)
        BY <1>1 DEF Updates, Current
      <4>2. Claimed(cur)' = Claimed(w)'
        BY <4>1 DEF Claimed, Binary
      <4> QED
        BY <1>1, <2>5, <3>6, <4>2
    <3> QED
      BY <1>4, <3>2, <3>3, <3>4, <3>5, <3>6
  <2> QED
    BY <2>4, <2>5
<1> QED
  BY <1>6, <1>7, <1>8, <1>9, <1>10 DEF PropInv

LEMMA RefuteStep ==
    ASSUME PropInv, Busy, visit.rest # <<>>, SameClauses, SameWatched, NEW w, Updates(w),
           NEW clause \in Seq(Lits), clause # <<>>, Refute(w, clause),
           UNCHANGED <<trail, formula, dead>>
    PROVE  PropInv'
<1>1. PICK cur, k, r, v : cur = Head(r) /\ k = visit.kept /\ r = visit.rest /\ v = visit.lit
  OBVIOUS
<1>2. /\ k \in Seq(Watchers) /\ r \in Seq(Watchers) /\ r # <<>> /\ v \in Lits /\ v # 0
      /\ trail.qhead \in 1..Len(trail.lits)
      /\ trail.lits[trail.qhead] = -v /\ List(v) = k \o r
      /\ WellFormed(trail) /\ w \in Watchers /\ DbTyped
  BY <1>1, BusyFacts, LitFacts, TypedDb DEF Updates
<1>3. PICK t : t = Append(k, w) \o Tail(r) /\ t \in Seq(Watchers)
  <2>1. PICK s : s = k \o r
    OBVIOUS
  <2>2. PICK p : p = Len(k) + 1
    OBVIOUS
  <2>3. Append(k, w) \o Tail(r) \in Seq(Watchers)
    BY <1>2, <2>1, <2>2, SplitList
  <2> QED
    BY <2>3
<1>4. /\ watches' = [watches EXCEPT ![v] = t] /\ visit' = NoVisit /\ conflict' = clause
      /\ trail' = trail
  BY <1>1, <1>3 DEF Refute
<1>5. \A l \in Lits : List(l)' = IF l = visit.lit THEN Replaced(w) ELSE List(l)
  <2> SUFFICES ASSUME NEW l \in Lits PROVE List(l)' = IF l = v THEN t ELSE List(l)
    BY <1>1, <1>3 DEF Replaced
  <2>1. List(l)' = watches'[l]
    BY <1>4, LitFacts DEF List, NoVisit
  <2>2. l # v => List(l) = watches[l]
    BY <1>1 DEF List
  <2>3. watches'[l] = IF l = v THEN t ELSE watches[l]
    BY <1>2, <1>4 DEF DbTyped
  <2> QED
    BY <2>1, <2>2, <2>3
<1>6. WatchListsMatch'
  BY <1>5, ReplacedMatch
<1>7. PICK m \in Nat : m = Len(trail.lits)
  BY <1>2, TrailParts DEF WellFormed
<1>8. Continues(trail, trail', m) /\ Len(trail'.lits) # m + 1
  BY <1>2, <1>4, <1>7, ContinuesSelf
<1>9. LevelsExact' /\ ReasonsOrdered' /\ WellFormed(trail)' /\ ClausesSound'
  BY <1>7, <1>8, ReasonsStand DEF Continues, SameClauses
<1>10. PropTypeOK'
  <2>1. visit' \in [lit : Lits \cup {0}, kept : Seq(Watchers), rest : Seq(Watchers)]
    BY <1>4, EmptySeq DEF NoVisit
  <2>2. watches' \in [Lits -> Seq(Watchers)]
    BY <1>2, <1>3, <1>4 DEF DbTyped
  <2> QED
    BY <1>4, <1>9, <2>1, <2>2, TypedDb DEF PropTypeOK, SameClauses, DbTyped, WellFormed
<1>11. VisitSound'
  BY <1>4 DEF PropInv, VisitSound, Busy
<1>12. NothingMissed'
  <2> SUFFICES ASSUME NEW l \in Lits, NEW x \in ToSet(List(l)'), Visited(l, x)'
               PROVE  Harmless(trail', l, Claimed(x)')
    BY DEF NothingMissed
  <2>1. PICK i \in 1..trail.qhead : trail.lits[i] = -l /\ i # trail.qhead
    BY <1>4 DEF Visited
  <2>2. l # v
    <3>1. i \in 1..Len(trail.lits)
      BY <1>2
    <3> QED
      BY <1>2, <2>1, <3>1 DEF WellFormed
  <2>3. x \in ToSet(List(l))
    BY <1>1, <1>5, <2>2
  <2> QED
    BY <1>7, <1>8, <2>1, <2>3, StillHarmless
<1> QED
  BY <1>6, <1>9, <1>10, <1>11, <1>12 DEF PropInv

LEMMA CurrentFacts ==
    ASSUME PropInv, Busy, visit.rest # <<>>, NEW w, w = Current
    PROVE  /\ w \in Watchers /\ w \in ToSet(List(visit.lit)) /\ w.blocker \in Lits
           /\ Binary(w) => {visit.lit, w.blocker} \in binaries \cup learntBins /\ Updates(w)
           /\ ~Binary(w) => /\ w.cref \in Crefs /\ Live(w.cref)
                            /\ w.blocker \in ToSet(Body(w.cref))
                            /\ visit.lit \in {Body(w.cref)[1], Body(w.cref)[2]}
<1>1. PICK s, p, k, r, v : /\ s = k \o r /\ p = Len(k) + 1
                           /\ k = visit.kept /\ r = visit.rest /\ v = visit.lit
  OBVIOUS
<1>2. /\ k \in Seq(Watchers) /\ r \in Seq(Watchers) /\ r # <<>> /\ w = Head(r)
      /\ v \in Lits /\ List(v) = s
  BY <1>1, BusyFacts DEF Current
<1>3. w \in Watchers
  BY <1>2, HeadTailProperties
<1>4. p \in 1..Len(s) /\ s[p] = w
  <2>1. s = k \o r /\ p = Len(k) + 1
    BY <1>1
  <2>2. p \in 1..Len(s) /\ s[p] = Head(r)
    BY <1>2, <1>3, <2>1, SplitList
  <2> QED
    BY <1>2, <2>2
<1>5. s \in Seq(Watchers)
  BY <1>1, <1>2, ConcatProperties
<1>6. w \in ToSet(List(v))
  BY <1>2, <1>4, <1>5, ToSetFacts
<1>7. /\ w.blocker \in Lits
      /\ Binary(w) => {v, w.blocker} \in binaries \cup learntBins
      /\ ~Binary(w) => /\ w.cref \in Crefs /\ Live(w.cref) /\ w.blocker \in ToSet(Body(w.cref))
                       /\ v \in {Body(w.cref)[1], Body(w.cref)[2]}
  BY <1>2, <1>6, EntryFacts DEF PropInv
<1>8. Binary(w) => Updates(w)
  BY <1>3 DEF Updates
<1> QED
  BY <1>1, <1>3, <1>6, <1>7, <1>8

\* Any true literal is at a level no deeper than that of the visited one.
LEMMA TrueIsHarmless ==
    ASSUME PropInv, Busy, NEW q \in Lits, IsTrue(trail, q), NEW c, q \in c
    PROVE  Harmless(trail, visit.lit, c)
<1>1. LitLevel(trail, visit.lit) = LevelOf(trail) /\ LevelOf(trail) \in Nat /\ WellFormed(trail)
  BY BusyFacts
<1>2. LitLevel(trail, q) \in 0..LevelOf(trail)
  BY <1>1, TruthFacts
<1> QED
  BY <1>1, <1>2 DEF Harmless

LEMMA EnqueuedWhileBusy ==
    ASSUME PropInv, Busy, NEW q \in Lits, IsUndef(trail, q), NEW r \in Reasons,
           trail' = Enqueued(trail, q, r), NEW m, m = Len(trail.lits), NEW c, q \in c
    PROVE  /\ Continues(trail, trail', m) /\ trail'.qhead = trail.qhead /\ trail'.lim = trail.lim
           /\ Harmless(trail', visit.lit, c)
<1>1. PICK u : u = trail' /\ u = Enqueued(trail, q, r)
  OBVIOUS
<1>2. /\ WellFormed(trail) /\ visit.lit \in Lits /\ trail.qhead \in 1..m
      /\ trail.lits[trail.qhead] = -visit.lit
      /\ LitLevel(trail, visit.lit) = LevelOf(trail) /\ LevelOf(trail) \in Nat
  BY BusyFacts
<1>3. Continues(trail, u, m)
  BY <1>1, <1>2, EnqueueContinues
<1>4. /\ u.qhead = trail.qhead /\ u.lim = trail.lim /\ LitLevel(u, q) = LevelOf(trail)
      /\ u.lits[m + 1] = q /\ Len(u.lits) = m + 1
  BY <1>1, <1>2, EnqueuedFacts DEF WellFormed
<1>5. IsTrue(u, q)
  <2>1. m + 1 \in 1..Len(u.lits)
    BY <1>2, <1>4, TrailParts DEF WellFormed
  <2> QED
    BY <1>3, <1>4, <2>1, TruthFacts DEF Continues
<1>6. LitLevel(u, visit.lit) = LevelOf(trail)
  BY <1>2, <1>3, SamePast
<1>7. Harmless(u, visit.lit, c)
  BY <1>2, <1>4, <1>5, <1>6 DEF Harmless
<1> QED
  BY <1>1, <1>3, <1>4, <1>7

LEMMA VisitBlockedKeeps ==
    ASSUME PropInv, VisitBlocked
    PROVE  PropInv'
<1>1. PICK w, m : w = Current /\ m = Len(trail.lits)
  OBVIOUS
<1>2. /\ Busy /\ visit.rest # <<>> /\ ~Binary(w) /\ IsTrue(trail, w.blocker) /\ Keep(w)
      /\ UNCHANGED <<trail, arena, watches, binaries, learntBins, conflict, formula, dead>>
  BY <1>1 DEF VisitBlocked, AtLong, Keep, dbVars, clientVars
<1>3. /\ w \in Watchers /\ w.cref \in Crefs /\ Live(w.cref) /\ w.blocker \in ToSet(Body(w.cref))
      /\ w.blocker \in Lits
  BY <1>1, <1>2, CurrentFacts
<1>4. Updates(w)
  BY <1>1, <1>2, <1>3 DEF Updates
<1>5. SameClauses /\ SameWatched
  BY <1>2, Unmoved
<1>6. Continues(trail, trail', m) /\ Len(trail'.lits) # m + 1
  <2>1. m \in Nat
    BY <1>1, TypedDb, TrailParts DEF WellFormed
  <2> QED
    BY <1>1, <1>2, <2>1, TypedDb, ContinuesSelf
<1>7. Claimed(w)' = ToSet(Body(w.cref))
  BY <1>2 DEF Claimed, Binary, Body
<1>8. Harmless(trail', visit.lit, Claimed(w)')
  BY <1>2, <1>3, <1>7, TrueIsHarmless
<1> QED
  BY <1>1, <1>2, <1>4, <1>5, <1>6, <1>8, KeepStep

LEMMA VisitBinaryKeeps ==
    ASSUME PropInv, VisitBinary
    PROVE  PropInv'
<1>1. PICK w, q, m, v : w = Current /\ q = w.blocker /\ m = Len(trail.lits) /\ v = visit.lit
  OBVIOUS
<1>2. /\ Busy /\ visit.rest # <<>> /\ Binary(w)
      /\ UNCHANGED <<arena, binaries, learntBins, formula, dead>>
  BY <1>1 DEF VisitBinary, clientVars
<1>3. \/ IsFalse(trail, q) /\ Refute(w, <<v, q>>) /\ trail' = trail
      \/ /\ ~IsFalse(trail, q) /\ Keep(w) /\ UNCHANGED <<watches, conflict>>
         /\ trail' = IF IsTrue(trail, q) THEN trail ELSE Enqueued(trail, q, ByBinary(v))
  BY <1>1 DEF VisitBinary, Refute, Keep
<1>4. /\ q \in Lits /\ {v, q} \in binaries \cup learntBins /\ Updates(w)
      /\ v \in Lits /\ WellFormed(trail) /\ m \in Nat
  BY <1>1, <1>2, CurrentFacts, BusyFacts, TrailParts DEF WellFormed
<1>5. SameClauses /\ SameWatched
  BY <1>2, Unmoved
<1>6. Claimed(w)' = {q}
  BY <1>1, <1>2 DEF Claimed
<1>7. CASE IsFalse(trail, q) /\ Refute(w, <<v, q>>) /\ trail' = trail
  <2>1. <<v, q>> \in Seq(Lits) /\ <<v, q>> # <<>>
    BY <1>4
  <2> QED
    BY <1>2, <1>4, <1>5, <1>7, <2>1, RefuteStep
<1>8. CASE Keep(w) /\ UNCHANGED <<watches, conflict>> /\ IsTrue(trail, q) /\ trail' = trail
  <2>1. Continues(trail, trail', m) /\ Len(trail'.lits) # m + 1
    BY <1>1, <1>4, <1>8, ContinuesSelf
  <2>2. Harmless(trail', visit.lit, Claimed(w)')
    BY <1>2, <1>4, <1>6, <1>8, TrueIsHarmless
  <2> QED
    BY <1>1, <1>2, <1>4, <1>5, <1>8, <2>1, <2>2, KeepStep
<1>9. CASE /\ Keep(w) /\ UNCHANGED <<watches, conflict>>
           /\ IsUndef(trail, q) /\ trail' = Enqueued(trail, q, ByBinary(v))
  <2>1. PICK s : s = <<q, v>>
    OBVIOUS
  <2>2. /\ s \in Seq(Lits) /\ Len(s) = 2 /\ Len(s) >= 2 /\ 0 \in Nat /\ s[1] = q /\ s[2] = v
        /\ 2..Len(s) = {2} /\ {s[1], s[2]} = {v, q}
    BY <1>4, <2>1
  <2>3. /\ IsFalse(trail, v) /\ LitLevel(trail, v) = LevelOf(trail) /\ LevelOf(trail) \in Nat
    BY <1>1, <1>2, BusyFacts
  <2>4. Because(s, 0) = ByBinary(v)
    BY <2>2 DEF Because
  <2>5. \A i \in 2..Len(s) : IsFalse(trail, s[i]) /\ LitLevel(trail, s[i]) <= LevelOf(trail)
    BY <2>2, <2>3
  <2>6. \E i \in 2..Len(s) : LitLevel(trail, s[i]) = LevelOf(trail)
    BY <2>2, <2>3
  <2>7. {s[1], s[2]} \in (binaries \cup learntBins)'
    BY <1>2, <1>4, <2>2
  <2>8. ReasonRight(m + 1)' /\ ByBinary(v) \in Reasons
    BY <1>1, <1>4, <1>9, <2>2, <2>4, <2>5, <2>6, <2>7, ImpliedRight
  <2>9. /\ Continues(trail, trail', m) /\ trail'.qhead = trail.qhead /\ trail'.lim = trail.lim
        /\ Harmless(trail', visit.lit, Claimed(w)')
    BY <1>1, <1>2, <1>4, <1>6, <1>9, <2>8, EnqueuedWhileBusy
  <2> QED
    BY <1>1, <1>2, <1>4, <1>5, <1>9, <2>8, <2>9, KeepStep
<1> QED
  BY <1>3, <1>7, <1>8, <1>9 DEF IsUndef

\* The clause under visit, its false literal in the second position.
LEMMA OrientedFacts ==
    ASSUME PropInv, Busy, NEW c \in Crefs, Live(c), visit.lit \in {Body(c)[1], Body(c)[2]},
           NEW s, s = Oriented(c)
    PROVE  /\ s \in Seq(Lits) /\ Len(s) = Len(Body(c)) /\ Len(s) \in Nat /\ Len(s) >= 3
           /\ IsInjective(s) /\ ToSet(s) = ToSet(Body(c)) /\ DOMAIN s = 1..Len(s)
           /\ s[2] = visit.lit /\ s[1] \in Lits /\ {s[1], s[2]} = {Body(c)[1], Body(c)[2]}
           /\ s = Body(c) \/ ~IsTrue(trail, Body(c)[1])
           /\ Body(c)[1] = s[1] \/ Body(c)[1] = s[2]
<1>1. PICK b, v, n : b = Body(c) /\ v = visit.lit /\ n = Len(b)
  OBVIOUS
<1>2. /\ b \in Seq(Lits) /\ n \in Nat /\ n >= 3 /\ IsInjective(b) /\ b[1] \in Lits /\ b[2] \in Lits
      /\ b[1] # b[2] /\ v \in {b[1], b[2]} /\ 1 \in 1..Len(b) /\ 2 \in 1..Len(b)
  BY <1>1, BodyFacts DEF PropInv
<1>3. IsFalse(trail, v) /\ ~IsTrue(trail, v)
  BY <1>1, BusyFacts, TruthFacts
<1>4. s = IF b[1] = v THEN Swapped(b, 1, 2) ELSE b
  BY <1>1 DEF Oriented
<1>5. CASE b[1] = v
  <2>1. IsSwap(s, b, 1, 2)
    BY <1>2, <1>4, <1>5, SwapLits
  <2>2. /\ s \in Seq(Lits) /\ Len(s) = n /\ IsInjective(s) /\ ToSet(s) = ToSet(b)
        /\ s[1] = b[2] /\ s[2] = b[1]
    BY <1>1, <1>2, <2>1 DEF IsSwap
  <2>3. DOMAIN s = 1..Len(s)
    BY <2>2, LenProperties
  <2> QED
    BY <1>1, <1>2, <1>3, <1>5, <2>2, <2>3
<1>6. CASE b[1] # v
  <2>1. s = b /\ b[2] = v
    BY <1>2, <1>4, <1>6
  <2>2. DOMAIN s = 1..Len(s)
    BY <1>2, <2>1, LenProperties
  <2> QED
    BY <1>1, <1>2, <2>1, <2>2
<1> QED
  BY <1>5, <1>6

\* The steps of VisitLong that leave the watch where it is.
LEMMA StoredKeeps ==
    ASSUME PropInv, Busy, visit.rest # <<>>, NEW c, c = Current.cref, ~Binary(Current),
           NEW s, s = Oriented(c), NEW w, w = Watcher(c, s[1]),
           arena' = [arena EXCEPT ![c].lits = s], UNCHANGED <<binaries, learntBins, formula, dead>>,
           \/ /\ IsTrue(trail, s[1]) /\ Keep(w) /\ UNCHANGED <<trail, watches, conflict>>
           \/ /\ IsUndef(trail, s[1]) /\ Replacements(s) = {} /\ Keep(w)
              /\ trail' = Enqueued(trail, s[1], ByClause(c)) /\ UNCHANGED <<watches, conflict>>
           \/ /\ IsFalse(trail, s[1]) /\ Refute(w, s) /\ UNCHANGED trail
    PROVE  PropInv'
<1>1. PICK m, v : m = Len(trail.lits) /\ v = visit.lit
  OBVIOUS
<1>2. /\ c \in Crefs /\ Live(c) /\ v \in {Body(c)[1], Body(c)[2]}
      /\ c \in 0..MaxSlots /\ c \in Nat /\ c # 0
  <2>1. PICK x : x = Current
    OBVIOUS
  <2>2. x \in Watchers /\ c = x.cref
    BY <2>1, CurrentFacts
  <2>3. c \in Crefs /\ Live(c) /\ v \in {Body(c)[1], Body(c)[2]}
    BY <1>1, <2>1, CurrentFacts
  <2>4. c \in Nat /\ c # 0
    BY <2>3, BodyFacts DEF PropInv
  <2> QED
    BY <2>2, <2>3, <2>4 DEF Watchers
<1>3. /\ s \in Seq(Lits) /\ Len(s) = Len(Body(c)) /\ Len(s) \in Nat /\ Len(s) >= 3
      /\ IsInjective(s) /\ ToSet(s) = ToSet(Body(c)) /\ DOMAIN s = 1..Len(s)
      /\ s[2] = v /\ s[1] \in Lits /\ {s[1], s[2]} = {Body(c)[1], Body(c)[2]}
      /\ s = Body(c) \/ ~IsTrue(trail, Body(c)[1])
  BY <1>1, <1>2, OrientedFacts
<1>4. SameClauses /\ SameWatched /\ Body(c)' = s
  <2>1. SameClauses /\ Body(c)' = s
    BY <1>2, <1>3, Rearranged
  <2>2. SameWatched
    BY <1>2, <1>3, Rearranged
  <2> QED
    BY <2>1, <2>2
<1>5. s[1] \in ToSet(s) /\ 1 \in 1..Len(s) /\ 2 \in 1..Len(s)
  <2>1. 1 \in 1..Len(s) /\ 2 \in 1..Len(s)
    BY <1>3
  <2> QED
    BY <1>3, <2>1, ToSetFacts
<1>6. Updates(w)
  BY <1>2, <1>3, <1>5, WatcherParts DEF Updates
<1>7. Claimed(w)' = ToSet(s)
  BY <1>2, <1>4, WatcherParts DEF Claimed, Binary
<1>8. WellFormed(trail) /\ m \in Nat
  BY <1>1, TypedDb, TrailParts DEF WellFormed
<1>9. CASE IsTrue(trail, s[1]) /\ Keep(w) /\ UNCHANGED <<trail, watches, conflict>>
  <2>1. Continues(trail, trail', m) /\ Len(trail'.lits) # m + 1
    BY <1>1, <1>8, <1>9, ContinuesSelf
  <2>2. Harmless(trail', visit.lit, Claimed(w)')
    BY <1>3, <1>5, <1>7, <1>9, TrueIsHarmless
  <2> QED
    BY <1>1, <1>4, <1>6, <1>9, <2>1, <2>2, KeepStep
<1>10. CASE /\ IsUndef(trail, s[1]) /\ Replacements(s) = {} /\ Keep(w)
            /\ trail' = Enqueued(trail, s[1], ByClause(c)) /\ UNCHANGED <<watches, conflict>>
  <2>1. \A i \in 3..Len(s) : IsFalse(trail, s[i])
    <3> DEFINE free == {i \in 3..Len(s) : ~IsFalse(trail, s[i])}
    <3>1. Replacements(s) = IF Len(s) >= SEARCH_POS_MIN_LEN \/ free = {} THEN free ELSE {Min(free)}
      BY DEF Replacements
    <3> HIDE DEF free
    <3>2. free = {}
      BY <1>10, <3>1
    <3> QED
      BY <3>2 DEF free
  <2>2. IsFalse(trail, v) /\ LitLevel(trail, v) = LevelOf(trail) /\ LevelOf(trail) \in Nat
    BY <1>1, BusyFacts
  <2>3. ASSUME NEW i \in 2..Len(s)
        PROVE  IsFalse(trail, s[i]) /\ LitLevel(trail, s[i]) <= LevelOf(trail)
    <3>1. i \in 1..Len(s) /\ (i = 2 \/ i \in 3..Len(s)) /\ s[i] \in Lits
      BY <1>3, ElementOfSeq
    <3>2. IsFalse(trail, s[i])
      BY <1>3, <2>1, <2>2, <3>1
    <3>3. LitLevel(trail, s[i]) \in 0..LevelOf(trail)
      BY <1>8, <3>1, <3>2, TruthFacts
    <3> QED
      BY <2>2, <3>2, <3>3
  <2>4. \E i \in 2..Len(s) : LitLevel(trail, s[i]) = LevelOf(trail)
    <3>1. 2 \in 2..Len(s)
      BY <1>3
    <3> QED
      BY <1>3, <2>2, <3>1
  <2>5. Because(s, c) = ByClause(c) /\ Len(s) >= 2 /\ Len(s) # 2
    <3>1. \A n \in Nat : n >= 3 => n >= 2 /\ n # 2
      OBVIOUS
    <3> QED
      BY <1>3, <3>1 DEF Because
  <2>6. c \in Crefs' /\ Live(c)'
    BY <1>2, <1>4 DEF SameClauses
  <2>7. ReasonRight(m + 1)' /\ ByClause(c) \in Reasons
    BY <1>1, <1>2, <1>3, <1>4, <1>8, <1>10, <2>3, <2>4, <2>5, <2>6, ImpliedRight
  <2>8. /\ Continues(trail, trail', m) /\ trail'.qhead = trail.qhead /\ trail'.lim = trail.lim
        /\ Harmless(trail', visit.lit, Claimed(w)')
    BY <1>1, <1>3, <1>5, <1>7, <1>10, <2>7, EnqueuedWhileBusy
  <2> QED
    BY <1>1, <1>4, <1>6, <1>10, <2>7, <2>8, KeepStep
<1>11. CASE IsFalse(trail, s[1]) /\ Refute(w, s) /\ UNCHANGED trail
  <2>1. s # <<>>
    BY <1>3, EmptySeq
  <2> QED
    BY <1>3, <1>4, <1>6, <1>11, <2>1, RefuteStep
<1> QED
  BY <1>9, <1>10, <1>11

\* The clause c, watched by a and the literal v under visit, is now watched by
\* a and x, and its entry w is in the list of x.
WatchMoves(c, a, v, x) ==
    /\ \A d \in Crefs : d # c => Body(d)' = Body(d)
    /\ {Body(c)[1], Body(c)[2]} = {a, v}
    /\ {Body(c)'[1], Body(c)'[2]} = {a, x}
    /\ a \in ToSet(Body(c))

EntryMoves(w, v, x) ==
    /\ List(v)' = visit.kept \o Tail(visit.rest)
    /\ List(x)' = Append(List(x), w)
    /\ \A l \in Lits : l # x /\ l # v => List(l)' = List(l)

LEMMA MovedMatch ==
    ASSUME PropInv, Busy, visit.rest # <<>>, NEW v, v = visit.lit, NEW c, c = Current.cref, ~Binary(Current),
           SameClauses, NEW a \in Lits, NEW x \in Lits, x # a, x # v, a # v,
           NEW w \in Watchers, w = Watcher(c, a), WatchMoves(c, a, v, x), EntryMoves(w, v, x)
    PROVE  WatchListsMatch'
<1>1. PICK s, t, cur, p, k, r :
          /\ s = k \o r /\ t = k \o Tail(r) /\ cur = Head(r) /\ p = Len(k) + 1
          /\ k = visit.kept /\ r = visit.rest
  OBVIOUS
<1> USE DEF WatchMoves, EntryMoves
<1>2. k \in Seq(Watchers) /\ r \in Seq(Watchers) /\ r # <<>> /\ v \in Lits /\ PropTypeOK
  BY <1>1, BusyFacts DEF PropInv
<1>3. cur = Current /\ c = cur.cref /\ ~Binary(cur) /\ c \in Crefs /\ Live(c)
  BY <1>1, CurrentFacts DEF Current
<1>4. w.cref = c /\ w.blocker = a /\ ~Binary(w)
  BY <1>3, WatcherParts DEF Binary
<1>5. s = List(v) /\ t = List(v)'
  BY <1>1, BusyFacts
<1>6. ASSUME NEW l \in Lits, NEW g, Matches(l, g), NEW b,
             \A y \in ToSet(b) : y = w \/ y \in ToSet(g),
             \A y \in ToSet(g) : Binary(y) => y \in ToSet(b),
             \A d : d # c => (Once(g, d) => Once(b, d)) /\ (Never(g, d) => Never(b, d)),
             IF l \in {a, x} THEN Once(b, c) ELSE Never(b, c)
      PROVE  Matches(l, b)'
  <2>1. \A y \in ToSet(b) :
            IF Binary(y) THEN {l, y.blocker} \in (binaries \cup learntBins)'
            ELSE y.cref \in Crefs' /\ Live(y.cref)' /\ y.blocker \in ToSet(Body(y.cref)')
    <3> TAKE y \in ToSet(b)
    <3>1. IF Binary(y) THEN {l, y.blocker} \in binaries \cup learntBins
          ELSE y.cref \in Crefs /\ Live(y.cref) /\ y.blocker \in ToSet(Body(y.cref))
      <4>1. CASE y \in ToSet(g)
        BY <1>6, <4>1 DEF Matches
      <4>2. CASE y = w
        BY <1>3, <1>4, <4>2
      <4> QED
        BY <1>6, <4>1, <4>2
    <3> QED
      BY <3>1 DEF SameClauses
  <2>2. \A d \in {e \in Crefs' : Live(e)'} :
            IF l \in {Body(d)'[1], Body(d)'[2]} THEN Once(b, d) ELSE Never(b, d)
    <3> TAKE d \in {e \in Crefs' : Live(e)'}
    <3>1. CASE d = c
      BY <1>6, <3>1
    <3>2. CASE d # c
      <4>1. d \in Crefs /\ Live(d)
        BY DEF SameClauses
      <4>2. IF l \in {Body(d)[1], Body(d)[2]} THEN Once(g, d) ELSE Never(g, d)
        BY <1>6, <4>1 DEF Matches
      <4>3. Body(d)' = Body(d)
        BY <3>2, <4>1
      <4> QED
        BY <1>6, <3>2, <4>2, <4>3
    <3> QED
      BY <3>1, <3>2
  <2>3. \A d \in (binaries \cup learntBins)' :
            l \in d => \E y \in ToSet(b) : Binary(y) /\ {l, y.blocker} = d
    <3> TAKE d \in (binaries \cup learntBins)'
    <3> HAVE l \in d
    <3>1. d \in binaries \cup learntBins
      BY DEF SameClauses
    <3>2. PICK y \in ToSet(g) : Binary(y) /\ {l, y.blocker} = d
      BY <1>6, <3>1 DEF Matches
    <3>3. y \in ToSet(b)
      BY <1>6, <3>2
    <3> QED
      BY <3>2, <3>3
  <2> QED
    BY <2>1, <2>2, <2>3 DEF Matches
<1>7. ASSUME NEW l \in Lits
      PROVE  /\ Matches(l, List(l)) /\ List(l) \in Seq(Watchers)
             /\ IF l \in {a, v} THEN Once(List(l), c) ELSE Never(List(l), c)
  <2>1. Matches(l, List(l)) /\ List(l) \in Seq(Watchers)
    BY <1>2, ListFacts DEF PropInv, WatchListsMatch
  <2>2. IF l \in {Body(c)[1], Body(c)[2]} THEN Once(List(l), c) ELSE Never(List(l), c)
    BY <1>3, <2>1 DEF Matches
  <2> QED
    BY <1>1, <2>1, <2>2
<1>8. Matches(v, List(v))'
  <2>1. /\ p \in 1..Len(s) /\ s[p] = cur /\ s \in Seq(Watchers)
        /\ t \in Seq(Watchers) /\ Len(t) = Len(s) - 1
        /\ \A i \in 1..Len(t) : t[i] = IF i < p THEN s[i] ELSE s[i + 1]
    <3>1. s = k \o r /\ p = Len(k) + 1
      BY <1>1
    <3>2. p \in 1..Len(s) /\ s[p] = Head(r)
      BY <1>2, <3>1, SplitList
    <3>3. k \o Tail(r) \in Seq(Watchers) /\ Len(k \o Tail(r)) = Len(s) - 1
      BY <1>2, <3>1, SplitList
    <3>4. \A i \in 1..Len(k \o Tail(r)) : (k \o Tail(r))[i] = IF i < p THEN s[i] ELSE s[i + 1]
      BY SMTT(60), <1>2, <3>1, SplitList
    <3>5. s \in Seq(Watchers)
      BY <1>2, <1>5, <1>7
    <3> QED
      BY <1>1, <3>2, <3>3, <3>4, <3>5
  <2>2. DroppedFrom(t, s, s[p])
    BY <2>1, DropEntry
  <2>3. DroppedFrom(t, s, cur)
    BY <2>1, <2>2
  <2>4. /\ \A y \in ToSet(t) : y = w \/ y \in ToSet(s)
        /\ \A y \in ToSet(s) : Binary(y) => y \in ToSet(t)
    BY <1>3, <2>3 DEF DroppedFrom
  <2>5. \A d : d # c => (Once(s, d) => Once(t, d)) /\ (Never(s, d) => Never(t, d))
    BY <1>3, <2>3 DEF DroppedFrom
  <2>6. Never(t, c)
    BY <1>2, <1>3, <1>5, <1>7, <2>3 DEF DroppedFrom
  <2>7. v \notin {a, x} /\ Matches(v, s)
    BY <1>1, <1>2, <1>5, <1>7
  <2>8. Matches(v, t)'
    BY <1>2, <1>6, <2>4, <2>5, <2>6, <2>7
  <2> QED
    BY <1>5, <2>8
<1>9. Matches(x, List(x))'
  <2>1. PICK g, b : g = List(x) /\ b = Append(g, w) /\ b = List(x)'
    OBVIOUS
  <2>2. g \in Seq(Watchers) /\ Matches(x, g) /\ Never(g, c)
    BY <1>1, <1>7, <2>1
  <2>3. /\ ToSet(b) = ToSet(g) \cup {w}
        /\ Never(g, w.cref) => Once(b, w.cref)
        /\ \A d : d # w.cref => (Once(g, d) => Once(b, d)) /\ (Never(g, d) => Never(b, d))
    BY <2>1, <2>2, AppendEntry
  <2>4. Once(b, c)
    BY <1>4, <2>2, <2>3
  <2>5. \A d : d # c => (Once(g, d) => Once(b, d)) /\ (Never(g, d) => Never(b, d))
    BY <1>4, <2>3
  <2>6. Matches(x, b)'
    BY <1>6, <2>2, <2>3, <2>4, <2>5
  <2> QED
    BY <2>1, <2>6
<1>10. ASSUME NEW l \in Lits, l # x, l # v PROVE Matches(l, List(l))'
  <2>1. PICK g : g = List(l) /\ g = List(l)'
    BY <1>1, <1>10
  <2>2. Matches(l, g) /\ IF l \in {a, x} THEN Once(g, c) ELSE Never(g, c)
    BY <1>7, <1>10, <2>1
  <2>3. Matches(l, g)'
    BY <1>6, <2>2
  <2> QED
    BY <2>1, <2>3
<1> QED
  BY <1>8, <1>9, <1>10 DEF WatchListsMatch

\* A replacement is a literal past the watched ones that is not false.
LEMMA ReplacementFacts ==
    ASSUME NEW s \in Seq(Lits), NEW k \in Replacements(s)
    PROVE  k \in 3..Len(s) /\ ~IsFalse(trail, s[k])
<1> DEFINE free == {i \in 3..Len(s) : ~IsFalse(trail, s[i])}
<1>1. Replacements(s) = IF Len(s) >= SEARCH_POS_MIN_LEN \/ free = {} THEN free ELSE {Min(free)}
  BY DEF Replacements
<1>2. free \subseteq Nat
  OBVIOUS
<1> HIDE DEF free
<1>3. k \in free
  <2>1. CASE Len(s) >= SEARCH_POS_MIN_LEN \/ free = {}
    BY <1>1, <2>1
  <2>2. CASE ~(Len(s) >= SEARCH_POS_MIN_LEN \/ free = {})
    <3>1. Min(free) \in free
      BY <1>2, <2>2, MinFacts
    <3> QED
      BY <1>1, <2>2, <3>1
  <2> QED
    BY <2>1, <2>2
<1> QED
  BY <1>3 DEF free

\* The step of VisitLong that moves the watch to another literal.
LEMMA MovedKeeps ==
    ASSUME PropInv, Busy, visit.rest # <<>>, NEW c, c = Current.cref, ~Binary(Current),
           NEW s, s = Oriented(c), NEW w, w = Watcher(c, s[1]), ~IsTrue(trail, s[1]),
           NEW k \in Replacements(s), arena' = [arena EXCEPT ![c].lits = Swapped(s, 2, k)],
           watches' = [watches EXCEPT ![s[k]] = Append(@, w)],
           visit' = [visit EXCEPT !.rest = Tail(@)],
           UNCHANGED <<trail, conflict, binaries, learntBins, formula, dead>>
    PROVE  PropInv'
<1>1. PICK m, v, a, x, z, cur, kept, rest :
          /\ m = Len(trail.lits) /\ v = visit.lit /\ a = s[1] /\ x = s[k]
          /\ z = Swapped(s, 2, k) /\ cur = Current /\ kept = visit.kept /\ rest = visit.rest
  OBVIOUS
<1>2. /\ c \in Crefs /\ Live(c) /\ v \in {Body(c)[1], Body(c)[2]}
      /\ c \in 0..MaxSlots /\ c \in Nat /\ c # 0
  <2>1. cur \in Watchers /\ c = cur.cref
    BY <1>1, CurrentFacts
  <2>2. c \in Crefs /\ Live(c) /\ v \in {Body(c)[1], Body(c)[2]}
    BY <1>1, CurrentFacts
  <2>3. c \in Nat /\ c # 0
    BY <2>2, BodyFacts DEF PropInv
  <2> QED
    BY <2>1, <2>2, <2>3 DEF Watchers
<1>3. /\ s \in Seq(Lits) /\ Len(s) = Len(Body(c)) /\ Len(s) \in Nat /\ Len(s) >= 3
      /\ IsInjective(s) /\ ToSet(s) = ToSet(Body(c)) /\ DOMAIN s = 1..Len(s)
      /\ s[2] = v /\ a \in Lits /\ {s[1], s[2]} = {Body(c)[1], Body(c)[2]}
      /\ Body(c)[1] = s[1] \/ Body(c)[1] = s[2]
  BY <1>1, <1>2, OrientedFacts
<1>4. k \in 3..Len(s) /\ ~IsFalse(trail, x)
  BY <1>1, <1>3, ReplacementFacts
<1>5. /\ kept \in Seq(Watchers) /\ rest \in Seq(Watchers) /\ rest # <<>> /\ v \in Lits /\ v # 0
      /\ List(v) = kept \o rest /\ visit = [lit |-> v, kept |-> kept, rest |-> rest]
      /\ conflict = <<>> /\ trail.qhead \in 1..m /\ trail.lits[trail.qhead] = -v
      /\ IsFalse(trail, v) /\ WellFormed(trail) /\ DbTyped /\ cur = Head(rest)
  BY <1>1, BusyFacts, LitFacts, TypedDb DEF Current
<1>6. 1 \in 1..Len(s) /\ 2 \in 1..Len(s) /\ k \in 1..Len(s) /\ k # 1 /\ k # 2
  BY <1>3, <1>4
<1>7. x \in Lits /\ x # a /\ x # v /\ a # v
  <2>1. x \in Lits
    BY <1>1, <1>3, <1>6, ElementOfSeq
  <2>2. s[1] # s[2] /\ s[k] # s[1] /\ s[k] # s[2]
    BY <1>3, <1>6 DEF IsInjective
  <2> QED
    BY <1>1, <1>3, <2>1, <2>2
<1>8. IsSwap(z, s, 2, k)
  BY <1>1, <1>3, <1>6, SwapLits
<1>9. /\ z \in Seq(Lits) /\ Len(z) = Len(Body(c)) /\ ToSet(z) = ToSet(Body(c)) /\ IsInjective(z)
      /\ z[1] = a /\ z[2] = x
  <2>1. z \in Seq(Lits) /\ Len(z) = Len(s) /\ ToSet(z) = ToSet(s) /\ IsInjective(z)
    BY <1>3, <1>8 DEF IsSwap
  <2>2. z[2] = s[k] /\ \A i \in 1..Len(s) : i # 2 /\ i # k => z[i] = s[i]
    BY <1>8 DEF IsSwap
  <2>3. z[1] = s[1]
    BY <1>6, <2>2
  <2> QED
    BY <1>1, <1>3, <2>1, <2>2, <2>3
<1>10. ~IsTrue(trail, Body(c)[1])
  <2>1. ~IsTrue(trail, v)
    BY <1>5, TruthFacts
  <2> QED
    BY <1>3, <2>1
<1>11. SameClauses /\ Body(c)' = z /\ \A d \in Crefs : d # c => Body(d)' = Body(d)
  BY <1>1, <1>2, <1>9, <1>10, Rearranged
<1>12. w \in Watchers /\ w.cref = c /\ ~Binary(w) /\ a \in ToSet(Body(c))
  <2>1. a \in ToSet(s)
    BY <1>1, <1>3, <1>6, ToSetFacts
  <2> QED
    BY <1>1, <1>2, <1>3, <2>1, WatcherParts DEF Binary
<1>13. /\ visit' = [lit |-> v, kept |-> kept, rest |-> Tail(rest)]
       /\ visit'.lit = v /\ visit'.rest = Tail(rest)
  BY <1>5
<1>14. Tail(rest) \in Seq(Watchers) /\ kept \o Tail(rest) \in Seq(Watchers)
       /\ ToSet(rest) = {cur} \cup ToSet(Tail(rest))
  BY <1>5, <1>12, SplitList
<1>15. watches' \in [Lits -> Seq(Watchers)]
       /\ \A l \in Lits : watches'[l] = IF l = x THEN Append(watches[l], w) ELSE watches[l]
  <2>1. watches[x] \in Seq(Watchers)
    BY <1>5, <1>7 DEF DbTyped
  <2>2. Append(watches[x], w) \in Seq(Watchers)
    BY <1>12, <2>1, AppendProperties
  <2>3. watches' = [watches EXCEPT ![x] = Append(watches[x], w)]
    BY <1>1
  <2> QED
    <3>1. PICK q : q = Append(watches[x], w)
      OBVIOUS
    <3>2. watches' = [watches EXCEPT ![x] = q] /\ q \in Seq(Watchers)
      BY <2>2, <2>3, <3>1
    <3>3. watches \in [Lits -> Seq(Watchers)]
      BY <1>5 DEF DbTyped
    <3>4. watches' \in [Lits -> Seq(Watchers)]
      BY <3>2, <3>3
    <3>5. \A l \in Lits : watches'[l] = IF l = x THEN q ELSE watches[l]
      BY <3>2, <3>3
    <3> QED
      BY <3>1, <3>4, <3>5
<1>16. /\ List(v)' = kept \o Tail(rest)
       /\ List(x)' = Append(List(x), w)
       /\ \A l \in Lits : l # x /\ l # v => List(l)' = List(l)
  <2>1. visit'.lit = v /\ visit'.kept = kept /\ visit'.rest = Tail(rest)
    BY <1>13
  <2> QED
    BY <1>1, <1>7, <1>15, <2>1 DEF List
<1>17. WatchListsMatch'
  <2>1. {Body(c)[1], Body(c)[2]} = {a, v}
    BY <1>1, <1>3
  <2>2. {Body(c)'[1], Body(c)'[2]} = {a, x}
    BY <1>9, <1>11
  <2>3. List(v)' = visit.kept \o Tail(visit.rest) /\ w = Watcher(c, a)
    BY <1>1, <1>16
  <2> QED
    <3>1. WatchMoves(c, a, v, x)
      BY <1>11, <1>12, <2>1, <2>2 DEF WatchMoves
    <3>2. EntryMoves(w, v, x)
      BY <1>16, <2>3 DEF EntryMoves
    <3>3. v = visit.lit /\ a \in Lits /\ x \in Lits /\ x # a /\ x # v /\ a # v
      BY <1>1, <1>3, <1>7
    <3>4. SameClauses /\ w \in Watchers /\ w = Watcher(c, a)
      BY <1>11, <1>12, <2>3
    <3> QED
      BY <3>1, <3>2, <3>3, <3>4, MovedMatch
<1>18. m \in Nat /\ Continues(trail, trail', m) /\ Len(trail'.lits) # m + 1
  <2>1. m \in Nat
    BY <1>1, <1>5, TrailParts DEF WellFormed
  <2>2. WellFormed(trail) /\ trail' = trail /\ m = Len(trail.lits)
    BY <1>1, <1>5
  <2> QED
    BY <2>1, <2>2, ContinuesSelf
<1>19. LevelsExact' /\ ReasonsOrdered' /\ WellFormed(trail)' /\ ClausesSound'
  BY <1>1, <1>11, <1>18, ReasonsStand DEF Continues, SameClauses
<1>20. PropTypeOK'
  <2>1. visit' \in [lit : Lits \cup {0}, kept : Seq(Watchers), rest : Seq(Watchers)]
    BY <1>5, <1>13, <1>14
  <2> QED
    BY <1>11, <1>15, <1>19, <2>1, TypedDb DEF PropTypeOK, SameClauses, DbTyped, WellFormed
<1>21. VisitSound'
  <2>1. visit'.lit = v
    BY <1>13
  <2> QED
    BY <1>1, <1>5, <2>1 DEF PropInv, VisitSound
<1>22. NothingMissed'
  <2> SUFFICES ASSUME NEW l \in Lits, NEW y \in ToSet(List(l)'), Visited(l, y)'
               PROVE  Harmless(trail', l, Claimed(y)')
    BY DEF NothingMissed
  <2>1. PICK i \in 1..trail.qhead : /\ trail.lits[i] = -l
                                    /\ i = trail.qhead /\ visit'.lit = l => ~Contains(Tail(rest), y)
    BY <1>13 DEF Visited
  <2>2. i \in 1..m
    BY <1>5, <1>18
  <2>3. i = trail.qhead => l = v
    BY <1>5, <2>1, LitFacts
  <2>4. l # x
    <3>1. IsFalse(trail, l)
      BY <1>1, <1>5, <2>1, <2>2, TruthFacts
    <3> QED
      BY <1>4, <3>1
  <2>5. y \in ToSet(List(l)) /\ (i = trail.qhead => ~Contains(visit.rest, y))
    <3>1. CASE l # v
      BY <1>16, <2>3, <2>4, <3>1
    <3>2. CASE l = v
      <4>1. i = trail.qhead
        BY <1>1, <1>5, <2>1, <2>2, <3>2 DEF WellFormed
      <4>2. ~Contains(Tail(rest), y)
        BY <1>13, <2>1, <3>2, <4>1
      <4>3. y \notin ToSet(Tail(rest))
        BY <4>2 DEF Contains, ToSet
      <4>4. PICK p, q, t : p = Len(kept) + 1 /\ q = kept \o rest /\ t = kept \o Tail(rest)
        OBVIOUS
      <4>5. q = List(v) /\ t = List(v)' /\ q \in Seq(Watchers) /\ t \in Seq(Watchers)
        BY <1>5, <1>14, <1>16, <4>4, ConcatProperties
      <4>6. p \in 1..Len(q) /\ q[p] = cur
        BY <1>5, <1>12, <4>4, SplitList
      <4>7. /\ Len(kept \o Tail(rest)) = Len(q) - 1
            /\ \A j \in 1..Len(kept \o Tail(rest)) :
                  (kept \o Tail(rest))[j] = IF j < p THEN q[j] ELSE q[j + 1]
        BY SMTT(60), <1>5, <1>12, <4>4, SplitList
      <4>8. DroppedFrom(t, q, q[p])
        BY <4>4, <4>5, <4>6, <4>7, DropEntry
      <4>9. y \in ToSet(t) /\ ToSet(t) \subseteq ToSet(q) /\ (Once(q, c) => Never(t, c))
        BY <1>1, <3>2, <4>5, <4>6, <4>8 DEF DroppedFrom
      <4>10. Once(q, c)
        <5>1. Matches(v, q)
          BY <1>5, <4>5 DEF PropInv, WatchListsMatch
        <5> QED
          BY <1>2, <5>1 DEF Matches
      <4>11. y # cur
        <5>1. PICK j \in 1..Len(t) : t[j] = y
          BY <4>5, <4>9, ToSetFacts
        <5>2. t[j].cref # c
          BY <4>9, <4>10, <5>1 DEF Never
        <5> QED
          BY <1>1, <5>1, <5>2
      <4>12. y \notin ToSet(rest)
        BY <1>14, <4>3, <4>11
      <4>13. ~Contains(visit.rest, y)
        BY <1>1, <4>12 DEF Contains, ToSet
      <4>14. y \in ToSet(List(l))
        BY <3>2, <4>5, <4>9
      <4> QED
        BY <4>13, <4>14
    <3> QED
      BY <3>1, <3>2
  <2> QED
    BY <1>1, <1>11, <1>18, <2>1, <2>5, StillHarmless
<1> QED
  BY <1>17, <1>19, <1>20, <1>21, <1>22 DEF PropInv

LEMMA VisitLongKeeps ==
    ASSUME PropInv, VisitLong
    PROVE  PropInv'
<1>1. PICK c, s, w : c = Current.cref /\ s = Oriented(c) /\ w = Watcher(c, s[1])
  OBVIOUS
<1>2. /\ Busy /\ visit.rest # <<>> /\ ~Binary(Current)
      /\ UNCHANGED <<binaries, learntBins, formula, dead>>
  BY DEF VisitLong, AtLong, clientVars
<1>3. \/ /\ IsTrue(trail, s[1]) /\ arena' = [arena EXCEPT ![c].lits = s] /\ Keep(w)
         /\ UNCHANGED <<trail, watches, conflict>>
      \/ /\ ~IsTrue(trail, s[1])
         /\ \E k \in Replacements(s) :
               /\ arena' = [arena EXCEPT ![c].lits = Swapped(s, 2, k)]
               /\ watches' = [watches EXCEPT ![s[k]] = Append(@, w)]
         /\ visit' = [visit EXCEPT !.rest = Tail(@)] /\ UNCHANGED <<trail, conflict>>
      \/ /\ IsUndef(trail, s[1]) /\ Replacements(s) = {}
         /\ arena' = [arena EXCEPT ![c].lits = s] /\ Keep(w)
         /\ trail' = Enqueued(trail, s[1], ByClause(c)) /\ UNCHANGED <<watches, conflict>>
      \/ /\ IsFalse(trail, s[1]) /\ Replacements(s) = {}
         /\ arena' = [arena EXCEPT ![c].lits = s] /\ Refute(w, s) /\ UNCHANGED trail
  BY <1>1 DEF VisitLong
<1>4. CASE /\ ~IsTrue(trail, s[1])
           /\ \E k \in Replacements(s) :
                 /\ arena' = [arena EXCEPT ![c].lits = Swapped(s, 2, k)]
                 /\ watches' = [watches EXCEPT ![s[k]] = Append(@, w)]
           /\ visit' = [visit EXCEPT !.rest = Tail(@)] /\ UNCHANGED <<trail, conflict>>
  <2>1. PICK k \in Replacements(s) : /\ arena' = [arena EXCEPT ![c].lits = Swapped(s, 2, k)]
                                     /\ watches' = [watches EXCEPT ![s[k]] = Append(@, w)]
    BY <1>4
  <2> QED
    BY <1>1, <1>2, <1>4, <2>1, MovedKeeps
<1>5. CASE /\ arena' = [arena EXCEPT ![c].lits = s]
           /\ \/ IsTrue(trail, s[1]) /\ Keep(w) /\ UNCHANGED <<trail, watches, conflict>>
              \/ /\ IsUndef(trail, s[1]) /\ Replacements(s) = {} /\ Keep(w)
                 /\ trail' = Enqueued(trail, s[1], ByClause(c)) /\ UNCHANGED <<watches, conflict>>
              \/ IsFalse(trail, s[1]) /\ Refute(w, s) /\ UNCHANGED trail
  BY <1>1, <1>2, <1>5, StoredKeeps
<1> QED
  BY <1>3, <1>4, <1>5

(***************************************************************************)
(* The first state, and steps that touch nothing of propagation.            *)
(***************************************************************************)
LEMMA InitPropInv == PropInit => PropInv
<1> SUFFICES ASSUME PropInit PROVE PropInv
  OBVIOUS
<1> USE DEF PropInit
<1>1. /\ trail.lits = <<>> /\ trail.lim = <<>> /\ trail.qhead = 0
      /\ trail.info = [v \in Vars |-> Unassigned]
      /\ Len(trail.lits) = 0 /\ Len(trail.lim) = 0
  BY EmptySeq DEF EmptyTrail
<1>2. trail \in TrailType
  <2>1. Unassigned \in [level : Nat \cup {-1}, reason : Reasons]
    BY DEF Unassigned, Decision, Reasons
  <2>2. <<>> \in Seq(Lits) /\ <<>> \in Seq(Nat)
    BY EmptySeq
  <2> QED
    BY <2>1, <2>2 DEF EmptyTrail, TrailType
<1>3. WellFormed(trail)
  BY <1>1, <1>2 DEF WellFormed
<1>5. PropTypeOK
  <2>1. visit \in [lit : Lits \cup {0}, kept : Seq(Watchers), rest : Seq(Watchers)]
    BY EmptySeq DEF NoVisit
  <2>2. /\ arena \in Seq([lits : Seq(Lits), kind : Kinds, lbd : Nat])
        /\ watches \in [Lits -> Seq(Watchers)] /\ conflict \in Seq(Lits)
    BY EmptySeq
  <2> QED
    BY <1>2, <2>1, <2>2 DEF PropTypeOK
<1>6. Crefs = {} /\ binaries \cup learntBins = {}
  BY EmptySeq DEF Crefs
<1>7. ClausesSound
  BY <1>6 DEF ClausesSound
<1>8. VisitSound
  BY DEF VisitSound, Busy
<1>9. \A l \in Lits : List(l) = <<>> /\ ToSet(List(l)) = {}
  <2>1. \A l \in Lits : List(l) = <<>>
    BY LitFacts DEF List, NoVisit
  <2>2. ToSet(<<>>) = {}
    BY EmptySeq DEF ToSet
  <2> QED
    BY <2>1, <2>2
<1>10. WatchListsMatch
  BY <1>6, <1>9 DEF WatchListsMatch, Matches
<1>11. NothingMissed
  BY <1>9 DEF NothingMissed
<1>12. LevelsExact /\ ReasonsOrdered
  <2>1. \A i \in 1..Len(trail.lits) : ReasonRight(i)
    BY <1>1
  <2> QED
    BY <1>3, <2>1, ReasonsEach
<1> QED
  BY <1>3, <1>5, <1>7, <1>8, <1>10, <1>11, <1>12 DEF PropInv

LEMMA SamePropInv ==
    ASSUME PropInv, UNCHANGED <<propVars, clientVars>>
    PROVE  PropInv'
<1>1. UNCHANGED <<trail, arena, watches, binaries, learntBins, visit, conflict, formula, dead>>
  BY DEF propVars, clientVars, dbVars
<1>2. \A l \in Lits : List(l)' = List(l)
  BY <1>1 DEF List
<1>3. WatchListsMatch'
  BY <1>1, <1>2, SameLists
<1>4. WellFormed(trail) /\ DbTyped
  BY TypedDb
<1>5. /\ LevelsExact' /\ ReasonsOrdered' /\ ClausesSound'
      /\ \A w : Claimed(w)' = Claimed(w)
      /\ \A l, c : Harmless(trail', l, c) <=> Harmless(trail, l, c)
  BY <1>1, <1>4, SameReasons DEF PropInv
<1>6. NothingMissed'
  <2> SUFFICES ASSUME NEW l \in Lits, NEW w \in ToSet(List(l)), Visited(l, w)'
               PROVE  Harmless(trail, l, Claimed(w))
    BY <1>2, <1>5 DEF NothingMissed
  <2>1. Visited(l, w)
    BY <1>1 DEF Visited
  <2> QED
    BY <2>1 DEF PropInv, NothingMissed
<1>7. PropTypeOK' /\ VisitSound' /\ WellFormed(trail)'
  BY <1>1 DEF PropInv, PropTypeOK, VisitSound, Busy
<1> QED
  BY <1>1, <1>3, <1>5, <1>6, <1>7 DEF PropInv

\* When propagate returned None, every false watched literal has been visited.
LEMMA AllVisited ==
    ASSUME PropInv, Quiet, NEW l \in Lits, IsFalse(trail, l), NEW w \in ToSet(List(l))
    PROVE  \E q \in Claimed(w) : IsTrue(trail, q)
<1>1. /\ visit = NoVisit /\ conflict = <<>> /\ trail.qhead = Len(trail.lits) /\ WellFormed(trail)
      /\ l # 0
  BY TypedDb, LitFacts DEF Quiet
<1>2. PICK i \in 1..Len(trail.lits) : trail.lits[i] = -l
  BY <1>1, TruthFacts
<1>3. Visited(l, w)
  BY <1>1, <1>2 DEF Visited, NoVisit
<1> QED
  BY <1>3 DEF PropInv, NothingMissed, Harmless

\* What the watch lists and the visits say of the clauses once all is quiet.
LEMMA QuietComplete == PropInv => PropagationComplete
<1> SUFFICES ASSUME PropInv, Quiet, NEW c \in StoredClauses, \A l \in c : ~IsTrue(trail, l)
             PROVE  \E l, k \in c : l # k /\ IsUndef(trail, l) /\ IsUndef(trail, k)
  BY DEF PropagationComplete
<1>1. CASE c \in binaries \cup learntBins
  <2>1. PICK l \in Lits, k \in Lits : l # k /\ c = {l, k}
    BY <1>1 DEF PropInv, ClausesSound
  <2>2. ASSUME NEW p \in c PROVE ~IsFalse(trail, p)
    <3> SUFFICES ASSUME IsFalse(trail, p) PROVE FALSE
      OBVIOUS
    <3>1. p \in Lits
      BY <2>1
    <3>2. PICK w \in ToSet(List(p)) : Binary(w) /\ {p, w.blocker} = c
      BY <1>1, <2>2, <3>1 DEF PropInv, WatchListsMatch, Matches
    <3>3. PICK q \in Claimed(w) : IsTrue(trail, q)
      BY <3>1, AllVisited
    <3>4. q \in c
      BY <3>2, <3>3 DEF Claimed
    <3> QED
      BY <3>3, <3>4
  <2> QED
    BY <2>1, <2>2 DEF IsUndef
<1>2. CASE c \notin binaries \cup learntBins
  <2>1. PICK d \in Crefs : Live(d) /\ c = ToSet(Body(d))
    BY <1>2 DEF StoredClauses
  <2>2. PICK l \in Lits, k \in Lits : l # k /\ l = Body(d)[1] /\ k = Body(d)[2]
    BY <2>1, BodyFacts DEF PropInv
  <2>3. l \in c /\ k \in c
    BY <2>1, <2>2, BodyFacts, ToSetFacts DEF PropInv
  <2>4. ASSUME NEW p \in {l, k} PROVE ~IsFalse(trail, p)
    <3> SUFFICES ASSUME IsFalse(trail, p) PROVE FALSE
      OBVIOUS
    <3>1. p \in Lits /\ List(p) \in Seq(Watchers)
      BY ListFacts DEF PropInv
    <3>2. Once(List(p), d)
      BY <2>1, <2>2, <3>1 DEF PropInv, WatchListsMatch, Matches
    <3>3. PICK i \in 1..Len(List(p)) : List(p)[i].cref = d
      BY <3>2 DEF Once
    <3>4. PICK w \in ToSet(List(p)) : w.cref = d
      BY <3>1, <3>3, ToSetFacts
    <3>5. PICK q \in Claimed(w) : IsTrue(trail, q)
      BY <3>1, AllVisited
    <3>6. d # 0
      BY <2>1, BodyFacts DEF PropInv
    <3>7. q \in c
      BY <2>1, <3>4, <3>5, <3>6 DEF Claimed, Binary
    <3> QED
      BY <3>5, <3>7
  <2> QED
    BY <2>2, <2>3, <2>4 DEF IsUndef
<1> QED
  BY <1>1, <1>2
================================================================================
