------------------------------- MODULE SolverProofs -------------------------------
(***************************************************************************)
(* What the calls of the solver keep (module Solver), and that they         *)
(* implement Cdcl, for any clauses, variables, assumption lists and bounds. *)
(***************************************************************************)
EXTENDS Solver, AnalyzeTheorems

(***************************************************************************)
(* Deletion: what watches.retain leaves of a list.                          *)
(***************************************************************************)
\* The ranks of the elements of K are 1..N, each of one element.
RanksTo(K, N) ==
    /\ N \in Nat
    /\ \A i \in K : Rank(K, i) \in 1..N
    /\ \A i, j \in K : Rank(K, i) = Rank(K, j) => i = j
    /\ \A k \in 1..N : \E i \in K : Rank(K, i) = k

LEMMA RankFacts ==
    ASSUME NEW n \in Nat, NEW K, K \subseteq 1..n, NEW N, N = Cardinality(K)
    PROVE  RanksTo(K, N)
<1>1. IsFiniteSet(K) /\ N \in Nat
  <2>1. IsFiniteSet(1..n)
    BY FS_Interval
  <2> QED
    BY <2>1, FS_Subset, FS_CardinalityType
<1> DEFINE B(i) == {j \in K : j <= i}
<1>2. \A i : /\ IsFiniteSet(B(i)) /\ Cardinality(B(i)) \in Nat /\ Cardinality(B(i)) <= N
             /\ Rank(K, i) = Cardinality(B(i))
  BY <1>1, FS_Subset, FS_CardinalityType DEF Rank
<1>3. \A i \in K : i \in B(i)
  OBVIOUS
<1>4. \A i \in K : Rank(K, i) \in 1..N
  <2> TAKE i \in K
  <2>1. Cardinality(B(i)) # 0
    BY <1>2, <1>3, FS_EmptySet
  <2> QED
    BY <2>1, <1>1, <1>2
<1>5. ASSUME NEW i \in K, NEW j \in K, i < j
      PROVE  Rank(K, i) # Rank(K, j)
  <2>1. B(i) \subseteq B(j)
    <3> SUFFICES ASSUME NEW x \in K, x <= i
                 PROVE  x <= j
      OBVIOUS
    <3>1. x \in Int /\ i \in Int /\ j \in Int
      OBVIOUS
    <3> QED
      BY <3>1, <1>5
  <2>2. j \notin B(i)
    BY <1>5
  <2>3. B(i) # B(j)
    BY <2>2, <1>3
  <2> HIDE DEF B
  <2>4. Cardinality(B(i)) # Cardinality(B(j))
    BY <2>1, <2>3, <1>2, FS_Subset
  <2> QED
    BY <2>4, <1>2
<1> HIDE DEF B
<1>6. \A i, j \in K : Rank(K, i) = Rank(K, j) => i = j
  <2> SUFFICES ASSUME NEW i \in K, NEW j \in K, i # j
               PROVE  Rank(K, i) # Rank(K, j)
    OBVIOUS
  <2>1. i < j \/ j < i
    OBVIOUS
  <2> QED
    BY <2>1, <1>5
<1>7. \A k \in 1..N : \E i \in K : Rank(K, i) = k
  <2> SUFFICES ASSUME NEW k \in 1..N, \A i \in K : Rank(K, i) # k
               PROVE  FALSE
    OBVIOUS
  <2>1. PICK f : f = [i \in K |-> Rank(K, i)]
    OBVIOUS
  <2>2. PICK T : T = (1..N) \ {k}
    OBVIOUS
  <2>3. IsFiniteSet(1..N) /\ Cardinality(1..N) = N
    BY <1>1, FS_Interval
  <2>4. IsFiniteSet(T) /\ Cardinality(T) = N - 1
    BY <2>2, <2>3, FS_RemoveElement
  <2>5. f \in [K -> T]
    BY <2>1, <2>2, <1>4
  <2>6. Cardinality(T) < Cardinality(K)
    BY <2>4, <1>1
  <2>7. PICK i \in K, j \in K : i # j /\ f[i] = f[j]
    BY <2>4, <2>5, <2>6, <1>1, FS_PigeonHole
  <2> QED
    BY <2>1, <2>7, <1>6
<1> QED
  BY <1>1, <1>4, <1>6, <1>7 DEF RanksTo

\* r is what is left of the list s when the watchers of the clauses gone go.
Thinned(r, s, gone) ==
    /\ r \in Seq(Watchers)
    /\ \A w : w \in ToSet(r) <=> w \in ToSet(s) /\ (Binary(w) \/ w.cref \notin gone)
    /\ \A c : c \notin gone => /\ Once(s, c) => Once(r, c)
                               /\ Never(s, c) => Never(r, c)

LEMMA RetainedFacts ==
    ASSUME NEW s \in Seq(Watchers), NEW gone, NEW r, r = Retained(s, gone)
    PROVE  Thinned(r, s, gone)
<1>1. PICK n \in Nat : n = Len(s) /\ DOMAIN s = 1..n /\ \A i \in 1..n : s[i] \in Watchers
  BY LenProperties, ElementOfSeq
<1>2. PICK K : K = {i \in 1..n : Binary(s[i]) \/ s[i].cref \notin gone}
  OBVIOUS
<1>3. PICK N : N = Cardinality(K)
  OBVIOUS
<1>4. K \subseteq 1..n
  BY <1>2
<1>5. /\ N \in Nat
      /\ \A i \in K : Rank(K, i) \in 1..N
      /\ \A i, j \in K : Rank(K, i) = Rank(K, j) => i = j
      /\ \A k \in 1..N : \E i \in K : Rank(K, i) = k
  <2>1. RanksTo(K, N)
    BY <1>3, <1>4, RankFacts
  <2> QED
    BY <2>1 DEF RanksTo
<1>6. PICK h : h = [k \in 1..N |-> CHOOSE i \in K : Rank(K, i) = k]
  OBVIOUS
<1>7. \A k \in 1..N : h[k] \in K /\ Rank(K, h[k]) = k
  BY <1>5, <1>6
<1>8. \A i \in K : \E k \in 1..N : h[k] = i
  BY <1>5, <1>7
<1>9. \A j, k \in 1..N : h[j] = h[k] => j = k
  BY <1>7
<1>10. r = [k \in 1..N |-> s[h[k]]]
  <2>1. K = {i \in DOMAIN s : Binary(s[i]) \/ s[i].cref \notin gone}
    BY <1>1, <1>2
  <2>2. r = [k \in 1..Cardinality(K) |-> s[CHOOSE i \in K : Rank(K, i) = k]]
    BY <2>1 DEF Retained
  <2> QED
    BY <2>2, <1>3, <1>6
<1>11. \A k \in 1..N : s[h[k]] \in Watchers
  BY <1>1, <1>4, <1>7
<1>12. r \in Seq(Watchers) /\ Len(r) = N /\ DOMAIN r = 1..N
  BY <1>5, <1>10, <1>11
<1>13. \A w : w \in ToSet(r) <=> w \in ToSet(s) /\ (Binary(w) \/ w.cref \notin gone)
  <2> TAKE w
  <2>1. w \in ToSet(r) <=> \E k \in 1..N : s[h[k]] = w
    BY <1>10, <1>12 DEF ToSet
  <2>2. w \in ToSet(s) <=> \E i \in 1..n : s[i] = w
    BY <1>1 DEF ToSet
  <2>3. ASSUME NEW k \in 1..N, s[h[k]] = w
        PROVE  (\E i \in 1..n : s[i] = w) /\ (Binary(w) \/ w.cref \notin gone)
    BY <2>3, <1>2, <1>4, <1>7
  <2>4. ASSUME NEW i \in 1..n, s[i] = w, Binary(w) \/ w.cref \notin gone
        PROVE  \E k \in 1..N : s[h[k]] = w
    <3>1. i \in K
      BY <2>4, <1>2
    <3> QED
      BY <2>4, <3>1, <1>8
  <2> QED
    BY <2>1, <2>2, <2>3, <2>4
<1>14. ASSUME NEW c, c \notin gone, Once(s, c)
       PROVE  Once(r, c)
  <2>1. PICK i \in 1..n : \A j \in 1..n : s[j].cref = c <=> j = i
    BY <1>1, <1>14 DEF Once
  <2>2. i \in K
    BY <2>1, <1>2, <1>14
  <2>3. PICK k \in 1..N : h[k] = i
    BY <2>2, <1>8
  <2>4. \A j \in 1..N : r[j].cref = c <=> j = k
    <3> TAKE j \in 1..N
    <3>1. r[j] = s[h[j]] /\ h[j] \in 1..n
      BY <1>4, <1>7, <1>10
    <3>2. s[h[j]].cref = c <=> h[j] = i
      BY <3>1, <2>1
    <3> QED
      BY <3>1, <3>2, <2>3, <1>9
  <2> QED
    BY <2>4, <1>12 DEF Once
<1>15. ASSUME NEW c, c \notin gone, Never(s, c)
       PROVE  Never(r, c)
  <2>1. \A j \in 1..n : s[j].cref # c
    BY <1>1, <1>15 DEF Never
  <2>2. \A j \in 1..N : r[j] = s[h[j]] /\ h[j] \in 1..n
    BY <1>4, <1>7, <1>10
  <2> QED
    BY <2>1, <2>2, <1>12 DEF Never
<1> QED
  BY <1>12, <1>13, <1>14, <1>15 DEF Thinned

\* A watcher that stays belongs to a clause that stays.
LEMMA ReduceDbKeeps ==
    ASSUME PropInv, Shaped(trail), Quiet, ReduceDb
    PROVE  PropInv'
<1>1. /\ visit = NoVisit /\ conflict = <<>>
      /\ UNCHANGED <<trail, binaries, learntBins, visit, conflict, formula, dead>>
  BY DEF Quiet, ReduceDb, clientVars
<1>2. /\ DbTyped /\ WellFormed(trail) /\ ClausesSound /\ WatchListsMatch /\ NothingMissed
  BY TypedDb DEF PropInv
<1>3. PICK gone \in SUBSET Learnts :
          /\ \A c \in gone : ~locked(c)
          /\ arena' = [c \in Crefs |-> IF c \in gone THEN [arena[c] EXCEPT !.lits = <<>>]
                                       ELSE arena[c]]
          /\ watches' = Purged(gone)
  <2>1. PICK good \in SUBSET Learnts :
            LET g == {c \in Learnts \ good : arena[c].lbd > 2 /\ ~locked(c)}
            IN  /\ arena' = [c \in Crefs |-> IF c \in g THEN [arena[c] EXCEPT !.lits = <<>>]
                                             ELSE arena[c]]
                /\ watches' = Purged(g)
    BY DEF ReduceDb
  <2>2. PICK g : g = {c \in Learnts \ good : arena[c].lbd > 2 /\ ~locked(c)}
    OBVIOUS
  <2>3. g \in SUBSET Learnts /\ \A c \in g : ~locked(c)
    BY <2>2
  <2> QED
    BY <2>1, <2>2, <2>3
<1>4. PICK n \in Nat : n = Len(arena) /\ Crefs = 1..n
  BY <1>2, LenProperties DEF DbTyped, Crefs
<1>5. \A c \in Crefs : arena[c] \in [lits : Seq(Lits), kind : Kinds, lbd : Nat]
  BY <1>2, <1>4, ElementOfSeq DEF DbTyped
<1>6. arena' \in Seq([lits : Seq(Lits), kind : Kinds, lbd : Nat])
  <2>1. <<>> \in Seq(Lits)
    OBVIOUS
  <2>2. \A c \in 1..n : arena'[c] \in [lits : Seq(Lits), kind : Kinds, lbd : Nat]
    BY <2>1, <1>3, <1>4, <1>5
  <2>3. arena' = [c \in 1..n |-> arena'[c]]
    BY <1>3, <1>4
  <2>4. arena' \in [1..n -> [lits : Seq(Lits), kind : Kinds, lbd : Nat]]
    BY <2>2, <2>3
  <2>5. PICK R : R = [lits : Seq(Lits), kind : Kinds, lbd : Nat]
    OBVIOUS
  <2>6. PICK a : a = arena' /\ a \in [1..n -> R]
    BY <2>4, <2>5
  <2>7. a \in Seq(R)
    BY <2>6
  <2> QED
    BY <2>5, <2>6, <2>7
<1>7. Crefs' = Crefs
  BY <1>3 DEF Crefs
<1>8. \A c \in Crefs : c \notin gone => Live(c)' = Live(c) /\ Body(c)' = Body(c)
  BY <1>3 DEF Live, Body
<1>9. \A c \in Crefs : c \in gone => ~Live(c)'
  BY <1>3, <1>5 DEF Live
<1>10. ClausesSound'
  BY <1>1, <1>2, <1>7, <1>8, <1>9 DEF ClausesSound
<1>11. \A l \in Lits : List(l) = watches[l] /\ List(l)' = watches'[l]
  BY <1>1, LitFacts DEF List, NoVisit
<1>12. \A l \in Lits : Thinned(List(l)', List(l), gone)
  <2> TAKE l \in Lits
  <2>1. PICK r : r = Retained(watches[l], gone)
    OBVIOUS
  <2>2. watches[l] \in Seq(Watchers)
    BY <1>2 DEF DbTyped
  <2>3. Thinned(r, watches[l], gone)
    BY <2>1, <2>2, RetainedFacts
  <2>4. watches'[l] = r
    BY <2>1, <1>3 DEF Purged
  <2> QED
    BY <2>3, <2>4, <1>11
<1>13. watches' \in [Lits -> Seq(Watchers)]
  <2>1. \A l \in Lits : watches'[l] \in Seq(Watchers)
    BY <1>11, <1>12 DEF Thinned
  <2>2. watches' = [l \in Lits |-> watches'[l]]
    BY <1>3 DEF Purged
  <2> QED
    BY <2>1, <2>2
<1>14. WatchListsMatch'
  <2> SUFFICES ASSUME NEW l \in Lits
               PROVE  Matches(l, List(l))'
    BY DEF WatchListsMatch
  <2>1. Matches(l, List(l)) /\ Thinned(List(l)', List(l), gone)
    BY <1>2, <1>12 DEF WatchListsMatch
  <2>2. \A w \in ToSet(List(l)') :
           IF Binary(w) THEN {l, w.blocker} \in (binaries \cup learntBins)'
           ELSE w.cref \in Crefs' /\ Live(w.cref)' /\ w.blocker \in ToSet(Body(w.cref)')
    <3> TAKE w \in ToSet(List(l)')
    <3>1. w \in ToSet(List(l)) /\ (Binary(w) \/ w.cref \notin gone)
      BY <2>1 DEF Thinned
    <3>2. CASE Binary(w)
      BY <3>1, <3>2, <2>1, <1>1 DEF Matches
    <3>3. CASE ~Binary(w)
      <4>1. w.cref \in Crefs /\ Live(w.cref) /\ w.blocker \in ToSet(Body(w.cref)) /\ w.cref \notin gone
        BY <3>1, <3>3, <2>1 DEF Matches
      <4> QED
        BY <3>3, <4>1, <1>7, <1>8
    <3> QED
      BY <3>2, <3>3
  <2>3. ASSUME NEW c \in Crefs', Live(c)'
        PROVE  IF l \in {Body(c)[1], Body(c)[2]}' THEN Once(List(l)', c) ELSE Never(List(l)', c)
    <3>1. c \in Crefs /\ c \notin gone /\ Live(c) /\ Body(c)' = Body(c)
      BY <2>3, <1>7, <1>8, <1>9
    <3>2. IF l \in {Body(c)[1], Body(c)[2]} THEN Once(List(l), c) ELSE Never(List(l), c)
      BY <3>1, <2>1 DEF Matches
    <3> QED
      BY <3>1, <3>2, <2>1 DEF Thinned
  <2>4. ASSUME NEW b \in (binaries \cup learntBins)', l \in b
        PROVE  \E w \in ToSet(List(l)') : Binary(w) /\ {l, w.blocker} = b
    <3>1. PICK w \in ToSet(List(l)) : Binary(w) /\ {l, w.blocker} = b
      BY <2>1, <2>4, <1>1 DEF Matches
    <3> QED
      BY <3>1, <2>1 DEF Thinned
  <2> QED
    BY <2>2, <2>3, <2>4 DEF Matches
<1>15. NothingMissed'
  <2> SUFFICES ASSUME NEW l \in Lits, NEW w \in ToSet(List(l)'), Visited(l, w)'
               PROVE  Harmless(trail', l, Claimed(w)')
    BY DEF NothingMissed
  <2>1. w \in ToSet(List(l)) /\ (Binary(w) \/ w.cref \notin gone)
    BY <1>12 DEF Thinned
  <2>2. Visited(l, w)
    BY <1>1 DEF Visited
  <2>3. Harmless(trail, l, Claimed(w))
    BY <2>1, <2>2, <1>2 DEF NothingMissed
  <2>4. Claimed(w)' = Claimed(w)
    <3>1. CASE Binary(w)
      BY <3>1 DEF Claimed
    <3>2. CASE ~Binary(w)
      <4>1. w.cref \in Crefs
        BY <3>2, <2>1, <1>2 DEF WatchListsMatch, Matches
      <4>2. Body(w.cref)' = Body(w.cref)
        BY <3>2, <4>1, <2>1, <1>8
      <4> QED
        BY <3>2, <4>2 DEF Claimed
    <3> QED
      BY <3>1, <3>2
  <2> QED
    BY <2>3, <2>4, <1>1 DEF Harmless
<1>16. LevelsExact' /\ ReasonsOrdered'
  <2>1. PICK m : m = Len(trail.lits)
    OBVIOUS
  <2>2. Continues(trail, trail', m) /\ m \in Nat /\ Len(trail'.lits) = m
    BY <2>1, <1>1, <1>2, ContinuesSelf, TrailParts DEF WellFormed
  <2>3. ASSUME NEW c \in Crefs, Live(c), NEW i \in 1..m, ReasonOf(trail, trail.lits[i]).cref = c
        PROVE  c \notin gone
    <3>1. PICK l \in Lits : l = trail.lits[i]
      BY <2>1, <1>2, TrailParts DEF WellFormed
    <3>2. PICK r : r = ReasonOf(trail, l) /\ r.cref = c
      BY <2>3, <3>1
    <3>3. c # 0 /\ r.other = 0
      BY <2>1, <3>1, <3>2, <1>4 DEF Shaped
    <3>4. r \in Reasons
      BY <3>1, <3>2, <1>2, LitFacts, TrailParts DEF WellFormed, ReasonOf
    <3>5. r = ByClause(c) /\ r # Decision
      BY <3>2, <3>3, <3>4 DEF ByClause, Decision, Reasons
    <3>6. ReasonRight(i)
      BY <2>1, <1>2, ReasonsEach DEF PropInv
    <3>7. Body(c)[1] = l
      BY <3>1, <3>2, <3>3, <3>5, <3>6 DEF ReasonRight
    <3>8. IsTrue(trail, l)
      BY <2>1, <3>1, <1>2, TruthFacts
    <3>9. locked(c)
      BY <3>2, <3>5, <3>7, <3>8 DEF locked
    <3> QED
      BY <3>9, <1>3
  <2>4. \A c \in Crefs : Live(c) /\ (\E i \in 1..m : ReasonOf(trail, trail.lits[i]).cref = c)
            => c \in Crefs' /\ Live(c)' /\ Body(c)' = Body(c)
    BY <2>3, <1>7, <1>8
  <2>5. binaries \cup learntBins \subseteq (binaries \cup learntBins)'
    BY <1>1
  <2>6. Len(trail'.lits) # m + 1
    BY <2>2
  <2> QED
    BY <2>2, <2>4, <2>5, <2>6, ReasonsKept
<1>17. DbTyped'
  BY <1>1, <1>2, <1>6, <1>13 DEF DbTyped
<1> QED
  BY <1>1, <1>2, <1>10, <1>14, <1>15, <1>16, <1>17, TypedDb, Settled

(***************************************************************************)
(* The inductive invariant.                                                 *)
(***************************************************************************)
Core == PropInv /\ Shaped(trail) /\ ConflictRight

CallsTyped ==
    /\ pc \in {"idle", "entry", "rebuild", "search", "boundary", "analyze", "learned", "blame",
              "probe"}
    /\ assumptions \in Seq(Lits) /\ query \in Seq(Lits)
    /\ trail_reusable \in BOOLEAN
    /\ conflict_core \subseteq Lits /\ forced \subseteq Lits
    /\ answer \in {"none", "sat", "unsat", "stopped", "refuted", "forced"}
    /\ base \in Nat /\ at \in Nat
    /\ armed \in BOOLEAN /\ refuted \in BOOLEAN
    /\ calls \in 0..MaxCalls

\* Where propagation has stopped.
Rested ==
    /\ pc \in {"idle", "learned"} => visit = NoVisit /\ conflict = <<>>
    /\ pc \in {"boundary", "blame"} => Quiet

\* Where analysis is, and that it leaves no mark.
Analyzed ==
    /\ pc = "analyze" => conflict # <<>> /\ LevelOf(trail) > 0 /\ AnalyzeSteps
    /\ pc = "blame" => step = "blame" /\ toclear = {} /\ Tracing(trail, seen, work)
    /\ pc \notin {"analyze", "blame"} => step = "none" /\ seen = {} /\ toclear = {}

\* Each level above those of the assumptions starts with its decision; of a
\* standing trail only if the next call may keep it.
Levelled ==
    /\ pc # "probe" /\ (pc = "idle" => trail_reusable) => StartsDecide(trail, Len(assumptions))
    /\ pc = "probe" => at >= 1 /\ (trail_reusable => base <= Len(assumptions))

SearchInv == Core /\ CallsTyped /\ AnalyzeTypeOK /\ Rested /\ Analyzed /\ Levelled

\* What is still known of a solver that a call has refuted.
Ended == TypeOK /\ pc = "idle" /\ step = "none" /\ seen = {} /\ toclear = {}

\* Once a call has ended in a root conflict the trail is no longer propagated;
\* a client that heeds the refutation calls no more.
IInv ==
    /\ refuted \/ SearchInv
    /\ refuted /\ ~AskAgain => Ended

LEMMA SearchFacts ==
    SearchInv => /\ PropInv /\ Shaped(trail) /\ ConflictRight /\ WellFormed(trail) /\ DbTyped
                 /\ formula \subseteq InputClauses /\ dead \in BOOLEAN
                 /\ LevelOf(trail) \in Nat /\ TypeOK
                 /\ assumptions \in Seq(Lits) /\ Len(assumptions) \in Nat
                 /\ query \in Seq(Lits) /\ base \in Nat /\ at \in Nat
                 /\ conflict # <<>> => visit = NoVisit
<1> SUFFICES ASSUME SearchInv
             PROVE  /\ PropInv /\ Shaped(trail) /\ ConflictRight /\ WellFormed(trail) /\ DbTyped
                    /\ formula \subseteq InputClauses /\ dead \in BOOLEAN
                    /\ LevelOf(trail) \in Nat /\ TypeOK
                    /\ assumptions \in Seq(Lits) /\ Len(assumptions) \in Nat
                    /\ query \in Seq(Lits) /\ base \in Nat /\ at \in Nat
                    /\ conflict # <<>> => visit = NoVisit
  OBVIOUS
<1>1. /\ PropInv /\ Shaped(trail) /\ ConflictRight /\ CallsTyped /\ AnalyzeTypeOK
  BY DEF SearchInv, Core
<1>2. /\ WellFormed(trail) /\ DbTyped /\ formula \subseteq InputClauses /\ dead \in BOOLEAN
  BY <1>1, TypedDb
<1>3. LevelOf(trail) \in Nat
  BY <1>2, TrailParts DEF WellFormed, LevelOf
<1>4. TypeOK
  BY <1>1 DEF TypeOK, PropInv, CallsTyped
<1>5. /\ assumptions \in Seq(Lits) /\ Len(assumptions) \in Nat
      /\ query \in Seq(Lits) /\ base \in Nat /\ at \in Nat
  BY <1>1, LenProperties DEF CallsTyped
<1>6. conflict # <<>> => visit = NoVisit
  BY <1>1 DEF PropInv, VisitSound, Busy
<1> QED
  BY <1>1, <1>2, <1>3, <1>4, <1>5, <1>6

(***************************************************************************)
(* Steps that leave the analysis, or propagation, alone.                    *)
(***************************************************************************)
LEMMA Unanalyzed ==
    ASSUME SearchInv, UNCHANGED analyzeVars, pc \notin {"analyze", "blame"},
           pc' \notin {"analyze", "blame"}
    PROVE  AnalyzeTypeOK' /\ Analyzed'
BY DEF SearchInv, AnalyzeTypeOK, Analyzed, analyzeVars

LEMMA CoreStands ==
    ASSUME SearchInv, UNCHANGED <<propVars, clientVars>>
    PROVE  /\ Core' /\ trail' = trail /\ visit' = visit /\ conflict' = conflict
           /\ Quiet => Quiet'
<1>1. /\ trail' = trail /\ visit' = visit /\ conflict' = conflict
  BY DEF propVars
<1>2. PropInv'
  BY SearchFacts, SamePropInv
<1>3. Shaped(trail)' /\ ConflictRight'
  BY <1>1, SearchFacts DEF ConflictRight
<1> QED
  BY <1>1, <1>2, <1>3 DEF Core, Quiet

LEMMA CutKeeps ==
    ASSUME SearchInv, visit = NoVisit, visit' = visit, conflict' = <<>>,
           UNCHANGED <<dbVars, clientVars>>,
           NEW n \in Nat, conflict = <<>> \/ n < LevelOf(trail), trail' = Cancelled(trail, n)
    PROVE  /\ Core' /\ LevelOf(trail') \in Nat /\ LevelOf(trail') <= n
           /\ \A k \in Nat : StartsDecide(trail, k) => StartsDecide(trail', k)
           /\ Quiet => Quiet'
<1>1. formula' \subseteq InputClauses /\ dead' \in BOOLEAN /\ visit' = NoVisit
  BY SearchFacts DEF clientVars
<1>2. UNCHANGED dbVars
  OBVIOUS
<1>3. PropInv /\ WellFormed(trail) /\ LevelOf(trail) \in Nat /\ Shaped(trail)
  BY SearchFacts
<1>4. PropInv'
  BY <1>1, <1>2, <1>3, CutStep
<1>5. PICK u : u = trail' /\ u = Cancelled(trail, n)
  OBVIOUS
<1>6. ShapeKept(trail, u) /\ LevelOf(u) = IF LevelOf(trail) <= n THEN LevelOf(trail) ELSE n
  BY <1>3, <1>5, CutShape
<1>7. Shaped(u) /\ \A k \in Nat : StartsDecide(trail, k) => StartsDecide(u, k)
  BY <1>3, <1>6 DEF ShapeKept
<1>8. ConflictRight'
  BY NoConflict
<1>9. Quiet => u.qhead = Len(u.lits)
  <2> SUFFICES ASSUME Quiet PROVE u.qhead = Len(u.lits)
    OBVIOUS
  <2>1. PICK m \in 0..Len(trail.lits) : CutAt(trail, u, n, m)
    BY <1>3, <1>5, CancelContinues
  <2>2. /\ Len(u.lits) = m /\ u.qhead <= m /\ (u.qhead = trail.qhead \/ u.qhead = m)
    BY <2>1 DEF CutAt, Continues
  <2>3. trail.qhead = Len(trail.lits) /\ Len(trail.lits) \in Nat
    BY <1>3, TrailParts DEF Quiet, WellFormed
  <2> QED
    BY <2>1, <2>2, <2>3
<1>10. LevelOf(u) \in Nat /\ LevelOf(u) <= n
  BY <1>3, <1>6
<1> QED
  BY <1>1, <1>4, <1>5, <1>7, <1>8, <1>9, <1>10 DEF Core, Quiet

LEMMA DecideKeeps ==
    ASSUME SearchInv, Quiet, UNCHANGED <<dbVars, visit, conflict, clientVars>>,
           NEW l \in Lits, IsUndef(trail, l), trail' = Enqueued(Opened(trail), l, Decision)
    PROVE  Core' /\ \A k \in Nat : StartsDecide(trail, k) => StartsDecide(trail', k)
<1>1. /\ formula' \subseteq InputClauses /\ dead' \in BOOLEAN /\ visit' = visit
      /\ conflict' = conflict /\ conflict' = <<>> /\ UNCHANGED dbVars
  BY SearchFacts DEF clientVars, Quiet
<1>2. PropInv /\ WellFormed(trail) /\ Shaped(trail)
  BY SearchFacts
<1>3. PropInv'
  BY <1>1, <1>2, DecideStep
<1>4. PICK u : u = trail' /\ u = Enqueued(Opened(trail), l, Decision)
  OBVIOUS
<1>5. trail.qhead = Len(trail.lits)
  BY DEF Quiet
<1>6. Shaped(u) /\ \A k \in Nat : StartsDecide(trail, k) => StartsDecide(u, k)
  BY <1>2, <1>4, <1>5, DecideShape
<1>7. ConflictRight'
  BY <1>1, NoConflict
<1> QED
  BY <1>3, <1>4, <1>6, <1>7 DEF Core

LEMMA OpenKeeps ==
    ASSUME SearchInv, Quiet, UNCHANGED <<dbVars, visit, conflict, clientVars>>,
           trail' = Opened(trail), NEW n \in Nat, StartsDecide(trail, n), LevelOf(trail) < n
    PROVE  Core' /\ StartsDecide(trail', n) /\ Quiet'
<1>1. /\ formula' \subseteq InputClauses /\ dead' \in BOOLEAN /\ visit' = visit
      /\ conflict' = conflict /\ conflict' = <<>> /\ UNCHANGED dbVars
  BY SearchFacts DEF clientVars, Quiet
<1>2. PropInv /\ WellFormed(trail) /\ Shaped(trail)
  BY SearchFacts
<1>3. PropInv'
  BY <1>1, <1>2, OpenStep
<1>4. PICK u : u = trail' /\ u = Opened(trail)
  OBVIOUS
<1>5. Shaped(u) /\ StartsDecide(u, n)
  BY <1>2, <1>4, OpenShape
<1>6. u.lits = trail.lits /\ u.qhead = trail.qhead
  BY <1>2, <1>4, TrailParts DEF WellFormed, Opened, TrailType
<1>7. ConflictRight'
  BY <1>1, NoConflict
<1> QED
  BY <1>1, <1>3, <1>4, <1>5, <1>6, <1>7 DEF Core, Quiet

(***************************************************************************)
(* The client's calls.                                                      *)
(***************************************************************************)
LEMMA Shallow ==
    ASSUME NEW t, LevelOf(t) \in Nat, NEW n \in Nat, LevelOf(t) <= n
    PROVE  StartsDecide(t, n)
<1>1. (n + 1)..LevelOf(t) = {}
  OBVIOUS
<1> QED
  BY <1>1 DEF StartsDecide

LEMMA MinOfTwo ==
    ASSUME NEW a \in Nat, NEW b \in Nat, NEW m, m = Min({a, b})
    PROVE  m \in Nat /\ m <= a /\ m <= b
<1>1. PICK S : S = {a, b}
  OBVIOUS
<1>2. S \subseteq Nat /\ S # {} /\ m = Min(S)
  BY <1>1
<1>3. m \in S /\ \A x \in S : m <= x
  BY <1>2, MinFacts
<1> QED
  BY <1>1, <1>3

LEMMA SharedFacts ==
    ASSUME NEW s \in Seq(Lits), NEW t \in Seq(Lits), NEW n, n = SharedLen(s, t)
    PROVE  n \in Nat /\ n <= Len(s) /\ n <= Len(t)
<1>1. Len(s) \in Nat /\ Len(t) \in Nat
  BY LenProperties
<1>2. PICK m : m = Min({Len(s), Len(t)})
  OBVIOUS
<1>3. m \in Nat /\ m <= Len(s) /\ m <= Len(t)
  BY <1>1, <1>2, MinOfTwo
<1>4. PICK S : S = {i \in 0..m : \A k \in 1..i : s[k] = t[k]}
  OBVIOUS
<1>5. n = Max(S)
  BY <1>2, <1>4 DEF SharedLen
<1>6. 0 \in S
  BY <1>3, <1>4
<1>7. S \subseteq Nat /\ S # {} /\ \A x \in S : x <= m
  <2>1. S \subseteq 0..m
    BY <1>4
  <2> QED
    BY <2>1, <1>3, <1>6
<1>8. n \in S
  BY <1>3, <1>5, <1>7, MaxFacts
<1> QED
  BY <1>1, <1>3, <1>7, <1>8

\* What a call keeps of the trail does not reach above the shared assumptions,
\* unless the list is the same.
LEMMA KeptFacts ==
    ASSUME SearchInv, NEW asked \in AssumptionLists
    PROVE  /\ asked \in Seq(Lits) /\ Len(asked) \in Nat
           /\ KeptLevel(asked) \in Nat
           /\ (trail_reusable /\ asked = assumptions) \/ KeptLevel(asked) <= Len(asked)
           /\ \A n : n = Min({SharedLen(asked, assumptions), LevelOf(trail)})
                  => n \in Nat /\ n <= Len(assumptions)
<1>1. asked \in Seq(Lits) /\ Len(asked) \in Nat
  BY SolverAssumption, LenProperties
<1>2. assumptions \in Seq(Lits) /\ Len(assumptions) \in Nat /\ LevelOf(trail) \in Nat
  BY SearchFacts
<1>3. PICK s : s = SharedLen(asked, assumptions)
  OBVIOUS
<1>4. s \in Nat /\ s <= Len(asked) /\ s <= Len(assumptions)
  BY <1>1, <1>2, <1>3, SharedFacts
<1>5. PICK m : m = Min({s, LevelOf(trail)})
  OBVIOUS
<1>6. m \in Nat /\ m <= s
  BY <1>2, <1>4, <1>5, MinOfTwo
<1>7. KeptLevel(asked) = IF ~trail_reusable THEN 0 ELSE IF asked = assumptions THEN LevelOf(trail) ELSE m
  BY <1>3, <1>5 DEF KeptLevel
<1>8. /\ KeptLevel(asked) \in Nat
      /\ (trail_reusable /\ asked = assumptions) \/ KeptLevel(asked) <= Len(asked)
  <2>1. PICK n \in Nat : n = Len(asked)
    BY <1>1
  <2>2. m <= n /\ 0 <= n
    <3>1. m \in Nat
      BY <1>6
    <3>2. s \in Nat
      BY <1>4
    <3>3. s <= n
      BY <2>1, <1>4
    <3>4. m <= s
      BY <1>6
    <3>5. m <= n
      BY <3>1, <3>2, <3>3, <3>4
    <3> QED
      BY <3>5
  <2>3. PICK k : k = KeptLevel(asked)
    OBVIOUS
  <2>4. k = 0 \/ k = m \/ (trail_reusable /\ asked = assumptions /\ k = LevelOf(trail))
    BY <2>3, <1>7
  <2>5. k \in Nat
    <3>1. m \in Nat
      BY <1>6
    <3>2. LevelOf(trail) \in Nat
      BY <1>2
    <3>3. CASE k = 0
      BY <3>3
    <3>4. CASE k = m
      BY <3>1, <3>4
    <3>5. CASE k = LevelOf(trail)
      BY <3>2, <3>5
    <3> QED
      BY <2>4, <3>3, <3>4, <3>5
  <2>6. (trail_reusable /\ asked = assumptions) \/ k <= n
    BY <2>2, <2>4
  <2> QED
    BY <2>1, <2>3, <2>5, <2>6
<1>9. \A n : n = Min({SharedLen(asked, assumptions), LevelOf(trail)})
           => n \in Nat /\ n <= Len(assumptions)
  <2>1. m <= Len(assumptions)
    BY <1>2, <1>4, <1>6
  <2> QED
    BY <2>1, <1>3, <1>5, <1>6
<1> QED
  BY <1>1, <1>8, <1>9

LEMMA AddClauseSearch ==
    ASSUME SearchInv, NEW c \in InputClauses, AddClause(c)
    PROVE  SearchInv'
<1>1. /\ pc = "idle" /\ pc' = "idle" /\ add_clause(c)
      /\ visit' = visit /\ conflict' = conflict
  BY DEF AddClause, MayCall, add_clause
<1>2. visit = NoVisit /\ conflict = <<>>
  BY <1>1 DEF SearchInv, Rested
<1>3. PropInv /\ ~Busy /\ Shaped(trail) /\ Len(assumptions) \in Nat
  BY <1>2, SearchFacts DEF Busy
<1>4. PropInv' /\ ShapeKept(trail, trail')
  BY <1>1, <1>2, <1>3, AddClauseKeeps, AddClauseShape
<1>5. PICK u : u = trail' /\ ShapeKept(trail, u)
  BY <1>4
<1>6. Shaped(u) /\ (StartsDecide(trail, Len(assumptions)) => StartsDecide(u, Len(assumptions)))
  BY <1>3, <1>5 DEF ShapeKept
<1>7. Core'
  BY <1>1, <1>2, <1>4, <1>5, <1>6, NoConflict DEF Core
<1>8. CallsTyped' /\ Rested'
  BY <1>1, <1>2, EmptySeq DEF AddClause, SearchInv, CallsTyped, Rested
<1>9. AnalyzeTypeOK' /\ Analyzed'
  BY <1>1, Unanalyzed DEF AddClause
<1>10. Levelled'
  BY <1>1, <1>5, <1>6 DEF AddClause, SearchInv, Levelled
<1> QED
  BY <1>7, <1>8, <1>9, <1>10 DEF SearchInv

LEMMA AskDeadSearch ==
    ASSUME SearchInv, NEW asked \in AssumptionLists, AskDead(asked)
    PROVE  SearchInv'
<1>1. /\ pc = "idle" /\ pc' = "idle" /\ query' = asked /\ forced' = {} /\ calls' = calls + 1
      /\ calls < MaxCalls /\ answer' \in {"unsat", "refuted"}
      /\ UNCHANGED <<propVars, clientVars, analyzeVars, assumptions, trail_reusable,
                     conflict_core, base, at, armed, refuted>>
  BY DEF AskDead, MayAsk, MayCall, Ask, Return
<1>2. Core' /\ trail' = trail /\ visit' = visit /\ conflict' = conflict
  BY <1>1, CoreStands
<1>3. asked \in Seq(Lits)
  BY KeptFacts
<1>4. CallsTyped'
  <2>1. calls' \in 0..MaxCalls
    BY <1>1, SolverAssumption DEF SearchInv, CallsTyped
  <2> QED
    BY <2>1, <1>1, <1>3 DEF SearchInv, CallsTyped
<1>5. AnalyzeTypeOK' /\ Analyzed'
  BY <1>1, Unanalyzed
<1>6. Rested' /\ Levelled'
  BY <1>1, <1>2 DEF SearchInv, Rested, Levelled
<1> QED
  BY <1>2, <1>4, <1>5, <1>6 DEF SearchInv

LEMMA SolveSearch ==
    ASSUME SearchInv, NEW asked \in AssumptionLists, Solve(asked)
    PROVE  SearchInv'
<1>1. /\ pc = "idle" /\ pc' = "entry" /\ query' = asked /\ forced' = {} /\ calls' = calls + 1
      /\ calls < MaxCalls /\ trail' = Cancelled(trail, KeptLevel(asked)) /\ assumptions' = asked
      /\ trail_reusable' = FALSE /\ conflict_core' = {} /\ answer' = "none" /\ armed' = FALSE
      /\ UNCHANGED <<dbVars, visit, conflict, clientVars, analyzeVars, base, at, refuted>>
  BY DEF Solve, MayAsk, MayCall, Ask
<1>2. visit = NoVisit /\ conflict = <<>>
  BY <1>1 DEF SearchInv, Rested
<1>3. PICK n : n = KeptLevel(asked)
  OBVIOUS
<1>4. /\ asked \in Seq(Lits) /\ Len(asked) \in Nat /\ n \in Nat
      /\ (trail_reusable /\ asked = assumptions) \/ n <= Len(asked)
  BY <1>3, KeptFacts
<1>5. /\ Core' /\ LevelOf(trail') \in Nat /\ LevelOf(trail') <= n
      /\ \A k \in Nat : StartsDecide(trail, k) => StartsDecide(trail', k)
  BY <1>1, <1>2, <1>3, <1>4, CutKeeps
<1>6. CallsTyped'
  <2>1. calls' \in 0..MaxCalls
    BY <1>1, SolverAssumption DEF SearchInv, CallsTyped
  <2> QED
    BY <2>1, <1>1, <1>4 DEF SearchInv, CallsTyped
<1>7. AnalyzeTypeOK' /\ Analyzed'
  BY <1>1, Unanalyzed
<1>8. StartsDecide(trail', Len(asked))
  <2>1. CASE n <= Len(asked)
    <3>1. PICK u : u = trail' /\ LevelOf(u) \in Nat /\ LevelOf(u) <= n
      BY <1>5
    <3>2. LevelOf(u) <= Len(asked)
      <4>1. PICK j : j = LevelOf(u)
        OBVIOUS
      <4>2. PICK k \in Nat : k = Len(asked) /\ n <= k
        BY <1>4, <2>1
      <4>3. j \in Nat /\ j <= n
        BY <4>1, <3>1
      <4>4. n \in Nat
        BY <1>4
      <4>5. n <= k
        BY <4>2
      <4>6. j <= k
        BY <4>3, <4>4, <4>5
      <4> QED
        BY <4>1, <4>2, <4>6
    <3>3. StartsDecide(u, Len(asked))
      BY <1>4, <3>1, <3>2, Shallow
    <3> QED
      BY <3>1, <3>3
  <2>2. CASE trail_reusable /\ asked = assumptions
    <3>1. StartsDecide(trail, Len(asked))
      BY <1>1, <2>2 DEF SearchInv, Levelled
    <3> QED
      BY <1>4, <1>5, <3>1
  <2> QED
    BY <1>4, <2>1, <2>2
<1>9. Rested' /\ Levelled'
  BY <1>1, <1>8 DEF Rested, Levelled
<1> QED
  BY <1>5, <1>6, <1>7, <1>9 DEF SearchInv

LEMMA ProbeSearch ==
    ASSUME SearchInv, NEW asked \in AssumptionLists, Probe(asked)
    PROVE  SearchInv'
<1>1. PICK n : n = IF trail_reusable THEN Min({SharedLen(asked, assumptions), LevelOf(trail)}) ELSE 0
  OBVIOUS
<1>2. /\ pc = "idle" /\ pc' = "probe" /\ query' = asked /\ forced' = {} /\ calls' = calls + 1
      /\ calls < MaxCalls /\ trail' = Cancelled(trail, n) /\ base' = n /\ at' = n + 1
      /\ answer' = "none"
      /\ UNCHANGED <<dbVars, visit, conflict, clientVars, analyzeVars, assumptions,
                     trail_reusable, conflict_core, armed, refuted>>
  BY <1>1 DEF Probe, MayAsk, MayCall, Ask
<1>3. visit = NoVisit /\ conflict = <<>>
  BY <1>2 DEF SearchInv, Rested
<1>4. asked \in Seq(Lits) /\ n \in Nat /\ (trail_reusable => n <= Len(assumptions))
  BY <1>1, KeptFacts
<1>5. Core'
  BY <1>2, <1>3, <1>4, CutKeeps
<1>6. CallsTyped'
  <2>1. calls' \in 0..MaxCalls
    BY <1>2, SolverAssumption DEF SearchInv, CallsTyped
  <2>2. n + 1 \in Nat
    BY <1>4
  <2> QED
    BY <2>1, <2>2, <1>2, <1>4 DEF SearchInv, CallsTyped
<1>7. AnalyzeTypeOK' /\ Analyzed'
  BY <1>2, Unanalyzed
<1>8. Rested' /\ Levelled'
  BY <1>2, <1>4 DEF Rested, Levelled
<1> QED
  BY <1>5, <1>6, <1>7, <1>8 DEF SearchInv

(***************************************************************************)
(* The search loop.                                                         *)
(***************************************************************************)
LEMMA PropagateSearch ==
    ASSUME SearchInv, Propagate
    PROVE  SearchInv'
<1>1. /\ pc \in {"entry", "rebuild", "search", "probe"} /\ pc' = pc /\ propagate
      /\ UNCHANGED <<analyzeVars, callVars>>
  BY DEF Propagate
<1>2. PropInv /\ ConflictRight /\ Shaped(trail) /\ Len(assumptions) \in Nat
  BY SearchFacts
<1>3. PropInv' /\ ConflictRight' /\ ShapeKept(trail, trail')
  BY <1>1, <1>2, PropagateKeeps, PropagateShape
<1>4. PICK u : u = trail' /\ ShapeKept(trail, u)
  BY <1>3
<1>5. Shaped(u) /\ (StartsDecide(trail, Len(assumptions)) => StartsDecide(u, Len(assumptions)))
  BY <1>2, <1>4 DEF ShapeKept
<1>6. Core'
  BY <1>3, <1>4, <1>5 DEF Core
<1>7. CallsTyped' /\ Rested'
  BY <1>1 DEF SearchInv, CallsTyped, Rested, callVars
<1>8. AnalyzeTypeOK' /\ Analyzed'
  BY <1>1, Unanalyzed
<1>9. Levelled'
  BY <1>1, <1>4, <1>5 DEF SearchInv, Levelled, callVars
<1> QED
  BY <1>6, <1>7, <1>8, <1>9 DEF SearchInv

LEMMA RebuildSearch ==
    ASSUME SearchInv, Rebuild
    PROVE  SearchInv'
<1>1. /\ pc = "entry" /\ pc' = "rebuild" /\ conflict # <<>> /\ conflict' = <<>>
      /\ trail' = Cancelled(trail, 0) /\ 0 < LevelOf(trail)
      /\ UNCHANGED <<dbVars, visit, clientVars, analyzeVars, callVars>>
  BY SearchFacts DEF Rebuild
<1>2. visit = NoVisit /\ Len(assumptions) \in Nat
  BY <1>1, SearchFacts
<1>3. Core' /\ \A k \in Nat : StartsDecide(trail, k) => StartsDecide(trail', k)
  BY <1>1, <1>2, CutKeeps
<1>4. CallsTyped' /\ Rested'
  BY <1>1 DEF SearchInv, CallsTyped, Rested, callVars
<1>5. AnalyzeTypeOK' /\ Analyzed'
  BY <1>1, Unanalyzed
<1>6. Levelled'
  BY <1>1, <1>2, <1>3 DEF SearchInv, Levelled, callVars
<1> QED
  BY <1>3, <1>4, <1>5, <1>6 DEF SearchInv

LEMMA EnterSearch ==
    ASSUME SearchInv, EnterLoop \/ Continue
    PROVE  SearchInv'
<1>1. /\ pc \in {"entry", "rebuild", "learned"} /\ pc' = "search"
      /\ UNCHANGED <<propVars, clientVars, analyzeVars, callVars>>
  BY DEF EnterLoop, Continue
<1>2. Core' /\ trail' = trail
  BY <1>1, CoreStands
<1>3. CallsTyped' /\ Rested'
  BY <1>1 DEF SearchInv, CallsTyped, Rested, callVars
<1>4. AnalyzeTypeOK' /\ Analyzed'
  BY <1>1, Unanalyzed
<1>5. Levelled'
  BY <1>1, <1>2 DEF SearchInv, Levelled, callVars
<1> QED
  BY <1>2, <1>3, <1>4, <1>5 DEF SearchInv

LEMMA ConflictSearch ==
    ASSUME SearchInv, Conflict
    PROVE  SearchInv'
<1>1. /\ pc = "search" /\ pc' = "analyze" /\ conflict # <<>> /\ LevelOf(trail) > 0
      /\ BeginAnalyze /\ armed' = TRUE
      /\ UNCHANGED <<propVars, clientVars, assumptions, query, trail_reusable, conflict_core,
                     answer, forced, base, at, refuted, calls>>
  BY DEF Conflict
<1>2. Core' /\ trail' = trail /\ conflict' = conflict
  BY <1>1, CoreStands
<1>3. /\ PropInv /\ ConflictRight
      /\ AnalyzeTypeOK /\ seen = {}
  BY <1>1 DEF SearchInv, Core, Analyzed
<1>4. AnalyzeSteps'
  BY <1>1, <1>2, <1>3, BeginKeeps
<1>5. LevelOf(trail)' > 0
  BY <1>1, <1>2
<1>6. AnalyzeTypeOK' /\ Analyzed'
  BY <1>1, <1>2, <1>4, <1>5 DEF AnalyzeSteps, Analyzed
<1>7. CallsTyped' /\ Rested' /\ Levelled'
  BY <1>1, <1>2 DEF SearchInv, CallsTyped, Rested, Levelled
<1> QED
  BY <1>2, <1>6, <1>7 DEF SearchInv

LEMMA AnalyseSearch ==
    ASSUME SearchInv, Analyse
    PROVE  SearchInv'
<1>1. /\ pc = "analyze" /\ pc' = pc /\ analyze
      /\ UNCHANGED <<propVars, clientVars, callVars>>
  BY DEF Analyse
<1>2. Core' /\ trail' = trail /\ conflict' = conflict
  BY <1>1, CoreStands
<1>3. PropInv /\ Shaped(trail) /\ LevelOf(trail) > 0 /\ AnalyzeSteps /\ conflict # <<>>
  BY <1>1 DEF SearchInv, Core, Analyzed
<1>4. AnalyzeSteps'
  BY <1>1, <1>2, <1>3, AnalyzeKeeps
<1>5. LevelOf(trail)' > 0
  BY <1>2, <1>3
<1>6. AnalyzeTypeOK' /\ Analyzed'
  BY <1>1, <1>2, <1>3, <1>4, <1>5 DEF AnalyzeSteps, Analyzed
<1>7. CallsTyped' /\ Rested' /\ Levelled'
  BY <1>1, <1>2 DEF SearchInv, CallsTyped, Rested, Levelled, callVars
<1> QED
  BY <1>2, <1>6, <1>7 DEF SearchInv

LEMMA LearnSearch ==
    ASSUME SearchInv, Learn
    PROVE  SearchInv'
<1>1. PICK s, lbd : /\ s = LearnedClause /\ lbd = Lbd(s)
                    /\ pc = "analyze" /\ pc' = "learned" /\ step = "learn" /\ Learnt(s, lbd)
                    /\ conflict' = <<>> /\ step' = "none" /\ work' = NoWork
                    /\ UNCHANGED <<visit, clientVars, seen, toclear, callVars>>
  BY DEF Learn
<1>2. /\ PropInv /\ Shaped(trail) /\ LevelOf(trail) > 0 /\ AnalyzeSteps /\ conflict # <<>>
      /\ visit = NoVisit /\ formula' \subseteq InputClauses /\ dead' \in BOOLEAN
      /\ Len(assumptions) \in Nat
  BY <1>1, SearchFacts DEF SearchInv, Analyzed, clientVars
<1>3. Asserting(trail, s) /\ lbd \in Nat
  BY <1>1, <1>2, LearnedFacts
<1>4. /\ s \in Seq(Lits) /\ IsInjective(s) /\ Len(s) >= 1
      /\ \A i \in 1..Len(s) : IsFalse(trail, s[i])
      /\ \A i \in 1..Len(s) : LitLevel(trail, s[i]) = LevelOf(trail) <=> i = 1
      /\ \A i \in 2..Len(s) : LitLevel(trail, s[i]) <= LitLevel(trail, s[2])
  BY <1>3 DEF Asserting
<1>5. PropInv' /\ ShapeKept(trail, trail')
  <2>1. PropInv'
    BY <1>1, <1>2, <1>3, <1>4, LearnStep
  <2>2. ShapeKept(trail, trail')
    BY <1>1, <1>2, <1>3, <1>4, LearntShape
  <2> QED
    BY <2>1, <2>2
<1>6. PICK u : u = trail' /\ ShapeKept(trail, u)
  BY <1>5
<1>7. Shaped(u) /\ (StartsDecide(trail, Len(assumptions)) => StartsDecide(u, Len(assumptions)))
  BY <1>2, <1>6 DEF ShapeKept
<1>8. Core'
  BY <1>1, <1>5, <1>6, <1>7, NoConflict DEF Core
<1>9. CallsTyped' /\ Rested'
  BY <1>1, <1>2 DEF SearchInv, CallsTyped, Rested, callVars
<1>10. AnalyzeTypeOK' /\ Analyzed'
  <2>1. NoWork \in WorkType
    BY EmptySeq DEF NoWork, WorkType
  <2>2. seen' = {} /\ toclear' = {}
    BY <1>1, <1>2 DEF AnalyzeSteps, AnalyzeInv
  <2> QED
    BY <1>1, <2>1, <2>2 DEF AnalyzeTypeOK, Analyzed
<1>11. Levelled'
  BY <1>1, <1>6, <1>7 DEF SearchInv, Levelled, callVars
<1> QED
  BY <1>8, <1>9, <1>10, <1>11 DEF SearchInv

LEMMA StopSearch ==
    ASSUME SearchInv, Stop
    PROVE  SearchInv'
<1>1. /\ pc = "learned" /\ pc' = "idle" /\ trail' = Cancelled(trail, 0) /\ answer' = "stopped"
      /\ UNCHANGED <<dbVars, visit, conflict, clientVars, analyzeVars, assumptions, query,
                     trail_reusable, conflict_core, forced, base, at, armed, refuted, calls>>
  BY DEF Stop, Return
<1>2. visit = NoVisit /\ conflict = <<>> /\ Len(assumptions) \in Nat
  BY <1>1, SearchFacts DEF SearchInv, Rested
<1>3. Core' /\ \A k \in Nat : StartsDecide(trail, k) => StartsDecide(trail', k)
  BY <1>1, <1>2, CutKeeps
<1>4. CallsTyped' /\ Rested'
  BY <1>1, <1>2 DEF SearchInv, CallsTyped, Rested
<1>5. AnalyzeTypeOK' /\ Analyzed'
  BY <1>1, Unanalyzed
<1>6. Levelled'
  BY <1>1, <1>2, <1>3 DEF SearchInv, Levelled
<1> QED
  BY <1>3, <1>4, <1>5, <1>6 DEF SearchInv

LEMMA ReduceDbSearch ==
    ASSUME SearchInv, ReduceDb
    PROVE  SearchInv'
<1>1. /\ pc = "search" /\ Quiet
      /\ UNCHANGED <<trail, visit, conflict, clientVars, analyzeVars, pc, callVars>>
  BY DEF ReduceDb, Ready
<1>2. PropInv /\ Shaped(trail)
  BY SearchFacts
<1>3. PropInv'
  BY <1>1, <1>2, ReduceDbKeeps
<1>4. Core'
  <2>1. Shaped(trail)'
    BY <1>1, <1>2
  <2>2. conflict' = <<>>
    BY <1>1 DEF Quiet
  <2> QED
    BY <1>3, <2>1, <2>2, NoConflict DEF Core
<1>5. CallsTyped' /\ Rested' /\ Levelled'
  BY <1>1 DEF SearchInv, CallsTyped, Rested, Levelled, callVars
<1>6. AnalyzeTypeOK' /\ Analyzed'
  BY <1>1, Unanalyzed
<1> QED
  BY <1>4, <1>5, <1>6 DEF SearchInv

LEMMA RestartSearch ==
    ASSUME SearchInv, Restart
    PROVE  SearchInv'
<1>1. PICK n : /\ n \in {0} \cup Min({Len(assumptions), LevelOf(trail)})..LevelOf(trail)
               /\ trail' = Cancelled(trail, n)
  BY DEF Restart
<1>2. /\ pc = "search" /\ pc' = "boundary" /\ Quiet /\ armed' = FALSE
      /\ UNCHANGED <<dbVars, visit, conflict, clientVars, analyzeVars, assumptions, query,
                     trail_reusable, conflict_core, answer, forced, base, at, refuted, calls>>
  BY DEF Restart, AfterRestart, Ready
<1>3. n \in Nat
  <2>1. PICK m : m = Min({Len(assumptions), LevelOf(trail)})
    OBVIOUS
  <2>2. m \in Nat /\ LevelOf(trail) \in Nat
    BY <2>1, SearchFacts, MinOfTwo
  <2>3. n \in {0} \cup m..LevelOf(trail)
    BY <1>1, <2>1
  <2> QED
    BY <2>2, <2>3
<1>4. visit = NoVisit /\ conflict = <<>> /\ Len(assumptions) \in Nat
  BY <1>2, SearchFacts DEF Quiet
<1>5. Core' /\ Quiet' /\ \A k \in Nat : StartsDecide(trail, k) => StartsDecide(trail', k)
  BY <1>1, <1>2, <1>3, <1>4, CutKeeps
<1>6. CallsTyped' /\ Rested'
  BY <1>2, <1>5 DEF SearchInv, CallsTyped, Rested
<1>7. AnalyzeTypeOK' /\ Analyzed'
  BY <1>2, Unanalyzed
<1>8. Levelled'
  BY <1>2, <1>4, <1>5 DEF SearchInv, Levelled
<1> QED
  BY <1>5, <1>6, <1>7, <1>8 DEF SearchInv

(***************************************************************************)
(* Decisions, and the end of a call.                                        *)
(***************************************************************************)
LEMMA NextAssumptionFacts ==
    ASSUME SearchInv, Installing
    PROVE  /\ NextAssumption \in Lits /\ Quiet /\ pc \in {"search", "boundary"}
           /\ LevelOf(trail) < Len(assumptions) /\ LevelOf(trail) \in Nat
<1>1. PICK n : n = LevelOf(trail)
  OBVIOUS
<1>2. n \in Nat /\ assumptions \in Seq(Lits) /\ Len(assumptions) \in Nat
  BY <1>1, SearchFacts
<1>3. pc \in {"search", "boundary"} /\ n < Len(assumptions) /\ Quiet
  BY <1>1 DEF Installing, Deciding, Ready, SearchInv, Rested
<1>4. n + 1 \in 1..Len(assumptions)
  BY <1>2, <1>3
<1>5. assumptions[n + 1] \in Lits
  BY <1>2, <1>4, ElementOfSeq
<1> QED
  BY <1>1, <1>2, <1>3, <1>5 DEF NextAssumption

LEMMA AlreadyTrueSearch ==
    ASSUME SearchInv, AlreadyTrue
    PROVE  SearchInv'
<1>1. /\ Installing /\ trail' = Opened(trail)
      /\ UNCHANGED <<dbVars, visit, conflict, clientVars, analyzeVars, pc, callVars>>
  BY DEF AlreadyTrue
<1>2. /\ Quiet /\ pc \in {"search", "boundary"}
      /\ LevelOf(trail) < Len(assumptions) /\ Len(assumptions) \in Nat
  BY <1>1, NextAssumptionFacts, SearchFacts
<1>3. StartsDecide(trail, Len(assumptions))
  BY <1>2 DEF SearchInv, Levelled
<1>4. Core' /\ StartsDecide(trail', Len(assumptions)) /\ Quiet'
  BY <1>1, <1>2, <1>3, OpenKeeps
<1>5. CallsTyped' /\ Rested'
  BY <1>1, <1>2, <1>4 DEF SearchInv, CallsTyped, Rested, callVars
<1>6. AnalyzeTypeOK' /\ Analyzed'
  BY <1>1, <1>2, Unanalyzed
<1>7. Levelled'
  BY <1>1, <1>2, <1>4 DEF Levelled, callVars
<1> QED
  BY <1>4, <1>5, <1>6, <1>7 DEF SearchInv

LEMMA ClashSearch ==
    ASSUME SearchInv, Clash
    PROVE  SearchInv'
<1>1. /\ Installing /\ pc' = "idle" /\ answer' = "unsat" /\ trail_reusable' = TRUE
      /\ conflict_core' = {NextAssumption}
      /\ UNCHANGED <<propVars, clientVars, analyzeVars, assumptions, query, forced, base, at,
                     armed, refuted, calls>>
  BY DEF Clash, Clashing, Return
<1>2. NextAssumption \in Lits /\ Quiet /\ pc \in {"search", "boundary"}
  BY <1>1, NextAssumptionFacts
<1>3. Core' /\ trail' = trail /\ visit' = visit /\ conflict' = conflict
  BY <1>1, CoreStands
<1>4. CallsTyped' /\ Rested' /\ Levelled'
  BY <1>1, <1>2, <1>3 DEF SearchInv, CallsTyped, Rested, Levelled, Quiet
<1>5. AnalyzeTypeOK' /\ Analyzed'
  BY <1>1, <1>2, Unanalyzed
<1> QED
  BY <1>3, <1>4, <1>5 DEF SearchInv

LEMMA TraceClashSearch ==
    ASSUME SearchInv, TraceClash
    PROVE  SearchInv'
<1>1. /\ Installing /\ pc' = "blame" /\ conflict_core' = {NextAssumption}
      /\ LevelOf(trail) > 0 /\ BeginBlame(-NextAssumption)
      /\ UNCHANGED <<propVars, clientVars, assumptions, query, trail_reusable, answer, forced,
                     base, at, armed, refuted, calls>>
  BY DEF TraceClash, Clashing
<1>2. NextAssumption \in Lits /\ Quiet /\ pc \in {"search", "boundary"}
  BY <1>1, NextAssumptionFacts
<1>3. -NextAssumption \in Lits
  BY <1>2, LitFacts
<1>4. Core' /\ Quiet' /\ trail' = trail
  BY <1>1, <1>2, CoreStands
<1>5. WellFormed(trail) /\ AnalyzeTypeOK /\ seen = {} /\ toclear = {}
  BY <1>2, SearchFacts DEF SearchInv, Analyzed
<1>6. AnalyzeTypeOK' /\ Tracing(trail, seen, work)'
  BY <1>1, <1>3, <1>4, <1>5, BeginTraces
<1>7. Analyzed'
  BY <1>1, <1>5, <1>6 DEF Analyzed, BeginBlame
<1>8. CallsTyped' /\ Rested' /\ Levelled'
  BY <1>1, <1>2, <1>4 DEF SearchInv, CallsTyped, Rested, Levelled
<1> QED
  BY <1>4, <1>6, <1>7, <1>8 DEF SearchInv

LEMMA TraceSearch ==
    ASSUME SearchInv, Trace
    PROVE  SearchInv'
<1>1. /\ pc = "blame" /\ pc' = pc /\ Blame /\ conflict_core' = conflict_core \cup Blamed
      /\ UNCHANGED <<propVars, clientVars, assumptions, query, trail_reusable, answer, forced,
                     base, at, armed, refuted, calls>>
  BY DEF Trace
<1>2. Quiet /\ step = "blame" /\ toclear = {} /\ Tracing(trail, seen, work)
  BY <1>1 DEF SearchInv, Rested, Analyzed
<1>3. PropInv /\ WellFormed(trail) /\ AnalyzeTypeOK
  BY SearchFacts DEF SearchInv
<1>4. Core' /\ Quiet' /\ trail' = trail
  BY <1>1, <1>2, CoreStands
<1>5. AnalyzeTypeOK' /\ Tracing(trail, seen, work)'
  BY <1>1, <1>2, <1>3, <1>4, BlameTraces
<1>6. Analyzed'
  BY <1>1, <1>2, <1>5 DEF Analyzed, Blame
<1>7. Blamed \subseteq Lits
  <2>1. PICK i : i = work.idx
    OBVIOUS
  <2>2. PICK n : n = Len(trail.lits)
    OBVIOUS
  <2>3. PICK m : m = trail.lim[1]
    OBVIOUS
  <2>4. m \in Nat /\ n \in Nat /\ m <= n
    BY <1>2, <1>3, <2>2, <2>3, FirstLimit DEF Tracing
  <2>5. i \in m..n /\ i > m
    BY <1>1, <1>2, <2>1, <2>2, <2>3 DEF Blame, Blaming, Tracing
  <2>6. i \in 1..n
    BY <2>4, <2>5
  <2>7. trail.lits[i] \in Lits
    BY <1>3, <2>2, <2>6, TrailParts DEF WellFormed
  <2> QED
    BY <2>1, <2>7 DEF Blamed
<1>8. CallsTyped' /\ Rested' /\ Levelled'
  BY <1>1, <1>4, <1>7 DEF SearchInv, CallsTyped, Rested, Levelled
<1> QED
  BY <1>4, <1>5, <1>6, <1>8 DEF SearchInv

LEMMA EndTraceSearch ==
    ASSUME SearchInv, EndTrace
    PROVE  SearchInv'
<1>1. /\ pc = "blame" /\ pc' = "idle" /\ answer' = "unsat" /\ EndBlame /\ trail_reusable' = TRUE
      /\ UNCHANGED <<propVars, clientVars, assumptions, query, conflict_core, forced, base, at,
                     armed, refuted, calls>>
  BY DEF EndTrace, Return
<1>2. Quiet /\ toclear = {} /\ Tracing(trail, seen, work)
  BY <1>1 DEF SearchInv, Rested, Analyzed
<1>3. WellFormed(trail) /\ AnalyzeTypeOK
  BY SearchFacts DEF SearchInv
<1>4. Core' /\ trail' = trail /\ visit' = visit /\ conflict' = conflict
  BY <1>1, CoreStands
<1>5. AnalyzeTypeOK' /\ seen' = {}
  BY <1>1, <1>2, <1>3, EndTraces
<1>6. Analyzed'
  BY <1>1, <1>2, <1>5 DEF Analyzed, EndBlame
<1>7. CallsTyped' /\ Rested' /\ Levelled'
  BY <1>1, <1>2, <1>4 DEF SearchInv, CallsTyped, Rested, Levelled, Quiet
<1> QED
  BY <1>4, <1>5, <1>6, <1>7 DEF SearchInv

LEMMA DecideSearch ==
    ASSUME SearchInv, Deciding, NEW l \in Lits, IsUndef(trail, l), Decide(l)
    PROVE  SearchInv'
<1>1. /\ pc' = "search" /\ trail' = Enqueued(Opened(trail), l, Decision)
      /\ UNCHANGED <<dbVars, visit, conflict, clientVars, analyzeVars, callVars>>
  BY DEF Decide
<1>2. pc \in {"search", "boundary"} /\ Quiet /\ Len(assumptions) \in Nat
  BY SearchFacts DEF Deciding, Ready, SearchInv, Rested
<1>3. Core' /\ \A k \in Nat : StartsDecide(trail, k) => StartsDecide(trail', k)
  BY <1>1, <1>2, DecideKeeps
<1>4. CallsTyped' /\ Rested'
  BY <1>1 DEF SearchInv, CallsTyped, Rested, callVars
<1>5. AnalyzeTypeOK' /\ Analyzed'
  BY <1>1, <1>2, Unanalyzed
<1>6. Levelled'
  BY <1>1, <1>2, <1>3 DEF SearchInv, Levelled, callVars
<1> QED
  BY <1>3, <1>4, <1>5, <1>6 DEF SearchInv

LEMMA AssumeSearch ==
    ASSUME SearchInv, Assume
    PROVE  SearchInv'
<1>1. PICK l : l = NextAssumption
  OBVIOUS
<1>2. Installing /\ IsUndef(trail, l) /\ Decide(l)
  BY <1>1 DEF Assume
<1>3. l \in Lits /\ Deciding
  BY <1>1, <1>2, NextAssumptionFacts DEF Installing
<1> QED
  BY <1>2, <1>3, DecideSearch

LEMMA BranchSearch ==
    ASSUME SearchInv, NEW l \in DecisionLits, Branch(l)
    PROVE  SearchInv'
<1>1. l \in Lits
  BY PropagationAssumption
<1> QED
  BY <1>1, DecideSearch DEF Branch

LEMMA FoundModelSearch ==
    ASSUME SearchInv, FoundModel
    PROVE  SearchInv'
<1>1. /\ Deciding /\ pc' = "idle" /\ answer' = "sat" /\ trail_reusable' = TRUE
      /\ UNCHANGED <<propVars, clientVars, analyzeVars, assumptions, query, conflict_core, forced,
                     base, at, armed, refuted, calls>>
  BY DEF FoundModel, Return
<1>2. pc \in {"search", "boundary"} /\ Quiet
  BY <1>1 DEF Deciding, Ready, SearchInv, Rested
<1>3. Core' /\ trail' = trail /\ visit' = visit /\ conflict' = conflict
  BY <1>1, CoreStands
<1>4. CallsTyped' /\ Rested' /\ Levelled'
  BY <1>1, <1>2, <1>3 DEF SearchInv, CallsTyped, Rested, Levelled, Quiet
<1>5. AnalyzeTypeOK' /\ Analyzed'
  BY <1>1, <1>2, Unanalyzed
<1> QED
  BY <1>3, <1>4, <1>5 DEF SearchInv

(***************************************************************************)
(* The probe.                                                               *)
(***************************************************************************)
\* A probe returns to the levels it found.
LEMMA EndProbeSearch ==
    ASSUME SearchInv, pc = "probe", visit = NoVisit, conflict = <<>> \/ base < LevelOf(trail),
           NEW result \in {"refuted", "forced"}, EndProbe(base, result),
           conflict' = <<>>, forced' \subseteq Lits,
           UNCHANGED <<dbVars, visit, clientVars, analyzeVars, assumptions, query,
                       trail_reusable, conflict_core, armed, refuted, calls>>
    PROVE  SearchInv'
<1>1. /\ pc' = "idle" /\ answer' = result /\ base' = 0 /\ at' = 0
      /\ trail' = Cancelled(trail, base)
  BY DEF EndProbe, Return
<1>2. PICK n \in Nat : n = base
  BY SearchFacts
<1>3. Len(assumptions) \in Nat
  BY SearchFacts
<1>4. Core' /\ LevelOf(trail') \in Nat /\ LevelOf(trail') <= n
  BY <1>1, <1>2, CutKeeps
<1>5. CallsTyped' /\ Rested'
  BY <1>1 DEF SearchInv, CallsTyped, Rested
<1>6. AnalyzeTypeOK' /\ Analyzed'
  BY <1>1, Unanalyzed
<1>7. trail_reusable => StartsDecide(trail', Len(assumptions))
  <2> SUFFICES ASSUME trail_reusable
               PROVE  StartsDecide(trail', Len(assumptions))
    OBVIOUS
  <2>1. PICK k \in Nat : k = Len(assumptions)
    BY <1>3
  <2>2. n <= k
    BY <1>2, <2>1 DEF SearchInv, Levelled
  <2>3. PICK u : u = trail' /\ LevelOf(u) \in Nat /\ LevelOf(u) <= n
    BY <1>4
  <2>4. PICK j : j = LevelOf(u)
    OBVIOUS
  <2>5. j \in Nat /\ j <= n
    BY <2>3, <2>4
  <2>6. j <= k
    BY <2>2, <2>5
  <2>7. StartsDecide(u, k)
    BY <2>4, <2>5, <2>6, Shallow
  <2> QED
    BY <2>1, <2>3, <2>7
<1>8. Levelled'
  BY <1>1, <1>7 DEF Levelled
<1> QED
  BY <1>4, <1>5, <1>6, <1>8 DEF SearchInv

LEMMA ProbeReturnsSearch ==
    ASSUME SearchInv, ProbeConflict \/ ProbeFalse \/ ProbeRead
    PROVE  SearchInv'
<1>1. forced \subseteq Lits /\ WellFormed(trail)
  BY SearchFacts DEF SearchInv, CallsTyped
<1>2. base \in Nat /\ LevelOf(trail) \in Nat
  BY SearchFacts
<1>3. CASE ProbeConflict
  <2>1. /\ pc = "probe" /\ visit = NoVisit /\ base < LevelOf(trail) /\ conflict' = <<>>
        /\ EndProbe(base, "refuted") /\ forced' = forced
        /\ UNCHANGED <<dbVars, visit, clientVars, analyzeVars, assumptions, query,
                       trail_reusable, conflict_core, armed, refuted, calls>>
    BY <1>2, <1>3, SearchFacts DEF ProbeConflict
  <2> QED
    BY <1>1, <2>1, EndProbeSearch
<1>4. CASE ProbeFalse
  <2>1. /\ pc = "probe" /\ visit = NoVisit /\ conflict = <<>> /\ conflict' = <<>>
        /\ EndProbe(base, "refuted") /\ forced' = forced
        /\ UNCHANGED <<dbVars, visit, clientVars, analyzeVars, assumptions, query,
                       trail_reusable, conflict_core, armed, refuted, calls>>
    BY <1>4 DEF ProbeFalse, Probing, Quiet
  <2> QED
    BY <1>1, <2>1, EndProbeSearch
<1>5. CASE ProbeRead
  <2>1. /\ pc = "probe" /\ visit = NoVisit /\ conflict = <<>> /\ conflict' = <<>>
        /\ EndProbe(base, "forced") /\ forced' = ToSet(trail.lits)
        /\ UNCHANGED <<dbVars, visit, clientVars, analyzeVars, assumptions, query,
                       trail_reusable, conflict_core, armed, refuted, calls>>
    BY <1>5 DEF ProbeRead, Quiet
  <2>2. ToSet(trail.lits) \subseteq Lits
    <3>1. PICK s \in Seq(Lits) : s = trail.lits
      BY <1>1, TrailParts DEF WellFormed
    <3>2. ToSet(s) \subseteq Lits
      BY LenProperties, ElementOfSeq DEF ToSet
    <3> QED
      BY <3>1, <3>2
  <2> QED
    BY <2>1, <2>2, EndProbeSearch
<1> QED
  BY <1>3, <1>4, <1>5

LEMMA ProbeSkipSearch ==
    ASSUME SearchInv, ProbeSkip
    PROVE  SearchInv'
<1>1. /\ pc = "probe" /\ pc' = pc /\ at' = at + 1
      /\ UNCHANGED <<propVars, clientVars, analyzeVars, assumptions, query, trail_reusable,
                     conflict_core, answer, forced, base, armed, refuted, calls>>
  BY DEF ProbeSkip, Probing
<1>2. Core' /\ trail' = trail
  BY <1>1, CoreStands
<1>3. at \in Nat /\ at >= 1
  BY <1>1, SearchFacts DEF SearchInv, Levelled
<1>4. at + 1 \in Nat /\ at + 1 >= 1
  BY <1>3
<1>5. CallsTyped' /\ Rested' /\ Levelled'
  BY <1>1, <1>4 DEF SearchInv, CallsTyped, Rested, Levelled
<1>6. AnalyzeTypeOK' /\ Analyzed'
  BY <1>1, Unanalyzed
<1> QED
  BY <1>2, <1>5, <1>6 DEF SearchInv

LEMMA ProbeAssumeSearch ==
    ASSUME SearchInv, ProbeAssume
    PROVE  SearchInv'
<1>1. PICK l : /\ l = query[at] /\ pc = "probe" /\ pc' = pc /\ at' = at + 1 /\ Quiet
               /\ at <= Len(query) /\ IsUndef(trail, l)
               /\ trail' = Enqueued(Opened(trail), l, Decision)
               /\ UNCHANGED <<dbVars, visit, conflict, clientVars, analyzeVars, assumptions,
                              query, trail_reusable, conflict_core, answer, forced, base, armed,
                              refuted, calls>>
  BY DEF ProbeAssume, Probing
<1>2. /\ query \in Seq(Lits) /\ at \in Nat /\ at >= 1
  BY <1>1, SearchFacts DEF SearchInv, Levelled
<1>3. l \in Lits
  <2>1. PICK n \in Nat : n = Len(query)
    BY <1>2, LenProperties
  <2>2. at \in 1..n
    BY <1>1, <1>2, <2>1
  <2> QED
    BY <1>1, <1>2, <2>1, <2>2, ElementOfSeq
<1>4. Core'
  BY <1>1, <1>3, DecideKeeps
<1>5. at + 1 \in Nat /\ at + 1 >= 1
  BY <1>2
<1>6. CallsTyped' /\ Rested' /\ Levelled'
  BY <1>1, <1>5 DEF SearchInv, CallsTyped, Rested, Levelled
<1>7. AnalyzeTypeOK' /\ Analyzed'
  BY <1>1, Unanalyzed
<1> QED
  BY <1>4, <1>6, <1>7 DEF SearchInv

(***************************************************************************)
(* A conflict at the root.                                                  *)
(***************************************************************************)
LEMMA ForgetTypes ==
    ASSUME SearchInv, pc \notin {"analyze", "blame"}, pc' = "idle", conflict' = <<>>,
           answer' \in {"unsat", "refuted"}, refuted' = TRUE, trail_reusable' \in BOOLEAN,
           base' \in Nat, at' \in Nat,
           UNCHANGED <<trail, dbVars, visit, clientVars, analyzeVars, assumptions, query,
                       conflict_core, forced, armed, calls>>
    PROVE  refuted' /\ Ended'
<1>1. PropTypeOK /\ CallsTyped /\ AnalyzeTypeOK /\ step = "none" /\ seen = {} /\ toclear = {}
  BY SearchFacts DEF SearchInv, TypeOK, Analyzed
<1>2. PropTypeOK'
  BY <1>1, EmptySeq DEF PropTypeOK, dbVars, clientVars
<1>3. AnalyzeTypeOK' /\ step' = "none" /\ seen' = {} /\ toclear' = {}
  BY <1>1 DEF AnalyzeTypeOK, analyzeVars
<1> QED
  BY <1>1, <1>2, <1>3 DEF CallsTyped, TypeOK, Ended

LEMMA RootConflictEnds ==
    ASSUME SearchInv, RootConflict
    PROVE  refuted' /\ Ended'
<1>1. /\ pc \notin {"analyze", "blame"} /\ pc' = "idle" /\ conflict' = <<>> /\ answer' = "unsat"
      /\ refuted' = TRUE
      /\ UNCHANGED <<trail, dbVars, visit, clientVars, analyzeVars, assumptions, query,
                     trail_reusable, conflict_core, forced, base, at, armed, calls>>
  BY DEF RootConflict, ReturnRefuted, Return
<1>2. trail_reusable' \in BOOLEAN /\ base' \in Nat /\ at' \in Nat
  BY <1>1 DEF SearchInv, CallsTyped
<1> QED
  BY <1>1, <1>2, ForgetTypes

LEMMA ProbePrefixEnds ==
    ASSUME SearchInv, ProbePrefixConflict
    PROVE  IF base = 0 THEN refuted' /\ Ended' ELSE SearchInv' /\ refuted' = refuted
<1>1. /\ pc = "probe" /\ pc' = "idle" /\ conflict # <<>> /\ conflict' = <<>>
      /\ answer' = "refuted" /\ base' = 0 /\ at' = 0 /\ trail_reusable' = FALSE
      /\ LevelOf(trail) = base /\ trail' = Cancelled(trail, 0)
      /\ refuted' = (refuted \/ base = 0)
      /\ UNCHANGED <<dbVars, visit, clientVars, analyzeVars, assumptions, query, conflict_core,
                     forced, armed, calls>>
  BY DEF ProbePrefixConflict, EndProbe, Return
<1>2. base \in Nat /\ visit = NoVisit /\ refuted \in BOOLEAN
  BY <1>1, SearchFacts DEF SearchInv, CallsTyped
<1>3. CASE base = 0
  <2>1. trail' = trail
    BY <1>1, <1>3 DEF Cancelled
  <2>2. refuted' = TRUE
    BY <1>1, <1>3
  <2>3. trail_reusable' \in BOOLEAN /\ base' \in Nat /\ at' \in Nat
    BY <1>1
  <2> QED
    BY <1>1, <1>3, <2>1, <2>2, <2>3, ForgetTypes
<1>4. CASE base # 0
  <2>1. refuted' = refuted
    BY <1>1, <1>2, <1>4
  <2>2. 0 < LevelOf(trail)
    BY <1>1, <1>2, <1>4
  <2>3. Core'
    BY <1>1, <1>2, <2>2, CutKeeps
  <2>4. CallsTyped' /\ Rested'
    BY <1>1, <1>2, <2>1 DEF SearchInv, CallsTyped, Rested
  <2>5. AnalyzeTypeOK' /\ Analyzed'
    BY <1>1, Unanalyzed
  <2>6. Levelled'
    BY <1>1 DEF Levelled
  <2> QED
    BY <1>4, <2>1, <2>3, <2>4, <2>5, <2>6 DEF SearchInv
<1> QED
  BY <1>3, <1>4

(***************************************************************************)
(* The invariant is inductive.                                              *)
(***************************************************************************)
LEMMA CallSearch ==
    ASSUME SearchInv, Call
    PROVE  SearchInv' /\ refuted' = refuted
<1>1. CASE \E c \in InputClauses : AddClause(c)
  <2>1. PICK c \in InputClauses : AddClause(c)
    BY <1>1
  <2>2. refuted' = refuted
    BY <2>1 DEF AddClause
  <2> QED
    BY <2>1, <2>2, AddClauseSearch
<1>2. CASE \E asked \in AssumptionLists : AskDead(asked) \/ Solve(asked) \/ Probe(asked)
  <2>1. PICK asked \in AssumptionLists : AskDead(asked) \/ Solve(asked) \/ Probe(asked)
    BY <1>2
  <2>2. refuted' = refuted
    BY <2>1 DEF AskDead, Solve, Probe
  <2> QED
    BY <2>1, <2>2, AskDeadSearch, SolveSearch, ProbeSearch
<1> QED
  BY <1>1, <1>2 DEF Call

LEMMA RunKeeps ==
    ASSUME SearchInv, Run, ~RootConflict, ~ProbePrefixConflict
    PROVE  SearchInv' /\ refuted' = refuted
<1>1. CASE Propagate
  BY <1>1, PropagateSearch DEF Propagate, callVars
<1>2. CASE Rebuild
  BY <1>2, RebuildSearch DEF Rebuild, callVars
<1>3. CASE EnterLoop \/ Continue
  BY <1>3, EnterSearch DEF EnterLoop, Continue, callVars
<1>4. CASE Conflict
  BY <1>4, ConflictSearch DEF Conflict
<1>5. CASE Analyse
  BY <1>5, AnalyseSearch DEF Analyse, callVars
<1>6. CASE Learn
  BY <1>6, LearnSearch DEF Learn, callVars
<1>7. CASE Stop
  BY <1>7, StopSearch DEF Stop
<1>8. CASE ReduceDb
  BY <1>8, ReduceDbSearch DEF ReduceDb, callVars
<1>9. CASE Restart
  BY <1>9, RestartSearch DEF Restart
<1>10. CASE AlreadyTrue
  BY <1>10, AlreadyTrueSearch DEF AlreadyTrue, callVars
<1>11. CASE Clash
  BY <1>11, ClashSearch DEF Clash
<1>12. CASE TraceClash
  BY <1>12, TraceClashSearch DEF TraceClash
<1>13. CASE Trace
  BY <1>13, TraceSearch DEF Trace
<1>14. CASE EndTrace
  BY <1>14, EndTraceSearch DEF EndTrace
<1>15. CASE Assume
  BY <1>15, AssumeSearch DEF Assume, Decide, callVars
<1>16. CASE FoundModel
  BY <1>16, FoundModelSearch DEF FoundModel
<1>17. CASE \E l \in DecisionLits : Branch(l)
  BY <1>17, BranchSearch DEF Branch, Decide, callVars
<1>18. CASE ProbeConflict \/ ProbeFalse \/ ProbeRead
  BY <1>18, ProbeReturnsSearch DEF ProbeConflict, ProbeFalse, ProbeRead
<1>19. CASE ProbeSkip
  BY <1>19, ProbeSkipSearch DEF ProbeSkip
<1>20. CASE ProbeAssume
  BY <1>20, ProbeAssumeSearch DEF ProbeAssume
<1> QED
  BY <1>1, <1>2, <1>3, <1>4, <1>5, <1>6, <1>7, <1>8, <1>9, <1>10, <1>11, <1>12, <1>13, <1>14,
     <1>15, <1>16, <1>17, <1>18, <1>19, <1>20 DEF Run

LEMMA RunSearch ==
    ASSUME SearchInv, Run
    PROVE  (refuted' /\ Ended') \/ (SearchInv' /\ refuted' = refuted)
BY RunKeeps, RootConflictEnds, ProbePrefixEnds

LEMMA IdleSearch ==
    ASSUME SearchInv, UNCHANGED vars
    PROVE  SearchInv' /\ refuted' = refuted
<1>1. UNCHANGED <<propVars, clientVars, analyzeVars, pc, callVars>>
  BY DEF vars
<1>2. Core' /\ trail' = trail /\ visit' = visit /\ conflict' = conflict /\ (Quiet => Quiet')
  BY <1>1, CoreStands
<1>3. /\ UNCHANGED <<pc, assumptions, query, trail_reusable, conflict_core, answer, forced, base,
                     at, armed, refuted, calls>>
      /\ UNCHANGED <<step, seen, toclear, work>>
  BY <1>1 DEF callVars, analyzeVars
<1>4. CallsTyped' /\ Rested' /\ Levelled' /\ AnalyzeTypeOK'
  BY <1>2, <1>3 DEF SearchInv, CallsTyped, Rested, Levelled, AnalyzeTypeOK
<1>5. (AnalyzeSteps => AnalyzeSteps') /\ (Tracing(trail, seen, work) => Tracing(trail, seen, work)')
  BY <1>2, <1>3 DEF AnalyzeSteps, AnalyzeTypeOK, AnalyzeInv
<1>6. Analyzed'
  BY <1>2, <1>3, <1>5 DEF SearchInv, Analyzed
<1> QED
  BY <1>2, <1>3, <1>4, <1>6 DEF SearchInv

LEMMA NextSearch ==
    ASSUME SearchInv, [Next]_vars
    PROVE  (refuted' /\ Ended') \/ (SearchInv' /\ refuted' = refuted)
BY CallSearch, RunSearch, IdleSearch DEF Next, Rest

\* No call takes a refutation back.
LEMMA RefutedStays ==
    ASSUME refuted, [Next]_vars
    PROVE  refuted'
<1>1. CASE Call
  BY <1>1 DEF Call, AddClause, AskDead, Solve, Probe
<1>2. CASE Run
  <2>1. CASE RootConflict \/ ProbePrefixConflict
    BY <2>1 DEF RootConflict, ReturnRefuted, ProbePrefixConflict
  <2>2. CASE \/ Propagate \/ Rebuild \/ EnterLoop \/ Conflict \/ Analyse \/ Learn \/ Continue
             \/ Stop \/ ReduceDb \/ Restart \/ AlreadyTrue
    BY <2>2 DEF Propagate, Rebuild, EnterLoop, Conflict, Analyse, Learn, Continue, Stop, ReduceDb,
                Restart, AlreadyTrue, callVars
  <2>3. CASE Clash \/ TraceClash \/ Trace \/ EndTrace \/ FoundModel
    BY <2>3 DEF Clash, TraceClash, Trace, EndTrace, FoundModel
  <2>4. CASE Assume \/ \E l \in DecisionLits : Branch(l)
    BY <2>4 DEF Assume, Branch, Decide, callVars
  <2>5. CASE ProbeConflict \/ ProbeSkip \/ ProbeFalse \/ ProbeAssume \/ ProbeRead
    BY <2>5 DEF ProbeConflict, ProbeSkip, ProbeFalse, ProbeAssume, ProbeRead
  <2> QED
    BY <1>2, <2>1, <2>2, <2>3, <2>4, <2>5 DEF Run
<1>3. CASE UNCHANGED vars
  BY <1>3 DEF vars, callVars
<1> QED
  BY <1>1, <1>2, <1>3 DEF Next, Rest

\* A client that heeds a refutation does nothing more.
LEMMA EndedIdle ==
    ASSUME refuted, ~AskAgain, Ended, [Next]_vars
    PROVE  UNCHANGED vars
<1>1. pc = "idle" /\ ~MayCall
  BY DEF Ended, MayCall
<1>2. ~Call
  BY <1>1 DEF Call, AddClause, AskDead, Solve, Probe, MayAsk
<1>3. ~Run
  <2>1. ~Deciding /\ ~Installing
    BY <1>1 DEF Deciding, Ready, Installing
  <2>2. /\ ~Propagate /\ ~RootConflict /\ ~Rebuild /\ ~EnterLoop /\ ~Conflict /\ ~Analyse /\ ~Learn
        /\ ~Continue /\ ~Stop /\ ~ReduceDb /\ ~Restart
    BY <1>1 DEF Propagate, RootConflict, Rebuild, EnterLoop, Conflict, Analyse, Learn, Continue,
                Stop, ReduceDb, Restart, Ready
  <2>3. /\ ~AlreadyTrue /\ ~Clash /\ ~TraceClash /\ ~Trace /\ ~EndTrace /\ ~Assume /\ ~FoundModel
        /\ \A l \in DecisionLits : ~Branch(l)
    BY <1>1, <2>1 DEF AlreadyTrue, Clash, TraceClash, Clashing, Trace, EndTrace, Assume,
                      FoundModel, Branch
  <2>4. /\ ~ProbePrefixConflict /\ ~ProbeConflict /\ ~ProbeSkip /\ ~ProbeFalse /\ ~ProbeAssume
        /\ ~ProbeRead
    BY <1>1 DEF ProbePrefixConflict, ProbeConflict, Probing, ProbeSkip, ProbeFalse, ProbeAssume,
                ProbeRead
  <2> QED
    BY <2>2, <2>3, <2>4 DEF Run
<1> QED
  BY <1>2, <1>3 DEF Next, Rest

LEMMA EndedStays ==
    ASSUME refuted, ~AskAgain, Ended, [Next]_vars
    PROVE  Ended'
BY EndedIdle DEF Ended, TypeOK, PropTypeOK, AnalyzeTypeOK, vars, propVars, dbVars, clientVars,
                 analyzeVars, callVars

LEMMA NextIInv == IInv /\ [Next]_vars => IInv'
<1> SUFFICES ASSUME IInv, [Next]_vars
             PROVE  IInv'
  OBVIOUS
<1>1. CASE refuted
  <2>1. refuted'
    BY <1>1, RefutedStays
  <2>2. ~AskAgain => Ended'
    BY <1>1, EndedStays DEF IInv
  <2> QED
    BY <2>1, <2>2 DEF IInv
<1>2. CASE ~refuted
  <2>1. SearchInv
    BY <1>2 DEF IInv
  <2>2. (refuted' /\ Ended') \/ (SearchInv' /\ refuted' = refuted)
    BY <2>1, NextSearch
  <2> QED
    BY <1>2, <2>2 DEF IInv
<1> QED
  BY <1>1, <1>2

LEMMA InitIInv == Init => IInv
<1> SUFFICES ASSUME Init
             PROVE  IInv
  OBVIOUS
<1>1. PropInv /\ trail = EmptyTrail /\ visit = NoVisit /\ conflict = <<>>
  BY InitPropInv DEF Init, PropInit
<1>2. AnalyzeTypeOK /\ step = "none" /\ seen = {} /\ toclear = {}
  <2>1. NoWork \in WorkType
    BY EmptySeq DEF NoWork, WorkType
  <2> QED
    BY <2>1 DEF Init, AnalyzeInit, AnalyzeTypeOK
<1>3. trail.lits = <<>> /\ trail.lim = <<>>
  BY <1>1 DEF EmptyTrail
<1>4. Shaped(trail) /\ ConflictRight
  <2>1. 1..Len(trail.lits) = {}
    BY <1>3
  <2> QED
    BY <1>1, <2>1 DEF Shaped, ConflictRight
<1>5. CallsTyped /\ refuted = FALSE /\ pc = "idle" /\ trail_reusable = FALSE
  <2>1. /\ pc = "idle" /\ assumptions = <<>> /\ query = <<>> /\ trail_reusable = FALSE
        /\ conflict_core = {} /\ answer = "none" /\ forced = {} /\ base = 0 /\ at = 0
        /\ armed = FALSE /\ refuted = FALSE /\ calls = 0
    BY DEF Init
  <2>2. assumptions \in Seq(Lits) /\ query \in Seq(Lits)
    BY <2>1, EmptySeq
  <2>3. base \in Nat /\ at \in Nat /\ calls \in 0..MaxCalls
    BY <2>1, SolverAssumption
  <2> QED
    BY <2>1, <2>2, <2>3 DEF CallsTyped
<1> QED
  BY <1>1, <1>2, <1>4, <1>5 DEF IInv, SearchInv, Core, Rested, Analyzed, Levelled

(***************************************************************************)
(* Theorems.                                                                *)
(***************************************************************************)
\* The invariant the others follow from: whatever is added, solved under any
\* assumptions, probed, learned, deleted, kept of a trail or restarted, the
\* watch lists, the trail, a conflict under analysis and the answer of a call
\* fit together at every step until a call ends in a conflict at the root.
THEOREM Invariance == Spec => []IInv
<1>1. Init => IInv
  BY InitIInv
<1>2. IInv /\ [Next]_vars => IInv'
  BY NextIInv
<1> QED
  BY <1>1, <1>2, PTL DEF Spec

\* No call starts from, or leaves, a trail on which propagation missed a
\* watcher: trail reuse, probes, backjumps, restarts, deletions and clauses
\* added under a standing trail all keep what propagate relies on.
THEOREM MissesNothing == Spec => []NothingMissedYet
<1>1. IInv => NothingMissedYet
  BY SearchFacts DEF IInv, NothingMissedYet, PropInv
<1> QED
  BY <1>1, Invariance, PTL

\* What propagation keeps is kept by the whole solver: the watch lists match
\* the clauses, a propagated trail has no unit and no falsified clause, and
\* implied literals sit at their level, after the literals of their reasons.
PropagationKept == ~refuted => WatchListsMatch /\ PropagationRight /\ LevelsExact /\ ReasonsOrdered

THEOREM KeepsPropagation == Spec => []PropagationKept
<1>1. IInv => PropagationKept
  <2> SUFFICES ASSUME IInv, ~refuted
               PROVE  WatchListsMatch /\ PropagationRight /\ LevelsExact /\ ReasonsOrdered
    BY DEF PropagationKept
  <2>1. PropInv
    BY SearchFacts DEF IInv
  <2>2. PropagationComplete
    BY <2>1, QuietComplete
  <2> QED
    BY <2>1, <2>2 DEF PropInv, PropagationRight
<1> QED
  BY <1>1, Invariance, PTL

\* For a client that heeds a refutation, every variable of the solver keeps
\* its type.
THEOREM Types == ~AskAgain => (Spec => []TypeOK)
<1> SUFFICES ASSUME ~AskAgain
             PROVE  Spec => []TypeOK
  OBVIOUS
<1>1. IInv => TypeOK
  BY SearchFacts DEF IInv, Ended
<1> QED
  BY <1>1, Invariance, PTL

\* Each level above the assumptions starts with the decision that opened it,
\* whatever was kept of an earlier trail: restart_reuse_level reads it there.
THEOREM LevelsDecide == ~AskAgain => (Spec => []SearchLevelsDecide)
<1> SUFFICES ASSUME ~AskAgain
             PROVE  Spec => []SearchLevelsDecide
  OBVIOUS
<1>1. IInv => SearchLevelsDecide
  <2> SUFFICES ASSUME IInv, pc = "search"
               PROVE  StartsDecide(trail, Len(assumptions))
    BY DEF SearchLevelsDecide, StartsDecide, OpensWith
  <2> QED
    BY DEF IInv, Ended, SearchInv, Levelled
<1> QED
  BY <1>1, Invariance, PTL

\* The walk of analyze always arrives at a unique implication point: it
\* neither runs off the trail nor past a decision, where the code panics.
THEOREM FindsUip == ~AskAgain => (Spec => []UipExists)
<1> SUFFICES ASSUME ~AskAgain
             PROVE  Spec => []UipExists
  OBVIOUS
<1>1. IInv => UipExists
  <2> SUFFICES ASSUME IInv, step = "walk"
               PROVE  UipExists
    BY DEF UipExists
  <2>1. SearchInv /\ pc = "analyze"
    BY DEF IInv, Ended, SearchInv, Analyzed
  <2>2. PropInv /\ Shaped(trail) /\ LevelOf(trail) > 0 /\ AnalyzeSteps
    BY <2>1 DEF SearchInv, Core, Analyzed
  <2> QED
    BY <2>2, WalkFindsUip
<1> QED
  BY <1>1, Invariance, PTL

\* A learned clause is false under the trail, its first literal the only one
\* of the conflict's level and its second one of the backjump level, so that
\* after the backjump it is unit: minimization never spoils it.
THEOREM LearnsAsserting == ~AskAgain => (Spec => []LearnedIsAsserting)
<1> SUFFICES ASSUME ~AskAgain
             PROVE  Spec => []LearnedIsAsserting
  OBVIOUS
<1>1. IInv => LearnedIsAsserting
  <2> SUFFICES ASSUME IInv, step = "learn"
               PROVE  LearnedIsAsserting
    BY DEF LearnedIsAsserting
  <2>1. SearchInv /\ pc = "analyze"
    BY DEF IInv, Ended, SearchInv, Analyzed
  <2>2. PropInv /\ LevelOf(trail) > 0 /\ AnalyzeSteps
    BY <2>1 DEF SearchInv, Core, Analyzed
  <2>3. PICK s : s = LearnedClause
    OBVIOUS
  <2>4. Asserting(trail, s)
    BY <2>2, <2>3, LearnedFacts
  <2>5. /\ \A l \in ToSet(s) : IsFalse(trail, l) /\ LitLevel(trail, l) > 0
        /\ \A i \in DOMAIN s : LitLevel(trail, s[i]) = LevelOf(trail) <=> i = 1
        /\ \A i \in 2..Len(s) : LitLevel(trail, s[i]) <= LitLevel(trail, s[2])
    BY <2>4, LenProperties DEF Asserting, ToSet
  <2> QED
    BY <2>3, <2>5 DEF LearnedIsAsserting
<1> QED
  BY <1>1, Invariance, PTL

\* Every analysis, also one whose minimization rolled marks back, and every
\* tracing of an assumption clash, leaves no mark for the next.
THEOREM ClearsMarks == ~AskAgain => (Spec => []MarksCleared)
<1> SUFFICES ASSUME ~AskAgain
             PROVE  Spec => []MarksCleared
  OBVIOUS
<1>1. IInv => MarksCleared
  <2> SUFFICES ASSUME IInv, step \in {"none", "learn"}
               PROVE  seen = {} /\ toclear = {}
    BY DEF MarksCleared
  <2>1. CASE refuted
    BY <2>1 DEF IInv, Ended
  <2>2. CASE SearchInv
    BY <2>2 DEF SearchInv, Analyzed, AnalyzeSteps, AnalyzeInv
  <2> QED
    BY <2>1, <2>2 DEF IInv
<1> QED
  BY <1>1, Invariance, PTL

(***************************************************************************)
(* The trail of Cdcl.                                                       *)
(***************************************************************************)
\* The literals of the clause that l was propagated from.
ReasonSet(t, A, l) ==
    LET r == ReasonOf(t, l)
    IN  IF r = Decision THEN {}
        ELSE IF r.cref # 0 THEN ToSet(A[r.cref].lits) ELSE {l, r.other}

\* The entries of a are the literals of t with their levels and reason clauses.
Views(a, t, A) ==
    /\ a \in Seq([lit : Lits, level : Nat, reason : Clauses])
    /\ Len(a) = Len(t.lits)
    /\ \A i \in 1..Len(t.lits) :
          /\ a[i].lit = t.lits[i]
          /\ a[i].level = LitLevel(t, t.lits[i])
          /\ a[i].reason = ReasonSet(t, A, t.lits[i])

\* AbsTrail is such a view, with its parts named as constants.
Viewed == \E a, t, A : a = AbsTrail /\ t = trail /\ A = arena /\ Views(a, t, A)

\* A reason is a stored clause that begins with the literal.
LEMMA ReasonFacts ==
    ASSUME PropInv, NEW i \in 1..Len(trail.lits), NEW p, p = trail.lits[i],
           ReasonOf(trail, p) # Decision
    PROVE  /\ p \in Lits
           /\ ReasonSet(trail, arena, p) = {p} \cup ToSet(ReasonTail(trail, p))
           /\ ReasonSet(trail, arena, p) \subseteq Lits
           /\ ReasonSet(trail, arena, p) \in StoredClauses
<1>1. PICK r : r = ReasonOf(trail, p)
  OBVIOUS
<1>2. p \in Lits
  BY TypedDb, TrailParts DEF WellFormed
<1>3. ReasonRight(i)
  BY TypedDb, ReasonsEach DEF PropInv
<1>4. /\ r.cref # 0 => r.cref \in Crefs /\ Live(r.cref) /\ Body(r.cref)[1] = p
      /\ r.cref = 0 => {p, r.other} \in binaries \cup learntBins
  BY <1>1, <1>3 DEF ReasonRight
<1>5. CASE r.cref # 0
  <2>1. PICK b : b = Body(r.cref)
    OBVIOUS
  <2>2. b \in Seq(Lits) /\ Len(b) >= 3
    BY <1>4, <1>5, <2>1, BodyFacts DEF PropInv
  <2>3. ReasonTail(trail, p) = Tail(b) /\ ReasonSet(trail, arena, p) = ToSet(b)
    BY <1>1, <1>5, <2>1 DEF ReasonTail, ReasonSet, Body
  <2>4. b # <<>> /\ Head(b) = p
    BY <1>4, <1>5, <2>1, <2>2
  <2>5. \A x : x \in ToSet(b) <=> x = p \/ x \in ToSet(Tail(b))
    BY <2>2, <2>4, HeadFacts
  <2>6. ToSet(b) \subseteq Lits
    BY <2>2, ToSetFacts
  <2>7. ToSet(b) \in StoredClauses
    BY <1>4, <1>5, <2>1 DEF StoredClauses
  <2> QED
    BY <1>2, <2>3, <2>5, <2>6, <2>7
<1>6. CASE r.cref = 0
  <2>1. ReasonTail(trail, p) = <<r.other>> /\ ReasonSet(trail, arena, p) = {p, r.other}
    BY <1>1, <1>6 DEF ReasonTail, ReasonSet
  <2>2. ToSet(<<r.other>>) = {r.other}
    BY DEF ToSet
  <2>3. {p, r.other} \in StoredClauses /\ r.other \in Lits
    BY <1>4, <1>6, TypedDb DEF StoredClauses, DbTyped, Clauses
  <2> QED
    BY <1>2, <2>1, <2>2, <2>3
<1> QED
  BY <1>5, <1>6

LEMMA View == PropInv => Viewed
<1> SUFFICES ASSUME PropInv
             PROVE  Views(AbsTrail, trail, arena)
  BY DEF Viewed
<1>1. PICK t : t = trail /\ WellFormed(t) /\ t.lits \in Seq(Lits)
  BY TypedDb, TrailParts DEF WellFormed
<1>2. DOMAIN t.lits = 1..Len(t.lits) /\ Len(t.lits) \in Nat
  BY <1>1
<1> DEFINE f == [i \in 1..Len(t.lits) |->
                    [lit |-> t.lits[i], level |-> LitLevel(t, t.lits[i]),
                     reason |-> ReasonSet(t, arena, t.lits[i])]]
<1>3. AbsTrail = f
  <2>1. AbsTrail = [i \in 1..Len(t.lits) |->
                      [lit |-> t.lits[i], level |-> LitLevel(t, t.lits[i]),
                       reason |-> IF ReasonOf(t, t.lits[i]) = Decision THEN {}
                                  ELSE {t.lits[i]} \cup ToSet(ReasonTail(t, t.lits[i]))]]
    BY <1>1, <1>2 DEF AbsTrail
  <2>2. ASSUME NEW i \in 1..Len(t.lits)
        PROVE  (IF ReasonOf(t, t.lits[i]) = Decision THEN {}
                ELSE {t.lits[i]} \cup ToSet(ReasonTail(t, t.lits[i])))
               = ReasonSet(t, arena, t.lits[i])
    BY <1>1, <2>2, ReasonFacts DEF ReasonSet
  <2> QED
    BY <2>1, <2>2
<1>4. ASSUME NEW i \in 1..Len(t.lits)
      PROVE  /\ t.lits[i] \in Lits /\ LitLevel(t, t.lits[i]) \in Nat
             /\ ReasonSet(t, arena, t.lits[i]) \in Clauses
  <2>1. t.lits[i] \in Lits
    BY <1>1
  <2>2. LitLevel(t, t.lits[i]) \in 0..LevelOf(t) /\ LevelOf(t) \in Nat
    BY <1>1, TrailParts DEF WellFormed, LevelOf
  <2>3. ReasonSet(t, arena, t.lits[i]) \in Clauses
    BY <1>1, <1>4, ReasonFacts DEF ReasonSet, Clauses
  <2> QED
    BY <2>1, <2>2, <2>3
<1>5. f \in Seq([lit : Lits, level : Nat, reason : Clauses]) /\ Len(f) = Len(t.lits)
  BY <1>2, <1>4
<1>6. \A i \in 1..Len(t.lits) : /\ f[i].lit = t.lits[i]
                                /\ f[i].level = LitLevel(t, t.lits[i])
                                /\ f[i].reason = ReasonSet(t, arena, t.lits[i])
  OBVIOUS
<1> HIDE DEF f
<1>7. Views(f, t, arena)
  BY <1>5, <1>6 DEF Views
<1> QED
  BY <1>1, <1>3, <1>7

\* The reasons of the trail are stored after the step with the literals they
\* had.
ReasonsStay ==
    \A c \in Crefs :
        Live(c) /\ (\E i \in 1..Len(trail.lits) : ReasonOf(trail, trail.lits[i]).cref = c)
            => c \in Crefs' /\ Live(c)' /\ ToSet(Body(c)') = ToSet(Body(c))

\* Every stored long clause stays in its slot with its literals.
ClausesStay ==
    \A c \in Crefs : Live(c) => c \in Crefs' /\ Live(c)' /\ ToSet(Body(c)') = ToSet(Body(c))

LEMMA StayFacts ==
    /\ ClausesStay => ReasonsStay
    /\ UNCHANGED arena => ClausesStay
    /\ SameClauses => ClausesStay
    /\ \A s, c : Attaches(s, c) => ClausesStay
<1>1. ClausesStay => ReasonsStay
  BY DEF ClausesStay, ReasonsStay
<1>2. UNCHANGED arena => ClausesStay
  BY DEF ClausesStay, Crefs, Live, Body
<1>3. SameClauses => ClausesStay
  BY DEF ClausesStay, SameClauses
<1>4. \A s, c : Attaches(s, c) => ClausesStay
  BY DEF ClausesStay, Attaches
<1> QED
  BY <1>1, <1>2, <1>3, <1>4

\* The entry of position i.
EntryOf(t, A, i) ==
    [lit |-> t.lits[i], level |-> LitLevel(t, t.lits[i]), reason |-> ReasonSet(t, A, t.lits[i])]

\* b has the first m entries of a and no more, or one more.
Prefixed(a, b, m) == Len(b) >= m /\ \A i \in 1..m : b[i] = a[i]

LEMMA PrefixFacts ==
    ASSUME NEW S, NEW a \in Seq(S), NEW b \in Seq(S), NEW m \in 0..Len(a), Prefixed(a, b, m)
    PROVE  /\ Len(b) = m => b = SubSeq(a, 1, m)
           /\ Len(b) = m + 1 => b = Append(SubSeq(a, 1, m), b[m + 1])
<1>1. Len(a) \in Nat /\ Len(b) \in Nat /\ m \in Nat
  OBVIOUS
<1>2. PICK c : c = SubSeq(a, 1, m)
  OBVIOUS
<1>3. c \in Seq(S) /\ Len(c) = m /\ \A i \in 1..m : c[i] = a[i]
  BY <1>1, <1>2
<1>4. CASE Len(b) = m
  BY <1>1, <1>2, <1>3, <1>4 DEF Prefixed
<1>5. CASE Len(b) = m + 1
  <2>1. PICK d : d = Append(c, b[m + 1])
    OBVIOUS
  <2>2. b[m + 1] \in S
    BY <1>1, <1>5
  <2>3. d \in Seq(S) /\ Len(d) = m + 1 /\ d[m + 1] = b[m + 1] /\ \A i \in 1..m : d[i] = c[i]
    <3>1. PICK e \in S : e = b[m + 1]
      BY <2>2
    <3>2. d = Append(c, e)
      BY <2>1, <3>1
    <3>3. d \in Seq(S) /\ Len(d) = Len(c) + 1
      BY <1>3, <3>2
    <3>4. d[Len(c) + 1] = e /\ \A i \in 1..Len(c) : d[i] = c[i]
      BY <1>3, <3>2
    <3> QED
      BY <1>3, <3>1, <3>3, <3>4
  <2>4. \A i \in 1..(m + 1) : d[i] = b[i]
    BY <1>1, <1>3, <2>3 DEF Prefixed
  <2>5. d = b
    BY <1>1, <1>5, <2>3, <2>4
  <2> QED
    BY <1>1, <1>2, <1>5, <2>1, <2>5
<1> QED
  BY <1>1, <1>4, <1>5

LEMMA SameSequence ==
    ASSUME NEW S, NEW a \in Seq(S), NEW b \in Seq(S), Len(b) = Len(a),
           \A i \in 1..Len(a) : b[i] = a[i]
    PROVE  b = a
OBVIOUS

LEMMA ViewParts ==
    ASSUME NEW a, NEW t, NEW A, Views(a, t, A), NEW i \in 1..Len(t.lits)
    PROVE  a[i] = EntryOf(t, A, i) /\ i \in 1..Len(a)
           /\ a[i] \in [lit : Lits, level : Nat, reason : Clauses]
<1>1. i \in 1..Len(a)
  BY DEF Views
<1>2. PICK e : e = a[i] /\ e \in [lit : Lits, level : Nat, reason : Clauses]
  <2>1. PICK E : E = [lit : Lits, level : Nat, reason : Clauses]
    OBVIOUS
  <2>2. a \in Seq(E)
    BY <2>1 DEF Views
  <2>3. a[i] \in E
    BY <1>1, <2>2
  <2> QED
    BY <2>1, <2>3
<1>3. e.lit = t.lits[i] /\ e.level = LitLevel(t, t.lits[i]) /\ e.reason = ReasonSet(t, A, t.lits[i])
  BY <1>2 DEF Views
<1>4. e = [lit |-> e.lit, level |-> e.level, reason |-> e.reason]
  BY <1>2
<1> QED
  BY <1>1, <1>2, <1>3, <1>4 DEF EntryOf

\* Where a trail continues another the entries are the same.
LEMMA SameEntries ==
    ASSUME PropInv, PropInv', NEW m, Continues(trail, trail', m), ReasonsStay
    PROVE  /\ Len(trail'.lits) = m => AbsTrail' = SubSeq(AbsTrail, 1, m)
           /\ Len(trail'.lits) = m + 1
                 => AbsTrail' = Append(SubSeq(AbsTrail, 1, m), EntryOf(trail', arena', m + 1))
<1> DEFINE E == [lit : Lits, level : Nat, reason : Clauses]
<1>1. PICK a, t, A : a = AbsTrail /\ t = trail /\ A = arena /\ Views(a, t, A)
  BY View DEF Viewed
<1>2. PICK b, u, B : b = AbsTrail' /\ u = trail' /\ B = arena' /\ Views(b, u, B)
  <2>1. PropInv' => Viewed'
    BY View, PTL
  <2> QED
    BY <2>1 DEF Viewed
<1>3. /\ a \in Seq(E) /\ b \in Seq(E) /\ Len(a) = Len(t.lits) /\ Len(b) = Len(u.lits)
  BY <1>1, <1>2 DEF Views
<1>4. /\ m \in 0..Len(t.lits)
      /\ Len(u.lits) = m \/ Len(u.lits) = m + 1
      /\ \A i \in 1..m : u.lits[i] = t.lits[i] /\ u.info[VarOf(t.lits[i])] = t.info[VarOf(t.lits[i])]
      /\ Len(t.lits) \in Nat /\ Len(u.lits) \in Nat
      /\ WellFormed(t) /\ WellFormed(u)
  <2>1. WellFormed(t) /\ WellFormed(u)
    BY <1>1, <1>2 DEF Continues
  <2> QED
    BY <1>1, <1>2, <2>1, TrailParts DEF Continues, WellFormed
<1>5. ASSUME NEW i \in 1..m
      PROVE  b[i] = a[i]
  <2>1. i \in 1..Len(t.lits) /\ i \in 1..Len(u.lits)
    BY <1>4
  <2>2. PICK p : p = t.lits[i] /\ p = u.lits[i] /\ u.info[VarOf(p)] = t.info[VarOf(p)]
    BY <1>4
  <2>3. LitLevel(u, p) = LitLevel(t, p) /\ ReasonOf(u, p) = ReasonOf(t, p)
    BY <2>2 DEF LitLevel, ReasonOf
  <2>4. ReasonSet(u, B, p) = ReasonSet(t, A, p)
    <3>1. PICK r : r = ReasonOf(t, p)
      OBVIOUS
    <3>2. CASE r = Decision \/ r.cref = 0
      BY <2>3, <3>1, <3>2 DEF ReasonSet
    <3>3. CASE r # Decision /\ r.cref # 0
      <4>1. ReasonRight(i)
        BY <1>1, <2>1, ReasonsEach DEF PropInv
      <4>2. r.cref \in Crefs /\ Live(r.cref)
        BY <1>1, <2>2, <3>1, <3>3, <4>1 DEF ReasonRight
      <4>3. ToSet(Body(r.cref)') = ToSet(Body(r.cref))
        BY <1>1, <2>1, <2>2, <3>1, <4>2 DEF ReasonsStay
      <4>4. ToSet(B[r.cref].lits) = ToSet(A[r.cref].lits)
        BY <1>1, <1>2, <4>3 DEF Body
      <4> QED
        BY <2>3, <3>1, <3>3, <4>4 DEF ReasonSet
    <3> QED
      BY <3>2, <3>3
  <2>5. EntryOf(u, B, i) = EntryOf(t, A, i)
    BY <2>2, <2>3, <2>4 DEF EntryOf
  <2> QED
    BY <1>1, <1>2, <2>1, <2>5, ViewParts
<1>6. Prefixed(a, b, m) /\ m \in 0..Len(a)
  BY <1>3, <1>4, <1>5 DEF Prefixed
<1>7. /\ Len(b) = m => b = SubSeq(a, 1, m)
      /\ Len(b) = m + 1 => b = Append(SubSeq(a, 1, m), b[m + 1])
  <2> HIDE DEF E
  <2> QED
    BY <1>3, <1>6, PrefixFacts
<1>8. Len(u.lits) = m + 1 => b[m + 1] = EntryOf(u, B, m + 1)
  <2>1. Len(u.lits) = m + 1 => m + 1 \in 1..Len(u.lits)
    BY <1>4
  <2> QED
    BY <1>2, <2>1, ViewParts
<1> QED
  BY <1>1, <1>2, <1>3, <1>7, <1>8

\* cancel_until leaves a prefix of the limits.
LEMMA CutLimits ==
    ASSUME NEW t, WellFormed(t), NEW n \in Nat, NEW u, u = Cancelled(t, n)
    PROVE  u.lim = SubSeq(t.lim, 1, IF n < LevelOf(t) THEN n ELSE LevelOf(t))
<1>1. t.lim \in Seq(Nat) /\ LevelOf(t) \in Nat /\ LevelOf(t) = Len(t.lim)
  BY TrailParts DEF WellFormed, LevelOf
<1>2. CASE LevelOf(t) <= n
  <2>1. u = t /\ ~(n < LevelOf(t))
    BY <1>1, <1>2 DEF Cancelled
  <2> QED
    BY <1>1, <2>1
<1>3. CASE n < LevelOf(t)
  BY <1>1, <1>3 DEF Cancelled
<1> QED
  BY <1>1, <1>2, <1>3

LEMMA AbsLengths ==
    PropInv => /\ Abs!Level = LevelOf(trail) /\ LevelOf(trail) \in Nat
               /\ Len(AbsTrail) = Len(trail.lits) /\ Len(trail.lits) \in Nat
               /\ DOMAIN AbsTrail = 1..Len(trail.lits)
<1> SUFFICES ASSUME PropInv
             PROVE  /\ Abs!Level = LevelOf(trail) /\ LevelOf(trail) \in Nat
                    /\ Len(AbsTrail) = Len(trail.lits) /\ Len(trail.lits) \in Nat
                    /\ DOMAIN AbsTrail = 1..Len(trail.lits)
  OBVIOUS
<1>1. PICK a, t, A : a = AbsTrail /\ t = trail /\ A = arena /\ Views(a, t, A)
  BY View DEF Viewed
<1>2. Abs!Level = LevelOf(trail)
  BY DEF Abs!Level, LevelOf
<1>3. LevelOf(t) \in Nat /\ Len(t.lits) \in Nat
  BY <1>1, TypedDb, TrailParts DEF WellFormed, LevelOf
<1>4. Len(a) = Len(t.lits) /\ DOMAIN a = 1..Len(a)
  BY <1>1 DEF Views
<1> QED
  BY <1>1, <1>2, <1>3, <1>4

\* What a cut leaves, seen from Cdcl.
LEMMA AbsCut ==
    ASSUME PropInv, NEW n \in Nat, NEW u, u = Cancelled(trail, n), NEW m, CutAt(trail, u, n, m)
    PROVE  /\ Abs!Kept(n) = SubSeq(AbsTrail, 1, m)
           /\ Abs!KeptLim(n) = u.lim
           /\ m \in 0..Len(trail.lits)
<1>1. PICK t : t = trail /\ WellFormed(t)
  BY TypedDb
<1>2. LevelOf(t) \in Nat /\ Len(t.lits) \in Nat /\ Abs!Level = LevelOf(t)
      /\ Len(AbsTrail) = Len(t.lits)
  BY <1>1, AbsLengths
<1>3. m \in 0..Len(t.lits)
  BY <1>1 DEF CutAt, Continues
<1>4. Abs!KeptLim(n) = u.lim
  <2>1. Abs!KeptLim(n) = SubSeq(t.lim, 1, IF n < LevelOf(t) THEN n ELSE LevelOf(t))
    BY <1>1, <1>2 DEF Abs!KeptLim
  <2> QED
    BY <1>1, <2>1, CutLimits
<1>5. Abs!Cut(n) = m
  <2>1. CASE n < LevelOf(t)
    <3>1. m = t.lim[n + 1]
      BY <1>1, <2>1 DEF CutAt
    <3> QED
      BY <1>1, <1>2, <2>1, <3>1 DEF Abs!Cut
  <2>2. CASE ~(n < LevelOf(t))
    <3>1. m = Len(t.lits)
      <4>1. CASE Len(t.lits) = 0
        BY <1>3, <4>1
      <4>2. CASE Len(t.lits) > 0
        <5>1. PICK k : k = Len(t.lits) /\ k \in 1..Len(t.lits)
          BY <1>2, <4>2
        <5>2. LitLevel(t, t.lits[k]) \in 0..LevelOf(t)
          BY <1>1, <5>1 DEF WellFormed
        <5>3. LitLevel(t, t.lits[k]) <= n
          BY <1>2, <2>2, <5>2
        <5>4. k <= m
          BY <1>1, <5>1, <5>3 DEF CutAt
        <5> QED
          BY <1>2, <1>3, <5>1, <5>4
      <4> QED
        BY <1>2, <4>1, <4>2
    <3> QED
      BY <1>1, <1>2, <2>2, <3>1 DEF Abs!Cut
  <2> QED
    BY <2>1, <2>2
<1> QED
  BY <1>1, <1>3, <1>4, <1>5 DEF Abs!Kept

LEMMA CancelAbs ==
    ASSUME PropInv, PropInv', ReasonsStay, NEW n \in Nat, trail' = Cancelled(trail, n)
    PROVE  Abs!CancelUntil(n)
<1>1. PICK u : u = trail' /\ u = Cancelled(trail, n)
  OBVIOUS
<1>2. PICK m : CutAt(trail, u, n, m)
  BY <1>1, TypedDb, CancelContinues
<1>3. /\ Abs!Kept(n) = SubSeq(AbsTrail, 1, m) /\ Abs!KeptLim(n) = u.lim
  BY <1>1, <1>2, AbsCut
<1>4. Continues(trail, trail', m) /\ Len(trail'.lits) = m
  BY <1>1, <1>2 DEF CutAt
<1>5. AbsTrail' = SubSeq(AbsTrail, 1, m)
  BY <1>4, SameEntries
<1> QED
  BY <1>1, <1>3, <1>5 DEF Abs!CancelUntil

LEMMA AssertAbs ==
    ASSUME PropInv, PropInv', ReasonsStay, NEW n \in 0..LevelOf(trail),
           NEW u, u = Cancelled(trail, n), NEW l \in Lits, IsUndef(u, l),
           NEW r \in Reasons, trail' = Enqueued(u, l, r),
           NEW R, R = ReasonSet(trail', arena', l)
    PROVE  Abs!Assert(n, l, R)
<1>1. PICK w : w = trail' /\ w = Enqueued(u, l, r)
  OBVIOUS
<1>2. n \in Nat /\ LevelOf(trail) \in Nat
  BY AbsLengths
<1>3. PICK m : CutAt(trail, u, n, m)
  BY <1>2, TypedDb, CancelContinues
<1>4. /\ Abs!Kept(n) = SubSeq(AbsTrail, 1, m) /\ Abs!KeptLim(n) = u.lim
  BY <1>2, <1>3, AbsCut
<1>5. Continues(trail, u, m) /\ Len(u.lits) = m /\ LevelOf(u) = n
  BY <1>2, <1>3 DEF CutAt
<1>6. Continues(trail, w, m) /\ Len(w.lits) = m + 1 /\ w.lits[m + 1] = l
  BY <1>1, <1>5, CutThenEnqueue
<1>7. u \in TrailType
  BY <1>5 DEF Continues, WellFormed
<1>8. w.lim = u.lim /\ LitLevel(w, l) = n
  BY <1>1, <1>5, <1>7, EnqueuedFacts
<1>9. AbsTrail' = Append(SubSeq(AbsTrail, 1, m), EntryOf(trail', arena', m + 1))
  BY <1>1, <1>6, SameEntries
<1>10. EntryOf(trail', arena', m + 1) = [lit |-> l, level |-> n, reason |-> R]
  BY <1>1, <1>6, <1>8 DEF EntryOf
<1> QED
  BY <1>1, <1>4, <1>8, <1>9, <1>10 DEF Abs!Assert

LEMMA DecideAbs ==
    ASSUME PropInv, PropInv', ReasonsStay, Quiet, NEW l \in Lits, IsUndef(trail, l),
           trail' = Enqueued(Opened(trail), l, Decision)
    PROVE  Abs!Decide(l)
<1>1. PICK w : w = trail' /\ w = Enqueued(Opened(trail), l, Decision)
  OBVIOUS
<1>2. PICK m : m = Len(trail.lits) /\ m \in Nat
  BY AbsLengths
<1>3. /\ Continues(trail, w, m) /\ Len(w.lits) = m + 1 /\ w.lits[m + 1] = l
      /\ ReasonOf(w, l) = Decision
      /\ w.lim = Append(trail.lim, Len(trail.lits)) /\ LitLevel(w, l) = LevelOf(trail) + 1
  BY <1>1, <1>2, TypedDb, DecideContinues DEF Quiet
<1>4. AbsTrail' = Append(SubSeq(AbsTrail, 1, m), EntryOf(trail', arena', m + 1))
  BY <1>1, <1>3, SameEntries
<1>5. SubSeq(AbsTrail, 1, m) = AbsTrail
  <2>1. PICK a, t, A : a = AbsTrail /\ t = trail /\ A = arena /\ Views(a, t, A)
    BY View DEF Viewed
  <2>2. a \in Seq([lit : Lits, level : Nat, reason : Clauses]) /\ Len(a) = m
    BY <1>2, <2>1 DEF Views
  <2>3. SubSeq(a, 1, m) = a
    BY <2>2
  <2> QED
    BY <2>1, <2>3
<1>6. ReasonSet(w, arena', l) = {}
  BY <1>3 DEF ReasonSet
<1>7. EntryOf(trail', arena', m + 1) = [lit |-> l, level |-> LevelOf(trail) + 1, reason |-> {}]
  BY <1>1, <1>3, <1>6 DEF EntryOf
<1>8. Abs!Level = LevelOf(trail) /\ Len(AbsTrail) = Len(trail.lits)
  BY AbsLengths
<1> QED
  BY <1>1, <1>3, <1>4, <1>5, <1>7, <1>8 DEF Abs!Decide

\* A step that leaves the literals, their levels and reasons.
LEMMA SameAbsTrail ==
    ASSUME PropInv, PropInv', ReasonsStay, trail'.lits = trail.lits, trail'.info = trail.info
    PROVE  AbsTrail' = AbsTrail
<1>1. PICK a, t, A : a = AbsTrail /\ t = trail /\ A = arena /\ Views(a, t, A)
  BY View DEF Viewed
<1>2. PICK b, u, B : b = AbsTrail' /\ u = trail' /\ B = arena' /\ Views(b, u, B)
  <2>1. PropInv' => Viewed'
    BY View, PTL
  <2> QED
    BY <2>1 DEF Viewed
<1>3. u.lits = t.lits /\ u.info = t.info /\ Len(t.lits) \in Nat
  BY <1>1, <1>2, AbsLengths
<1>4. /\ Len(a) = Len(t.lits) /\ Len(b) = Len(t.lits)
      /\ a \in Seq([lit : Lits, level : Nat, reason : Clauses])
      /\ b \in Seq([lit : Lits, level : Nat, reason : Clauses])
  BY <1>1, <1>2, <1>3 DEF Views
<1>5. ASSUME NEW i \in 1..Len(t.lits)
      PROVE  b[i] = a[i]
  <2>1. PICK p : p = t.lits[i] /\ p = u.lits[i]
    BY <1>3
  <2>2. LitLevel(u, p) = LitLevel(t, p) /\ ReasonOf(u, p) = ReasonOf(t, p)
    BY <1>3 DEF LitLevel, ReasonOf
  <2>3. ReasonSet(u, B, p) = ReasonSet(t, A, p)
    <3>1. PICK r : r = ReasonOf(t, p)
      OBVIOUS
    <3>2. CASE r = Decision \/ r.cref = 0
      BY <2>2, <3>1, <3>2 DEF ReasonSet
    <3>3. CASE r # Decision /\ r.cref # 0
      <4>1. ReasonRight(i)
        BY <1>1, TypedDb, ReasonsEach DEF PropInv
      <4>2. r.cref \in Crefs /\ Live(r.cref)
        BY <1>1, <2>1, <3>1, <3>3, <4>1 DEF ReasonRight
      <4>3. ToSet(Body(r.cref)') = ToSet(Body(r.cref))
        BY <1>1, <2>1, <3>1, <4>2 DEF ReasonsStay
      <4>4. ToSet(B[r.cref].lits) = ToSet(A[r.cref].lits)
        BY <1>1, <1>2, <4>3 DEF Body
      <4> QED
        BY <2>2, <3>1, <3>3, <4>4 DEF ReasonSet
    <3> QED
      BY <3>2, <3>3
  <2>4. EntryOf(u, B, i) = EntryOf(t, A, i)
    BY <2>1, <2>2, <2>3 DEF EntryOf
  <2>5. i \in 1..Len(u.lits)
    BY <1>3
  <2> QED
    BY <1>1, <1>2, <2>4, <2>5, ViewParts
<1>6. b = a
  BY <1>4, <1>5, SameSequence
<1> QED
  BY <1>1, <1>2, <1>6

(***************************************************************************)
(* What Cdcl reads of the trail and of the clauses.                         *)
(***************************************************************************)
LEMMA NegatedLit ==
    ASSUME NEW l \in Lits
    PROVE  -l \in Lits /\ VarOf(-l) = VarOf(l) /\ -(-l) = l /\ l \in Int
BY VarsAssumption DEF Lits, VarOf

LEMMA AbsTrue ==
    ASSUME PropInv, NEW l \in Lits
    PROVE  /\ Abs!True(l) <=> IsTrue(trail, l)
           /\ \A n : Abs!TrueBy(l, n) <=> IsTrue(trail, l) /\ LitLevel(trail, l) <= n
           /\ \A n : Abs!TrueAt(l, n) <=> IsTrue(trail, l) /\ LitLevel(trail, l) = n
<1>1. PICK a, t, A : a = AbsTrail /\ t = trail /\ A = arena /\ Views(a, t, A)
  BY View DEF Viewed
<1>2. WellFormed(t) /\ DOMAIN a = 1..Len(t.lits)
  BY <1>1, TypedDb, AbsLengths
<1>3. \A i \in 1..Len(t.lits) : a[i].lit = t.lits[i] /\ a[i].level = LitLevel(t, t.lits[i])
  BY <1>1 DEF Views
<1>4. IsTrue(t, l) <=> \E i \in 1..Len(t.lits) : t.lits[i] = l
  BY <1>2, TruthFacts
<1>5. Abs!True(l) <=> IsTrue(t, l)
  BY <1>1, <1>2, <1>3, <1>4 DEF Abs!True
<1>6. \A n : Abs!TrueBy(l, n) <=> IsTrue(t, l) /\ LitLevel(t, l) <= n
  BY <1>1, <1>2, <1>3, <1>4 DEF Abs!TrueBy
<1>7. \A n : Abs!TrueAt(l, n) <=> IsTrue(t, l) /\ LitLevel(t, l) = n
  BY <1>1, <1>2, <1>3, <1>4 DEF Abs!TrueAt
<1> QED
  BY <1>1, <1>5, <1>6, <1>7

LEMMA AbsTruth ==
    ASSUME PropInv, NEW l \in Lits
    PROVE  /\ Abs!True(l) <=> IsTrue(trail, l)
           /\ Abs!False(l) <=> IsFalse(trail, l)
           /\ Abs!Undef(l) <=> IsUndef(trail, l)
           /\ Abs!RootTrue(l) <=> FixedTrue(trail, l)
           /\ Abs!RootFalse(l) <=> IsFalse(trail, l) /\ ~(LitLevel(trail, l) > 0)
           /\ \A n : Abs!TrueBy(l, n) <=> IsTrue(trail, l) /\ LitLevel(trail, l) <= n
           /\ \A n : Abs!TrueAt(l, n) <=> IsTrue(trail, l) /\ LitLevel(trail, l) = n
           /\ \A n : Abs!TrueBy(-l, n) <=> IsFalse(trail, l) /\ LitLevel(trail, l) <= n
           /\ \A n : Abs!TrueAt(-l, n) <=> IsFalse(trail, l) /\ LitLevel(trail, l) = n
<1>1. WellFormed(trail) /\ -l \in Lits
  BY TypedDb, NegatedLit
<1>2. /\ IsFalse(trail, l) <=> IsTrue(trail, -l)
      /\ LitLevel(trail, -l) = LitLevel(trail, l)
      /\ IsTrue(trail, l) \/ IsFalse(trail, l) => LitLevel(trail, l) \in 0..LevelOf(trail)
  BY <1>1, TruthFacts
<1>3. /\ Abs!True(l) <=> IsTrue(trail, l)
      /\ \A n : Abs!TrueBy(l, n) <=> IsTrue(trail, l) /\ LitLevel(trail, l) <= n
      /\ \A n : Abs!TrueAt(l, n) <=> IsTrue(trail, l) /\ LitLevel(trail, l) = n
  BY AbsTrue
<1>4. /\ Abs!True(-l) <=> IsFalse(trail, l)
      /\ \A n : Abs!TrueBy(-l, n) <=> IsFalse(trail, l) /\ LitLevel(trail, l) <= n
      /\ \A n : Abs!TrueAt(-l, n) <=> IsFalse(trail, l) /\ LitLevel(trail, l) = n
  BY <1>1, <1>2, AbsTrue
<1>5. /\ Abs!False(l) <=> IsFalse(trail, l)
      /\ Abs!Undef(l) <=> IsUndef(trail, l)
  BY <1>3, <1>4 DEF Abs!False, Abs!Undef, IsUndef
<1>6. LevelOf(trail) \in Nat
  BY AbsLengths
<1>7. Abs!RootTrue(l) <=> FixedTrue(trail, l)
  <2>1. Abs!RootTrue(l) <=> IsTrue(trail, l) /\ LitLevel(trail, l) <= 0
    BY <1>3 DEF Abs!RootTrue
  <2> QED
    BY <1>2, <1>6, <2>1 DEF FixedTrue
<1>8. Abs!RootFalse(l) <=> IsFalse(trail, l) /\ ~(LitLevel(trail, l) > 0)
  <2>1. Abs!RootFalse(l) <=> IsFalse(trail, l) /\ LitLevel(trail, l) <= 0
    BY <1>4 DEF Abs!RootFalse, Abs!RootTrue
  <2> QED
    BY <1>2, <1>6, <2>1
<1> QED
  BY <1>3, <1>4, <1>5, <1>7, <1>8

LEMMA AbsClause ==
    ASSUME PropInv, NEW c, c \subseteq Lits
    PROVE  /\ Abs!Falsified(c) <=> \A l \in c : IsFalse(trail, l)
           /\ Abs!Strip(c) = {l \in c : ~(IsFalse(trail, l) /\ ~(LitLevel(trail, l) > 0))}
           /\ \A l : Abs!UnitWith(c, l) <=> /\ l \in c /\ IsUndef(trail, l)
                                            /\ \A q \in c \ {l} : IsFalse(trail, q)
<1>1. \A l \in c : /\ Abs!False(l) <=> IsFalse(trail, l)
                   /\ Abs!Undef(l) <=> IsUndef(trail, l)
                   /\ Abs!RootFalse(l) <=> IsFalse(trail, l) /\ ~(LitLevel(trail, l) > 0)
  BY AbsTruth
<1>2. Abs!Falsified(c) <=> \A l \in c : IsFalse(trail, l)
  BY <1>1 DEF Abs!Falsified
<1>3. Abs!Strip(c) = {l \in c : ~(IsFalse(trail, l) /\ ~(LitLevel(trail, l) > 0))}
  BY <1>1 DEF Abs!Strip
<1>4. \A l : Abs!UnitWith(c, l) <=> /\ l \in c /\ IsUndef(trail, l)
                                    /\ \A q \in c \ {l} : IsFalse(trail, q)
  BY <1>1 DEF Abs!UnitWith
<1> QED
  BY <1>2, <1>3, <1>4

\* No clause is an injected one: this component stores the other two kinds.
KindsKnown == \A c \in Crefs : Live(c) => arena[c].kind \in {"original", "learnt"}

LEMMA AbsDb ==
    ASSUME KindsKnown
    PROVE  Abs!Db = StoredClauses
<1>1. LongClauses("original") \cup LongClauses("learnt") = {ToSet(Body(c)) : c \in {k \in Crefs : Live(k)}}
  BY DEF KindsKnown, LongClauses, OfKind
<1> QED
  BY <1>1 DEF Abs!Db, StoredClauses

LEMMA StoredLits ==
    ASSUME PropInv, NEW c \in StoredClauses
    PROVE  c \subseteq Lits
<1>1. CASE c \in binaries \cup learntBins
  BY <1>1, TypedDb DEF DbTyped, Clauses
<1>2. ASSUME NEW d \in Crefs, Live(d), c = ToSet(Body(d))
      PROVE  c \subseteq Lits
  BY <1>2, BodyFacts DEF PropInv
<1> QED
  BY <1>1, <1>2 DEF StoredClauses

LEMMA AbsFixpoint ==
    ASSUME PropInv, Quiet, KindsKnown
    PROVE  Abs!Fixpoint
<1>1. SUFFICES ASSUME NEW c \in StoredClauses
               PROVE  ~Abs!Falsified(c) /\ \A l \in c : ~Abs!UnitWith(c, l)
  BY AbsDb DEF Abs!Fixpoint
<1>2. c \subseteq Lits
  BY StoredLits
<1>3. WellFormed(trail)
  BY TypedDb
<1>4. \A l \in c : ~(IsTrue(trail, l) /\ IsFalse(trail, l))
  BY <1>2, <1>3, TruthFacts
<1>5. \/ \E l \in c : IsTrue(trail, l)
      \/ \E l, k \in c : l # k /\ IsUndef(trail, l) /\ IsUndef(trail, k)
  BY <1>1, QuietComplete DEF PropagationComplete
<1>6. /\ Abs!Falsified(c) <=> \A l \in c : IsFalse(trail, l)
      /\ \A l : Abs!UnitWith(c, l) <=> /\ l \in c /\ IsUndef(trail, l)
                                       /\ \A q \in c \ {l} : IsFalse(trail, q)
  BY <1>2, AbsClause
<1> QED
  BY <1>4, <1>5, <1>6 DEF IsUndef

LEMMA AbsFollows ==
    ASSUME PropInv, NEW S, S \subseteq 1..Len(trail.lits), NEW K, NEW x \in Lits
    PROVE  Rests(trail, S, K, x) => Abs!Follows(x, S, K)
<1>1. PICK a, t, A : a = AbsTrail /\ t = trail /\ A = arena /\ Views(a, t, A)
  BY View DEF Viewed
<1>2. \A i \in S : a[i].lit = t.lits[i]
  BY <1>1 DEF Views
<1>3. Abs!RootTrue(x) <=> IsTrue(t, x) /\ LitLevel(t, x) = 0
  BY <1>1, AbsTruth DEF FixedTrue
<1> QED
  BY <1>1, <1>2, <1>3 DEF Rests, Abs!Follows

LEMMA AbsSupported ==
    ASSUME PropInv, NEW S, S \subseteq 1..Len(trail.lits), NEW K, Supports(trail, Tails, S, K)
    PROVE  Abs!Supported(S, K)
<1>1. PICK a, t, A : a = AbsTrail /\ t = trail /\ A = arena /\ Views(a, t, A)
  BY View DEF Viewed
<1>2. PICK T : T = Tails /\ TailsFalse(t, T) /\ Supports(t, T, S, K)
  BY <1>1, TailsRight
<1>3. SUFFICES ASSUME NEW i \in S
               PROVE  /\ a[i].reason # {}
                      /\ \A q \in a[i].reason \ {a[i].lit} : Abs!Follows(-q, S, K)
  BY <1>1 DEF Abs!Supported
<1>4. PICK p : p = t.lits[i] /\ ReasonOf(t, p) # Decision
  BY <1>2 DEF Supports
<1>5. i \in 1..Len(t.lits) /\ a[i].lit = p /\ a[i].reason = ReasonSet(t, A, p)
  BY <1>1, <1>4 DEF Views
<1>6. p \in Lits /\ ReasonSet(t, A, p) = {p} \cup T[VarOf(p)]
  BY <1>1, <1>2, <1>4, <1>5, ReasonFacts, TailsAre
<1>7. \A q \in T[VarOf(p)] : q \in Lits /\ Rests(t, S, K, -q)
  BY <1>2, <1>4, <1>5 DEF TailsFalse, Supports
<1>8. \A q \in T[VarOf(p)] : Abs!Follows(-q, S, K)
  BY <1>1, <1>7, AbsFollows, NegatedLit
<1> QED
  BY <1>5, <1>6, <1>8

(***************************************************************************)
(* What the solver keeps beyond SearchInv so that each of its steps is one  *)
(* of Cdcl.                                                                 *)
(***************************************************************************)
\* The first n assumptions of l hold, each at its level already.
Granted(t, l, n) == \A k \in 1..n : k <= Len(l) => IsTrue(t, l[k]) /\ LitLevel(t, l[k]) <= k

\* The levels that belong to the last solve: a probe owns those above its base.
OwnedLevels == IF pc = "probe" THEN base ELSE LevelOf(trail)

\* What propagate returned is a stored clause.
ConflictStored == conflict # <<>> => ToSet(conflict) \in StoredClauses

\* A running solve has cleared the core of the one before.
CoreClear ==
    pc \in {"entry", "rebuild", "search", "boundary", "analyze", "learned"} => conflict_core = {}

\* A probe's assumptions hold up to the one that is next.
ProbeGranted ==
    pc = "probe" => /\ base <= LevelOf(trail)
                    /\ \A k \in 1..(at - 1) : k <= Len(query) => IsTrue(trail, query[k])

\* The core under construction and the marks left account for the clash.
Blames ==
    pc = "blame" => /\ LevelOf(trail) < Len(assumptions) /\ NextAssumption = -work.uip
                    /\ IsTrue(trail, work.uip)
                    /\ Traced(trail, Tails, seen, work, conflict_core)

\* With SearchInv, inductive while no call has ended in a conflict at the
\* root, and enough for every step to be one of Cdcl.
RefInv ==
    /\ KindsKnown /\ ConflictStored /\ CoreClear
    /\ Granted(trail, assumptions, OwnedLevels) /\ ProbeGranted
    /\ AnalyzeRef /\ Blames

\* The step, seen from Cdcl.
AbsStep == Abs!Next \/ UNCHANGED Abs!vars

\* The step keeps what it must and is one of Cdcl, or none.
Implied == RefInv' /\ AbsStep

(***************************************************************************)
(* The parts of a step.                                                     *)
(***************************************************************************)
LEMMA AbsDbSame ==
    ASSUME UNCHANGED <<dbVars, clientVars>>
    PROVE  UNCHANGED Abs!dbVars /\ StoredClauses' = StoredClauses /\ (KindsKnown => KindsKnown')
BY DEF Abs!dbVars, dbVars, clientVars, LongClauses, OfKind, Crefs, Live, Body, StoredClauses,
       KindsKnown

LEMMA AbsTrailSame ==
    ASSUME UNCHANGED <<trail, arena>>
    PROVE  UNCHANGED Abs!trailVars
BY DEF Abs!trailVars, AbsTrail, ReasonTail, Body

LEMMA AbsCallsSame ==
    ASSUME UNCHANGED <<assumptions, query, base>>
    PROVE  UNCHANGED Abs!callVars
BY DEF Abs!callVars

LEMMA NoResolvent ==
    ASSUME SearchInv, pc # "analyze"
    PROVE  AbsResolvent = {} /\ step \in {"none", "blame"}
<1>1. step \in {"none", "blame"}
  BY DEF SearchInv, Analyzed
<1> QED
  BY <1>1 DEF AbsResolvent

\* Outside analyze there is no resolvent.
NotAnalyzing == SearchInv /\ pc # "analyze"

Unresolved == AbsResolvent = {} /\ AnalyzeRef

LEMMA Unresolves == NotAnalyzing => Unresolved
BY NoResolvent DEF NotAnalyzing, Unresolved, AnalyzeRef

LEMMA NoResolventNext ==
    ASSUME SearchInv', pc' # "analyze"
    PROVE  AbsResolvent' = {} /\ AnalyzeRef'
<1>1. NotAnalyzing' => Unresolved'
  BY Unresolves, PTL
<1> QED
  BY <1>1 DEF NotAnalyzing, Unresolved

LEMMA ResolventIs ==
    ASSUME step \in {"walk", "minimize", "learn"}
    PROVE  AbsResolvent = Resolved
<1>1. MarkedIn(trail, seen, work.idx) =
        {k \in 1..work.idx : /\ VarOf(trail.lits[k]) \in seen
                             /\ LitLevel(trail, trail.lits[k]) = LevelOf(trail)}
  BY DEF MarkedIn
<1> QED
  BY <1>1 DEF AbsResolvent, Resolved, Resolvent, Above

\* The literals of the levels u still has stay true, at their levels.
Retains(t, u) ==
    \A x \in Lits : IsTrue(t, x) /\ LitLevel(t, x) <= LevelOf(u)
                        => IsTrue(u, x) /\ LitLevel(u, x) = LitLevel(t, x)

LEMMA ContinuesRetains ==
    ASSUME NEW t, NEW u, NEW m, Continues(t, u, m),
           \A i \in 1..Len(t.lits) : LitLevel(t, t.lits[i]) <= LevelOf(u) => i <= m
    PROVE  Retains(t, u)
<1>1. SUFFICES ASSUME NEW x \in Lits, IsTrue(t, x), LitLevel(t, x) <= LevelOf(u)
               PROVE  IsTrue(u, x) /\ LitLevel(u, x) = LitLevel(t, x)
  BY DEF Retains
<1>2. WellFormed(t) /\ WellFormed(u)
  BY DEF Continues
<1>3. PICK i \in 1..Len(t.lits) : t.lits[i] = x
  BY <1>1, <1>2, TruthFacts
<1>4. i \in 1..m
  BY <1>1, <1>3 DEF Continues
<1>5. LitLevel(u, x) = LitLevel(t, x) /\ i \in 1..Len(u.lits) /\ u.lits[i] = x
  BY <1>3, <1>4, SamePast
<1> QED
  BY <1>2, <1>5, TruthFacts

LEMMA CutRetains ==
    ASSUME NEW t, WellFormed(t), NEW n \in Nat, NEW u, u = Cancelled(t, n)
    PROVE  Retains(t, u) /\ LevelOf(u) = (IF LevelOf(t) <= n THEN LevelOf(t) ELSE n)
<1>1. PICK m : CutAt(t, u, n, m)
  BY CancelContinues
<1>2. Continues(t, u, m) /\ LevelOf(u) = (IF LevelOf(t) <= n THEN LevelOf(t) ELSE n)
  BY <1>1 DEF CutAt
<1>3. m \in Nat /\ LevelOf(t) \in Nat
  BY <1>2, TrailParts DEF Continues, WellFormed, LevelOf
<1>4. ASSUME NEW i \in 1..Len(t.lits), LitLevel(t, t.lits[i]) <= LevelOf(u)
      PROVE  i <= m
  <2>1. LitLevel(t, t.lits[i]) \in 0..LevelOf(t)
    BY DEF WellFormed
  <2>2. LitLevel(t, t.lits[i]) <= n
    BY <1>2, <1>3, <1>4, <2>1
  <2> QED
    BY <1>1, <2>2 DEF CutAt
<1> QED
  BY <1>2, <1>4, ContinuesRetains

LEMMA EnqueueRetains ==
    ASSUME NEW t, WellFormed(t), NEW l \in Lits, IsUndef(t, l), NEW r \in Reasons,
           NEW u, u = Enqueued(t, l, r)
    PROVE  Retains(t, u) /\ LevelOf(u) = LevelOf(t) /\ IsTrue(u, l) /\ LitLevel(u, l) = LevelOf(t)
<1>1. Continues(t, u, Len(t.lits))
  BY EnqueueContinues
<1>2. Retains(t, u)
  BY <1>1, ContinuesRetains
<1>3. /\ u.lim = t.lim /\ LitLevel(u, l) = LevelOf(t)
      /\ Len(u.lits) = Len(t.lits) + 1 /\ u.lits[Len(t.lits) + 1] = l
  BY EnqueuedFacts DEF WellFormed
<1>4. Len(t.lits) + 1 \in 1..Len(u.lits) /\ WellFormed(u)
  BY <1>1, <1>3, TrailParts DEF Continues, WellFormed
<1>5. IsTrue(u, l)
  BY <1>3, <1>4, TruthFacts
<1> QED
  BY <1>2, <1>3, <1>5 DEF LevelOf

LEMMA RetainsTwice ==
    ASSUME NEW t, NEW u, NEW w, Retains(t, u), Retains(u, w), LevelOf(u) = LevelOf(w)
    PROVE  Retains(t, w)
BY DEF Retains

LEMMA OpenRetains ==
    ASSUME NEW t, WellFormed(t), t.qhead = Len(t.lits), NEW u, u = Opened(t)
    PROVE  Retains(t, u) /\ LevelOf(u) = LevelOf(t) + 1
<1>1. Continues(t, u, Len(t.lits)) /\ u.lim = Append(t.lim, Len(t.lits))
  BY OpenContinues
<1>2. Retains(t, u)
  BY <1>1, ContinuesRetains
<1>3. t.lim \in Seq(Nat) /\ Len(t.lits) \in Nat
  BY TrailParts DEF WellFormed
<1> QED
  BY <1>1, <1>2, <1>3 DEF LevelOf

LEMMA DecideRetains ==
    ASSUME NEW t, WellFormed(t), t.qhead = Len(t.lits), NEW l \in Lits, IsUndef(t, l),
           NEW u, u = Enqueued(Opened(t), l, Decision)
    PROVE  /\ Retains(t, u) /\ LevelOf(u) = LevelOf(t) + 1
           /\ IsTrue(u, l) /\ LitLevel(u, l) = LevelOf(t) + 1
<1>1. /\ Continues(t, u, Len(t.lits)) /\ u.lim = Append(t.lim, Len(t.lits))
      /\ Len(u.lits) = Len(t.lits) + 1 /\ u.lits[Len(t.lits) + 1] = l
      /\ LitLevel(u, l) = LevelOf(t) + 1
  BY DecideContinues
<1>2. Retains(t, u)
  BY <1>1, ContinuesRetains
<1>3. t.lim \in Seq(Nat) /\ Len(t.lits) \in Nat
  BY TrailParts DEF WellFormed
<1>4. LevelOf(u) = LevelOf(t) + 1
  BY <1>1, <1>3 DEF LevelOf
<1>5. Len(t.lits) + 1 \in 1..Len(u.lits) /\ WellFormed(u)
  BY <1>1, <1>3 DEF Continues
<1>6. IsTrue(u, l)
  BY <1>1, <1>5, TruthFacts
<1> QED
  BY <1>1, <1>2, <1>4, <1>6

\* Assumptions that hold below level n hold after a step that keeps level n.
LEMMA GrantedStays ==
    ASSUME NEW t, WellFormed(t), NEW u, Retains(t, u), NEW l \in Seq(Lits), NEW n \in Nat,
           NEW k \in Nat, Granted(t, l, n), k <= n, k <= LevelOf(u), LevelOf(u) \in Nat,
           NEW s \in Seq(Lits), \A j \in 1..k : j <= Len(s) => j <= Len(l) /\ s[j] = l[j]
    PROVE  Granted(u, s, k)
<1>1. SUFFICES ASSUME NEW j \in 1..k, j <= Len(s)
               PROVE  IsTrue(u, s[j]) /\ LitLevel(u, s[j]) <= j
  BY DEF Granted
<1>2. PICK x \in Lits : x = s[j] /\ x = l[j]
  BY <1>1
<1>3. IsTrue(t, x) /\ LitLevel(t, x) <= j
  BY <1>1, <1>2 DEF Granted
<1>4. LitLevel(t, x) \in 0..LevelOf(t) /\ LevelOf(t) \in Nat
  BY <1>3, TruthFacts, TrailParts DEF WellFormed, LevelOf
<1>5. LitLevel(t, x) <= LevelOf(u)
  BY <1>3, <1>4
<1> QED
  BY <1>2, <1>3, <1>5 DEF Retains

\* The phase of Cdcl in which each program counter is.
PhaseIs ==
    /\ pc = "idle" => AbsPhase = "idle"
    /\ pc = "probe" => AbsPhase = "probe"
    /\ pc = "analyze" => AbsPhase = "conflict"
    /\ pc \in {"entry", "rebuild", "search", "boundary", "learned", "blame"} => AbsPhase = "search"

LEMMA Phased == PhaseIs
BY DEF PhaseIs, AbsPhase

LEMMA PhasedNext == PhaseIs /\ PhaseIs'
BY Phased, PTL

\* A step that leaves the clauses, the trail and what propagation returned.
LEMMA Standing ==
    ASSUME RefInv, UNCHANGED <<propVars, clientVars>>
    PROVE  /\ KindsKnown' /\ ConflictStored' /\ StoredClauses' = StoredClauses
           /\ UNCHANGED Abs!dbVars /\ UNCHANGED Abs!trailVars
           /\ trail' = trail /\ Tails' = Tails /\ conflict' = conflict
           /\ formula' = formula /\ dead' = dead
<1>1. UNCHANGED <<dbVars, clientVars>> /\ UNCHANGED <<trail, arena>> /\ conflict' = conflict
      /\ formula' = formula /\ dead' = dead
  BY DEF propVars, dbVars, clientVars
<1>2. UNCHANGED Abs!dbVars /\ StoredClauses' = StoredClauses /\ KindsKnown'
  BY <1>1, AbsDbSame DEF RefInv
<1>3. ConflictStored'
  BY <1>1, <1>2 DEF RefInv, ConflictStored
<1> QED
  BY <1>1, <1>2, <1>3, AbsTrailSame, TailsStay

LEMMA EnterImplied ==
    ASSUME SearchInv, SearchInv', RefInv, EnterLoop \/ Continue
    PROVE  Implied
<1>1. /\ pc \in {"entry", "rebuild", "learned"} /\ pc' = "search"
      /\ UNCHANGED <<propVars, clientVars>> /\ UNCHANGED callVars
  BY DEF EnterLoop, Continue
<1>2. /\ KindsKnown' /\ ConflictStored' /\ trail' = trail
      /\ UNCHANGED Abs!dbVars /\ UNCHANGED Abs!trailVars
  BY <1>1, Standing
<1>3. AbsResolvent = {} /\ AbsResolvent' = {} /\ AnalyzeRef'
  BY <1>1, NoResolvent, NoResolventNext
<1>4. AbsPhase = "search" /\ AbsPhase' = "search"
  BY <1>1, PhasedNext DEF PhaseIs
<1>5. UNCHANGED Abs!vars
  BY <1>1, <1>2, <1>3, <1>4 DEF Abs!vars, Abs!callVars, Abs!resultVars, callVars
<1>6. CoreClear' /\ ProbeGranted' /\ Blames'
  BY <1>1 DEF RefInv, CoreClear, ProbeGranted, Blames, callVars
<1>7. Granted(trail', assumptions', OwnedLevels')
  BY <1>1, <1>2 DEF RefInv, OwnedLevels, callVars
<1> QED
  BY <1>2, <1>3, <1>5, <1>6, <1>7 DEF Implied, AbsStep, RefInv

LEMMA ProbeSkipImplied ==
    ASSUME SearchInv, SearchInv', RefInv, ProbeSkip
    PROVE  Implied
<1>1. /\ pc = "probe" /\ pc' = "probe" /\ Quiet /\ at <= Len(query) /\ IsTrue(trail, query[at])
      /\ UNCHANGED <<propVars, clientVars>>
      /\ UNCHANGED <<assumptions, query, base, conflict_core, answer, forced>> /\ at' = at + 1
  BY DEF ProbeSkip, Probing
<1>2. /\ KindsKnown' /\ ConflictStored' /\ trail' = trail
      /\ UNCHANGED Abs!dbVars /\ UNCHANGED Abs!trailVars
  BY <1>1, Standing
<1>3. AbsResolvent = {} /\ AbsResolvent' = {} /\ AnalyzeRef'
  BY <1>1, NoResolvent, NoResolventNext
<1>4. AbsPhase = "probe" /\ AbsPhase' = "probe"
  BY <1>1, PhasedNext DEF PhaseIs
<1>5. UNCHANGED Abs!vars
  BY <1>1, <1>2, <1>3, <1>4 DEF Abs!vars, Abs!callVars, Abs!resultVars
<1>6. CoreClear' /\ Blames'
  BY <1>1 DEF CoreClear, Blames
<1>7. Granted(trail', assumptions', OwnedLevels')
  BY <1>1, <1>2 DEF RefInv, OwnedLevels
<1>8. ProbeGranted'
  <2>1. at \in Nat
    BY SearchFacts
  <2>2. base <= LevelOf(trail) /\ \A k \in 1..(at - 1) : k <= Len(query) => IsTrue(trail, query[k])
    BY <1>1 DEF RefInv, ProbeGranted
  <2>3. \A k \in 1..(at' - 1) : k <= Len(query) => IsTrue(trail, query[k])
    <3>1. SUFFICES ASSUME NEW k \in 1..(at' - 1), k <= Len(query)
                   PROVE  IsTrue(trail, query[k])
      OBVIOUS
    <3>2. k = at \/ k \in 1..(at - 1)
      BY <1>1, <2>1, <3>1
    <3> QED
      BY <1>1, <2>2, <3>1, <3>2
  <2> QED
    BY <1>1, <1>2, <2>2, <2>3 DEF ProbeGranted
<1> QED
  BY <1>2, <1>3, <1>5, <1>6, <1>7, <1>8 DEF Implied, AbsStep, RefInv

LEMMA TraceClashImplied ==
    ASSUME SearchInv, SearchInv', RefInv, TraceClash
    PROVE  Implied
<1>1. /\ Clashing /\ pc' = "blame" /\ conflict_core' = {NextAssumption}
      /\ BeginBlame(-NextAssumption)
      /\ UNCHANGED <<propVars, clientVars>>
      /\ UNCHANGED <<assumptions, query, base, answer, forced>>
  BY DEF TraceClash
<1>2. /\ KindsKnown' /\ ConflictStored' /\ trail' = trail
      /\ UNCHANGED Abs!dbVars /\ UNCHANGED Abs!trailVars
  BY <1>1, Standing
<1>3. /\ NextAssumption \in Lits /\ pc \in {"search", "boundary"}
      /\ LevelOf(trail) < Len(assumptions)
  BY <1>1, NextAssumptionFacts DEF Clashing
<1>4. AbsResolvent = {} /\ AbsResolvent' = {} /\ AnalyzeRef'
  BY <1>1, <1>3, NoResolvent, NoResolventNext
<1>5. AbsPhase = "search" /\ AbsPhase' = "search"
  BY <1>1, <1>3, PhasedNext DEF PhaseIs
<1>6. conflict_core = {}
  BY <1>3 DEF RefInv, CoreClear
<1>7. UNCHANGED Abs!vars
  BY <1>1, <1>2, <1>3, <1>4, <1>5, <1>6 DEF Abs!vars, Abs!callVars, Abs!resultVars
<1>8. CoreClear' /\ ProbeGranted'
  BY <1>1 DEF CoreClear, ProbeGranted
<1>9. Granted(trail', assumptions', OwnedLevels')
  BY <1>1, <1>2, <1>3 DEF RefInv, OwnedLevels
<1>10. Blames'
  <2>1. PICK p \in Lits : p = -NextAssumption /\ NextAssumption = -p
    BY <1>3, NegatedLit
  <2>2. IsTrue(trail, p)
    BY <1>1, <2>1 DEF Clashing, IsFalse, IsTrue
  <2>3. PropInv /\ seen = {}
    BY <1>3 DEF SearchInv, Core, Analyzed
  <2>4. UNCHANGED <<trail, arena>>
    BY <1>1 DEF propVars, dbVars
  <2>5. BeginBlame(p)
    BY <1>1, <2>1
  <2>6. /\ work'.uip = p
        /\ \A c : c = {-p} => Traced(trail, Tails, seen, work, c)'
    BY <2>2, <2>3, <2>4, <2>5, BeginBlameTracks
  <2>7. conflict_core' = {-p}
    BY <1>1, <2>1
  <2>8. NextAssumption' = NextAssumption
    BY <1>1, <1>2 DEF NextAssumption
  <2>9. Traced(trail', Tails', seen', work', conflict_core')
    BY <2>6, <2>7
  <2> QED
    BY <1>1, <1>2, <1>3, <2>1, <2>2, <2>6, <2>8, <2>9 DEF Blames
<1> QED
  BY <1>2, <1>4, <1>7, <1>8, <1>9, <1>10 DEF Implied, AbsStep, RefInv

LEMMA TraceImplied ==
    ASSUME SearchInv, SearchInv', RefInv, Trace
    PROVE  Implied
<1>1. /\ pc = "blame" /\ pc' = "blame" /\ conflict_core' = conflict_core \cup Blamed
      /\ Blame
      /\ UNCHANGED <<propVars, clientVars>>
      /\ UNCHANGED <<assumptions, query, base, answer, forced>>
  BY DEF Trace
<1>2. /\ KindsKnown' /\ ConflictStored' /\ trail' = trail /\ Tails' = Tails
      /\ UNCHANGED Abs!dbVars /\ UNCHANGED Abs!trailVars
  BY <1>1, Standing
<1>3. AbsResolvent = {} /\ AbsResolvent' = {} /\ AnalyzeRef'
  BY <1>1, NoResolvent, NoResolventNext
<1>4. AbsPhase = "search" /\ AbsPhase' = "search"
  BY <1>1, PhasedNext DEF PhaseIs
<1>5. UNCHANGED Abs!vars
  BY <1>1, <1>2, <1>3, <1>4 DEF Abs!vars, Abs!callVars, Abs!resultVars
<1>6. CoreClear' /\ ProbeGranted'
  BY <1>1 DEF CoreClear, ProbeGranted
<1>7. Granted(trail', assumptions', OwnedLevels')
  BY <1>1, <1>2 DEF RefInv, OwnedLevels
<1>8. Blames'
  <2>1. /\ LevelOf(trail) < Len(assumptions) /\ NextAssumption = -work.uip
        /\ IsTrue(trail, work.uip) /\ Traced(trail, Tails, seen, work, conflict_core)
    BY <1>1 DEF RefInv, Blames
  <2>2. PropInv /\ AnalyzeTypeOK /\ Tracing(trail, seen, work)
    BY <1>1 DEF SearchInv, Core, Analyzed
  <2>3. UNCHANGED <<trail, arena>>
    BY <1>1 DEF propVars, dbVars
  <2>4. PICK c2 : c2 = conflict_core \cup Blamed
    OBVIOUS
  <2>5. Traced(trail, Tails, seen, work, c2)' /\ work'.uip = work.uip
    BY <1>1, <2>1, <2>2, <2>3, <2>4, BlameTracks
  <2>6. NextAssumption' = NextAssumption
    BY <1>1, <1>2 DEF NextAssumption
  <2>7. Traced(trail', Tails', seen', work', conflict_core')
    BY <1>1, <2>4, <2>5
  <2> QED
    BY <1>1, <1>2, <2>1, <2>5, <2>6, <2>7 DEF Blames
<1> QED
  BY <1>2, <1>3, <1>5, <1>6, <1>7, <1>8 DEF Implied, AbsStep, RefInv

\* During analyze the resolvent is the clause analysis has arrived at.
Resolving == step \in {"walk", "minimize", "learn"} => AbsResolvent = Resolved

LEMMA ResolvingNext == Resolving /\ Resolving'
<1>1. Resolving
  BY ResolventIs DEF Resolving
<1> QED
  BY <1>1, PTL

LEMMA ConflictImplied ==
    ASSUME SearchInv, SearchInv', RefInv, Conflict
    PROVE  Implied
<1>1. /\ pc = "search" /\ pc' = "analyze" /\ conflict # <<>> /\ LevelOf(trail) > 0 /\ BeginAnalyze
      /\ UNCHANGED <<propVars, clientVars>>
      /\ UNCHANGED <<assumptions, query, base, conflict_core, answer, forced>>
  BY DEF Conflict
<1>2. /\ KindsKnown' /\ ConflictStored' /\ trail' = trail
      /\ UNCHANGED Abs!dbVars /\ UNCHANGED Abs!trailVars
  BY <1>1, Standing
<1>3. PropInv /\ seen = {} /\ ConflictRight
  BY <1>1 DEF SearchInv, Core, Analyzed
<1>4. AnalyzeRef' /\ Resolved' = {l \in ToSet(conflict) : LitLevel(trail, l) > 0}
  BY <1>1, <1>2, <1>3, BeginTracks
<1>5. AbsResolvent' = Resolved'
  BY <1>1, ResolvingNext DEF BeginAnalyze, Resolving
<1>6. PICK c : c = ToSet(conflict) /\ c \in StoredClauses
  BY <1>1 DEF RefInv, ConflictStored
<1>7. \A l \in c : IsFalse(trail, l)
  BY <1>1, <1>3, <1>6 DEF ConflictRight, Falsified
<1>8. c \subseteq Lits
  BY <1>3, <1>6, StoredLits
<1>9. Abs!Falsified(c) /\ Abs!Strip(c) = {l \in c : LitLevel(trail, l) > 0}
  <2>1. /\ Abs!Falsified(c) <=> \A l \in c : IsFalse(trail, l)
        /\ Abs!Strip(c) = {l \in c : ~(IsFalse(trail, l) /\ ~(LitLevel(trail, l) > 0))}
    BY <1>3, <1>8, AbsClause
  <2> QED
    BY <1>7, <2>1
<1>10. AbsPhase = "search" /\ AbsPhase' = "conflict" /\ Abs!Level = LevelOf(trail)
  BY <1>1, <1>3, PhasedNext, AbsLengths DEF PhaseIs
<1>11. UNCHANGED Abs!callVars /\ UNCHANGED Abs!resultVars
  BY <1>1 DEF Abs!callVars, Abs!resultVars
<1>12. Abs!Conflict(c)
  BY <1>1, <1>2, <1>4, <1>5, <1>6, <1>9, <1>10, <1>11 DEF Abs!Conflict
<1>13. c \in Abs!Db
  BY <1>6, AbsDb DEF RefInv
<1>14. Abs!Next
  BY <1>12, <1>13 DEF Abs!Next, Abs!Deduce
<1>15. CoreClear' /\ ProbeGranted' /\ Blames'
  BY <1>1 DEF RefInv, CoreClear, ProbeGranted, Blames
<1>16. Granted(trail', assumptions', OwnedLevels')
  BY <1>1, <1>2 DEF RefInv, OwnedLevels
<1> QED
  BY <1>2, <1>4, <1>14, <1>15, <1>16 DEF Implied, AbsStep, RefInv

\* A resolution is Cdcl's.
LEMMA ExplainAbs ==
    ASSUME PropInv, AnalyzeSteps, AnalyzeRef, LevelOf(trail) > 0, NEW m \in Nat, ResolvesAt(m),
           NEW R, R = Resolved, AbsResolvent = R, AbsResolvent' = Resolved', AbsPhase = "conflict",
           AbsPhase' = AbsPhase, UNCHANGED Abs!dbVars, UNCHANGED Abs!trailVars,
           UNCHANGED Abs!callVars, UNCHANGED Abs!resultVars
    PROVE  m \in DOMAIN AbsTrail /\ Abs!Explain(m)
<1>1. PICK a, t, A : a = AbsTrail /\ t = trail /\ A = arena /\ Views(a, t, A)
  BY View DEF Viewed
<1>2. PICK T : T = Tails /\ TailsFalse(t, T)
  BY <1>1, TailsRight
<1>3. m \in 1..Len(t.lits) /\ DOMAIN a = 1..Len(t.lits) /\ WellFormed(t)
  BY <1>1, AbsLengths, TypedDb DEF ResolvesAt
<1>4. PICK p : p = t.lits[m] /\ p = a[m].lit /\ p \in Lits
  BY <1>1, <1>3, TrailParts DEF Views, WellFormed
<1>5. /\ ReasonOf(t, p) # Decision /\ -p \in R
      /\ \A j \in 1..Len(t.lits) : j > m => -t.lits[j] \notin R
      /\ \E i \in 1..Len(t.lits) : /\ i # m /\ LitLevel(t, t.lits[i]) = LevelOf(t)
                                   /\ -t.lits[i] \in R
      /\ Resolved' = {l \in (R \ {-p}) \cup T[VarOf(p)] : LitLevel(t, l) > 0}
  BY <1>1, <1>2, <1>4 DEF ResolvesAt
<1>6. a[m].reason = {p} \cup T[VarOf(p)]
  <2>1. a[m].reason = ReasonSet(t, A, p)
    BY <1>1, <1>3, <1>4 DEF Views
  <2>2. ReasonSet(t, A, p) = {p} \cup ToSet(ReasonTail(t, p))
    BY <1>1, <1>3, <1>4, <1>5, ReasonFacts
  <2>3. T[VarOf(p)] = ToSet(ReasonTail(t, p))
    BY <1>1, <1>2, <1>4, TailsAre
  <2> QED
    BY <2>1, <2>2, <2>3
<1>7. \A q \in T[VarOf(p)] : q \in Lits /\ IsFalse(t, q) /\ q # p
  <2>1. SUFFICES ASSUME NEW q \in T[VarOf(p)]
                 PROVE  q \in Lits /\ IsFalse(t, q) /\ q # p
    OBVIOUS
  <2>2. q \in Lits /\ FalseBy(t, q, m - 1)
    BY <1>2, <1>3, <1>4, <1>5, <2>1 DEF TailsFalse
  <2>3. \E j \in 1..Len(t.lits) : t.lits[j] = -q
    BY <1>3, <2>2 DEF FalseBy
  <2>4. IsFalse(t, q) /\ ~IsTrue(t, q)
    BY <1>3, <2>2, <2>3, TruthFacts
  <2>5. IsTrue(t, p)
    BY <1>3, <1>4, TruthFacts
  <2> QED
    BY <2>2, <2>4, <2>5
<1>8. a[m].reason \ {p} = T[VarOf(p)]
  BY <1>6, <1>7
<1>9. \A l \in R : l \in Lits /\ IsFalse(t, l) /\ LitLevel(t, l) > 0
  BY <1>1, ResolvedFalse
<1>10. Abs!Strip((R \ {-p}) \cup T[VarOf(p)]) = {l \in (R \ {-p}) \cup T[VarOf(p)] : LitLevel(t, l) > 0}
  <2>1. PICK c : c = (R \ {-p}) \cup T[VarOf(p)]
    OBVIOUS
  <2>2. c \subseteq Lits /\ \A l \in c : IsFalse(t, l)
    BY <1>7, <1>9, <2>1
  <2>3. Abs!Strip(c) = {l \in c : ~(IsFalse(t, l) /\ ~(LitLevel(t, l) > 0))}
    BY <1>1, <2>2, AbsClause
  <2> QED
    BY <2>1, <2>2, <2>3
<1>11. Abs!Level = LevelOf(t)
  BY <1>1, AbsLengths
<1>12. \E l \in R : l # -p /\ Abs!TrueAt(-l, Abs!Level)
  <2>1. PICK i \in 1..Len(t.lits) : /\ i # m /\ LitLevel(t, t.lits[i]) = LevelOf(t)
                                    /\ -t.lits[i] \in R
    BY <1>5
  <2>2. PICK x \in Lits : x = t.lits[i]
    BY <1>3, TrailParts DEF WellFormed
  <2>3. IsTrue(t, x) /\ -(-x) = x
    BY <1>3, <2>2, TruthFacts, NegatedLit
  <2>4. Abs!TrueAt(x, LevelOf(t))
    BY <1>1, <2>1, <2>2, <2>3, AbsTruth
  <2>5. x # p
    BY <1>3, <1>4, <2>1, <2>2 DEF WellFormed
  <2>6. -x # -p
    BY <1>4, <2>3, <2>5, NegatedLit
  <2> QED
    BY <1>11, <2>1, <2>2, <2>3, <2>4, <2>6
<1>13. \A j \in 1..Len(t.lits) : a[j].lit = t.lits[j]
  BY <1>1 DEF Views
<1>14. \A j \in DOMAIN a : j > m => -a[j].lit \notin R
  BY <1>3, <1>5, <1>13
<1>15. AbsResolvent' = Abs!Strip((R \ {-p}) \cup (a[m].reason \ {p}))
  BY <1>5, <1>8, <1>10
<1>16. a[m].reason # {}
  BY <1>6
<1> QED
  BY <1>1, <1>3, <1>4, <1>5, <1>12, <1>14, <1>15, <1>16 DEF Abs!Explain

LEMMA AnalyseImplied ==
    ASSUME SearchInv, SearchInv', RefInv, Analyse
    PROVE  Implied
<1>1. /\ pc = "analyze" /\ pc' = "analyze" /\ analyze
      /\ UNCHANGED <<propVars, clientVars>> /\ UNCHANGED callVars
  BY DEF Analyse
<1>2. /\ KindsKnown' /\ ConflictStored' /\ trail' = trail
      /\ UNCHANGED Abs!dbVars /\ UNCHANGED Abs!trailVars
  BY <1>1, Standing
<1>3. PropInv /\ Shaped(trail) /\ LevelOf(trail) > 0 /\ AnalyzeSteps /\ AnalyzeRef
  BY <1>1 DEF SearchInv, Core, Analyzed, RefInv
<1>4. UNCHANGED <<trail, arena>>
  BY <1>1 DEF propVars, dbVars
<1>5. Tracks
  BY <1>1, <1>3, <1>4, AnalyzeTracks
<1>6. AbsPhase = "conflict" /\ AbsPhase' = "conflict"
  BY <1>1, PhasedNext DEF PhaseIs
<1>7. UNCHANGED Abs!callVars /\ UNCHANGED Abs!resultVars
  BY <1>1 DEF Abs!callVars, Abs!resultVars, callVars
<1>8. AbsResolvent = Resolved /\ AbsResolvent' = Resolved'
  <2>1. step \in {"walk", "minimize", "learn"}
    BY <1>3 DEF AnalyzeSteps
  <2>2. AnalyzeSteps'
    BY <1>1 DEF SearchInv, Analyzed
  <2>3. step' \in {"walk", "minimize", "learn"}
    BY <2>2 DEF AnalyzeSteps
  <2> QED
    BY <2>1, <2>3, ResolvingNext DEF Resolving
<1>9. AbsStep
  <2>1. CASE Resolved' = Resolved
    <3>1. UNCHANGED Abs!vars
      BY <1>2, <1>6, <1>7, <1>8, <2>1 DEF Abs!vars
    <3> QED
      BY <3>1 DEF AbsStep
  <2>2. ASSUME NEW m \in Nat, ResolvesAt(m)
        PROVE  AbsStep
    <3>1. PICK R : R = Resolved
      OBVIOUS
    <3>2. m \in DOMAIN AbsTrail /\ Abs!Explain(m)
      BY <1>2, <1>3, <1>6, <1>7, <1>8, <2>2, <3>1, ExplainAbs
    <3> QED
      BY <3>2 DEF AbsStep, Abs!Next, Abs!Deduce
  <2> QED
    BY <1>5, <2>1, <2>2 DEF Tracks
<1>10. CoreClear' /\ ProbeGranted' /\ Blames'
  BY <1>1 DEF RefInv, CoreClear, ProbeGranted, Blames, callVars
<1>11. Granted(trail', assumptions', OwnedLevels')
  BY <1>1, <1>2 DEF RefInv, OwnedLevels, callVars
<1> QED
  BY <1>2, <1>5, <1>9, <1>10, <1>11 DEF Implied, RefInv, Tracks

\* A call returns and leaves the trail it ends with.
LEMMA Returned ==
    ASSUME SearchInv', RefInv, pc \notin {"analyze", "probe"}, pc' = "idle", SearchInv,
           UNCHANGED <<propVars, clientVars>>, UNCHANGED <<assumptions, base>>
    PROVE  /\ RefInv' /\ AbsPhase' = "idle" /\ UNCHANGED Abs!dbVars /\ UNCHANGED Abs!trailVars
           /\ AbsResolvent' = {} /\ AbsResolvent = {} /\ trail' = trail
<1>1. /\ KindsKnown' /\ ConflictStored' /\ trail' = trail
      /\ UNCHANGED Abs!dbVars /\ UNCHANGED Abs!trailVars
  BY Standing
<1>2. AbsResolvent = {} /\ AbsResolvent' = {} /\ AnalyzeRef'
  BY NoResolvent, NoResolventNext
<1>3. AbsPhase' = "idle"
  BY PhasedNext DEF PhaseIs
<1>4. CoreClear' /\ ProbeGranted' /\ Blames'
  BY DEF CoreClear, ProbeGranted, Blames
<1>5. Granted(trail', assumptions', OwnedLevels')
  BY <1>1 DEF RefInv, OwnedLevels
<1> QED
  BY <1>1, <1>2, <1>3, <1>4, <1>5 DEF RefInv

LEMMA AskDeadImplied ==
    ASSUME SearchInv, SearchInv', RefInv, NEW asked \in AssumptionLists, AskDead(asked)
    PROVE  Implied
<1>1. /\ pc = "idle" /\ pc' = "idle" /\ dead /\ query' = asked /\ forced' = {}
      /\ answer' \in {"unsat", "refuted"}
      /\ UNCHANGED <<propVars, clientVars>> /\ UNCHANGED <<assumptions, base>>
      /\ conflict_core' = conflict_core
  BY DEF AskDead, MayAsk, MayCall, Ask, Return
<1>2. /\ RefInv' /\ AbsPhase' = "idle" /\ UNCHANGED Abs!dbVars /\ UNCHANGED Abs!trailVars
      /\ AbsResolvent' = {} /\ AbsResolvent = {}
  BY <1>1, Returned
<1>3. AbsPhase = "idle"
  BY <1>1, PhasedNext DEF PhaseIs
<1>4. Abs!SolveDead(asked) \/ Abs!ProbeDead(asked)
  BY <1>1, <1>2, <1>3 DEF Abs!SolveDead, Abs!ProbeDead
<1> QED
  BY <1>2, <1>4 DEF Implied, AbsStep, Abs!Next, Abs!Call

LEMMA FoundModelImplied ==
    ASSUME SearchInv, SearchInv', RefInv, FoundModel
    PROVE  Implied
<1>1. /\ Deciding /\ LevelOf(trail) >= Len(assumptions) /\ \A v \in Vars : ~IsUndef(trail, v)
      /\ pc' = "idle" /\ answer' = "sat"
      /\ UNCHANGED <<propVars, clientVars>> /\ UNCHANGED <<assumptions, base>>
      /\ UNCHANGED <<conflict_core, query, forced>>
  BY DEF FoundModel, Return
<1>2. pc \in {"search", "boundary"} /\ Quiet /\ PropInv /\ KindsKnown
  BY <1>1 DEF Deciding, Ready, SearchInv, Rested, Core, RefInv
<1>3. /\ RefInv' /\ AbsPhase' = "idle" /\ UNCHANGED Abs!dbVars /\ UNCHANGED Abs!trailVars
      /\ AbsResolvent' = {} /\ AbsResolvent = {}
  BY <1>1, <1>2, Returned
<1>4. AbsPhase = "search" /\ Abs!Fixpoint /\ Abs!Level = LevelOf(trail)
  BY <1>2, PhasedNext, AbsFixpoint, AbsLengths DEF PhaseIs
<1>5. \A v \in Vars : ~Abs!Undef(v)
  BY <1>1, <1>2, AbsTruth DEF Lits
<1>6. Abs!FoundModel
  BY <1>1, <1>2, <1>3, <1>4, <1>5 DEF Abs!FoundModel, Abs!callVars
<1> QED
  BY <1>3, <1>6 DEF Implied, AbsStep, Abs!Next, Abs!Search

\* The literals of K are decisions above the root.
Decisions(K) ==
    \A l \in K : \E i \in 1..Len(trail.lits) :
        trail.lits[i] = l /\ ReasonOf(trail, l) = Decision /\ LitLevel(trail, l) > 0

\* An assumption clash with the decisions K.
LEMMA ClashAbs ==
    ASSUME PropInv, Quiet, KindsKnown, NEW p \in Lits, NextAssumption = -p,
           LevelOf(trail) < Len(assumptions), IsTrue(trail, p),
           AbsPhase = "search", AbsPhase' = "idle", AbsResolvent' = AbsResolvent,
           UNCHANGED Abs!dbVars, UNCHANGED Abs!trailVars, UNCHANGED Abs!callVars, forced' = forced,
           NEW S, S \subseteq 1..Len(trail.lits), NEW K, K \subseteq Lits, Decisions(K),
           Supports(trail, Tails, S, K), Rests(trail, S, K, p),
           conflict_core' = K \cup {-p}, pc' = "idle", answer' = "unsat"
    PROVE  Abs!Next
<1>1. PICK a, t, A : a = AbsTrail /\ t = trail /\ A = arena /\ Views(a, t, A)
  BY View DEF Viewed
<1>2. Abs!Level = LevelOf(t) /\ DOMAIN a = 1..Len(t.lits)
  BY <1>1, AbsLengths
<1>3. Abs!NextAssumption = -p /\ -(-p) = p
  BY <1>1, <1>2, NegatedLit DEF Abs!NextAssumption, NextAssumption
<1>4. Abs!Fixpoint /\ Abs!Supported(S, K) /\ Abs!Follows(p, S, K)
  BY AbsFixpoint, AbsSupported, AbsFollows
<1>5. Abs!False(-p)
  BY <1>3, AbsTrue DEF Abs!False
<1>6. ASSUME NEW l \in K
      PROVE  \E i \in DOMAIN a : a[i].lit = l /\ a[i].reason = {} /\ a[i].level > 0
  <2>1. PICK i \in 1..Len(t.lits) : /\ t.lits[i] = l /\ ReasonOf(t, l) = Decision
                                    /\ LitLevel(t, l) > 0
    BY <1>1, <1>6 DEF Decisions
  <2>2. a[i].lit = l /\ a[i].reason = {} /\ a[i].level = LitLevel(t, l)
    BY <1>1, <2>1 DEF Views, ReasonSet
  <2> QED
    BY <1>2, <2>1, <2>2
<1>7. Abs!Pending
  BY <1>1, <1>2 DEF Abs!Pending
<1>8. Abs!Clash(S, K)
  BY <1>1, <1>3, <1>4, <1>5, <1>6, <1>7 DEF Abs!Clash
<1>9. S \in SUBSET DOMAIN AbsTrail /\ K \in SUBSET {AbsTrail[i].lit : i \in DOMAIN AbsTrail}
  BY <1>1, <1>2, <1>6
<1> QED
  BY <1>8, <1>9 DEF Abs!Next, Abs!Search

LEMMA ClashImplied ==
    ASSUME SearchInv, SearchInv', RefInv, CORE_ON, Clash
    PROVE  Implied
<1>1. /\ Clashing /\ LevelOf(trail) = 0 /\ conflict_core' = {NextAssumption}
      /\ pc' = "idle" /\ answer' = "unsat"
      /\ UNCHANGED <<propVars, clientVars>> /\ UNCHANGED <<assumptions, base>>
      /\ UNCHANGED <<query, forced>>
  BY DEF Clash, Return
<1>2. /\ NextAssumption \in Lits /\ pc \in {"search", "boundary"} /\ Quiet
      /\ LevelOf(trail) < Len(assumptions) /\ PropInv /\ KindsKnown
  BY <1>1, NextAssumptionFacts DEF Clashing, SearchInv, Core, RefInv
<1>3. /\ RefInv' /\ AbsPhase' = "idle" /\ UNCHANGED Abs!dbVars /\ UNCHANGED Abs!trailVars
      /\ AbsResolvent' = {} /\ AbsResolvent = {}
  BY <1>1, <1>2, Returned
<1>4. PICK p \in Lits : p = -NextAssumption /\ NextAssumption = -p
  BY <1>2, NegatedLit
<1>5. IsTrue(trail, p)
  BY <1>1, <1>4 DEF Clashing, IsFalse, IsTrue
<1>6. LitLevel(trail, p) = 0
  <2>1. LitLevel(trail, p) \in 0..LevelOf(trail)
    BY <1>2, <1>5, TypedDb, TruthFacts
  <2> QED
    BY <1>1, <2>1
<1>7. AbsPhase = "search"
  BY <1>2, PhasedNext DEF PhaseIs
<1>8. UNCHANGED Abs!callVars
  BY <1>1 DEF Abs!callVars
<1>9. Supports(trail, Tails, {}, {}) /\ Rests(trail, {}, {}, p) /\ Decisions({})
  BY <1>5, <1>6 DEF Supports, Rests, Decisions
<1>10. conflict_core' = {} \cup {-p}
  BY <1>1, <1>4
<1>11. Abs!Next
  BY <1>1, <1>2, <1>3, <1>4, <1>5, <1>7, <1>8, <1>9, <1>10, ClashAbs
<1> QED
  BY <1>3, <1>11 DEF Implied, AbsStep

LEMMA EndTraceImplied ==
    ASSUME SearchInv, SearchInv', RefInv, EndTrace
    PROVE  Implied
<1>1. /\ pc = "blame" /\ EndBlame /\ pc' = "idle" /\ answer' = "unsat"
      /\ UNCHANGED <<propVars, clientVars>> /\ UNCHANGED <<assumptions, base>>
      /\ UNCHANGED <<query, forced, conflict_core>>
  BY DEF EndTrace, Return
<1>2. /\ LevelOf(trail) < Len(assumptions) /\ NextAssumption = -work.uip
      /\ IsTrue(trail, work.uip) /\ Traced(trail, Tails, seen, work, conflict_core)
      /\ KindsKnown
  BY <1>1 DEF RefInv, Blames
<1>3. /\ PropInv /\ Quiet /\ Tracing(trail, seen, work)
  BY <1>1 DEF SearchInv, Core, Rested, Analyzed
<1>4. /\ RefInv' /\ AbsPhase' = "idle" /\ UNCHANGED Abs!dbVars /\ UNCHANGED Abs!trailVars
      /\ AbsResolvent' = {} /\ AbsResolvent = {}
  BY <1>1, Returned
<1>5. work.uip \in Lits /\ LevelOf(trail) > 0 /\ work.idx <= trail.lim[1]
  BY <1>1, <1>3 DEF Tracing, EndBlame
<1>6. PICK t, T, sn, w, c : /\ t = trail /\ T = Tails /\ sn = seen /\ w = work
                            /\ c = conflict_core
  OBVIOUS
<1>7. PICK p \in Lits : p = w.uip
  BY <1>5, <1>6
<1>8. WellFormed(t) /\ TailsFalse(t, T) /\ LevelOf(t) > 0 /\ Traced(t, T, sn, w, c)
      /\ Tracing(t, sn, w) /\ w.idx <= t.lim[1] /\ IsTrue(t, p)
  BY <1>2, <1>3, <1>5, <1>6, <1>7, TypedDb, TailsRight
<1>9. PICK S \in SUBSET (1..Len(t.lits)), K \in SUBSET Lits :
              /\ c = K \cup {-p}
              /\ \A l \in K : \E i \in 1..Len(t.lits) :
                    t.lits[i] = l /\ ReasonOf(t, l) = Decision /\ LitLevel(t, l) > 0
              /\ Supports(t, T, S, K) /\ Rests(t, S, K, p)
  BY <1>7, <1>8, EndTraced
<1>10. Decisions(K) /\ Supports(trail, Tails, S, K) /\ Rests(trail, S, K, p)
  BY <1>6, <1>9 DEF Decisions
<1>11. AbsPhase = "search"
  BY <1>1, PhasedNext DEF PhaseIs
<1>12. UNCHANGED Abs!callVars
  BY <1>1 DEF Abs!callVars
<1>13. conflict_core' = K \cup {-p} /\ NextAssumption = -p /\ IsTrue(trail, p)
       /\ S \subseteq 1..Len(trail.lits)
  BY <1>1, <1>2, <1>6, <1>7, <1>9
<1>14. Abs!Next
  BY <1>1, <1>2, <1>3, <1>4, <1>10, <1>11, <1>12, <1>13, ClashAbs
<1> QED
  BY <1>4, <1>14 DEF Implied, AbsStep

\* A step that moves the trail and leaves the clauses.
LEMMA Moving ==
    ASSUME RefInv, UNCHANGED <<dbVars, clientVars>>, conflict' = conflict \/ conflict' = <<>>
    PROVE  KindsKnown' /\ ConflictStored' /\ UNCHANGED Abs!dbVars /\ ReasonsStay
<1>1. UNCHANGED Abs!dbVars /\ StoredClauses' = StoredClauses /\ KindsKnown'
  BY AbsDbSame DEF RefInv
<1>2. ConflictStored'
  BY <1>1 DEF RefInv, ConflictStored
<1>3. UNCHANGED arena
  BY DEF dbVars
<1>4. ReasonsStay
  BY <1>3, StayFacts
<1> QED
  BY <1>1, <1>2, <1>4

\* The parts of the invariant that a step outside probes, analyses and blames
\* has to show.
LEMMA Searching ==
    ASSUME SearchInv, SearchInv', pc \notin {"analyze", "blame"}, pc' \in {"idle", "entry", "rebuild", "search", "boundary"},
           KindsKnown', ConflictStored', CoreClear', Granted(trail', assumptions', LevelOf(trail'))
    PROVE  /\ RefInv' /\ AbsResolvent = {} /\ AbsResolvent' = {}
           /\ AbsPhase' = (IF pc' = "idle" THEN "idle" ELSE "search")
<1>1. AbsResolvent = {} /\ AbsResolvent' = {} /\ AnalyzeRef'
  BY NoResolvent, NoResolventNext
<1>2. AbsPhase' = (IF pc' = "idle" THEN "idle" ELSE "search")
  BY PhasedNext DEF PhaseIs
<1>3. ProbeGranted' /\ Blames'
  BY DEF ProbeGranted, Blames
<1>4. Granted(trail', assumptions', OwnedLevels')
  BY DEF OwnedLevels
<1> QED
  BY <1>1, <1>2, <1>3, <1>4 DEF RefInv

LEMMA GrantedMore ==
    ASSUME NEW t, WellFormed(t), NEW u, Retains(t, u), NEW l \in Seq(Lits),
           Granted(t, l, LevelOf(t)), LevelOf(u) = LevelOf(t) + 1,
           LevelOf(t) < Len(l) => /\ IsTrue(u, l[LevelOf(t) + 1])
                                  /\ LitLevel(u, l[LevelOf(t) + 1]) <= LevelOf(t) + 1
    PROVE  Granted(u, l, LevelOf(u))
<1>1. LevelOf(t) \in Nat /\ Len(l) \in Nat
  BY TrailParts DEF WellFormed, LevelOf
<1>2. Granted(u, l, LevelOf(t))
  BY <1>1, GrantedStays
<1>3. SUFFICES ASSUME NEW k \in 1..(LevelOf(t) + 1), k <= Len(l)
               PROVE  IsTrue(u, l[k]) /\ LitLevel(u, l[k]) <= k
  BY DEF Granted
<1>4. CASE k \in 1..LevelOf(t)
  BY <1>2, <1>3, <1>4 DEF Granted
<1>5. CASE k = LevelOf(t) + 1
  BY <1>1, <1>3, <1>5
<1> QED
  BY <1>1, <1>3, <1>4, <1>5

LEMMA DecideImplied ==
    ASSUME SearchInv, SearchInv', RefInv, Deciding, NEW l \in Lits, IsUndef(trail, l), Decide(l),
           LevelOf(trail) < Len(assumptions) => l = NextAssumption
    PROVE  /\ RefInv' /\ Abs!Decide(l) /\ UNCHANGED Abs!dbVars
           /\ UNCHANGED Abs!callVars /\ UNCHANGED Abs!resultVars
           /\ AbsResolvent' = AbsResolvent /\ AbsPhase = "search" /\ AbsPhase' = AbsPhase
           /\ Abs!Fixpoint /\ Abs!Undef(l)
<1>1. /\ trail' = Enqueued(Opened(trail), l, Decision) /\ pc' = "search"
      /\ UNCHANGED <<dbVars, clientVars>> /\ conflict' = conflict /\ UNCHANGED callVars
  BY DEF Decide
<1>2. pc \in {"search", "boundary"} /\ Quiet /\ KindsKnown /\ Granted(trail, assumptions, LevelOf(trail))
  BY DEF Deciding, Ready, SearchInv, Rested, RefInv, OwnedLevels
<1>3. PropInv /\ WellFormed(trail) /\ PropInv' /\ assumptions \in Seq(Lits)
  BY SearchFacts DEF SearchInv, Core
<1>4. KindsKnown' /\ ConflictStored' /\ UNCHANGED Abs!dbVars /\ ReasonsStay
  BY <1>1, Moving
<1>5. Abs!Decide(l)
  BY <1>1, <1>2, <1>3, <1>4, DecideAbs
<1>6. Granted(trail', assumptions', LevelOf(trail'))
  <2>1. PICK t, u : t = trail /\ u = trail' /\ u = Enqueued(Opened(t), l, Decision)
    BY <1>1
  <2>2. t.qhead = Len(t.lits)
    BY <1>2, <2>1 DEF Quiet
  <2>3. /\ Retains(t, u) /\ LevelOf(u) = LevelOf(t) + 1
        /\ IsTrue(u, l) /\ LitLevel(u, l) = LevelOf(t) + 1
    BY <1>3, <2>1, <2>2, DecideRetains
  <2>4. LevelOf(t) < Len(assumptions) => l = assumptions[LevelOf(t) + 1]
    BY <2>1 DEF NextAssumption
  <2>5. LevelOf(t) \in Nat
    BY <1>3, <2>1, AbsLengths
  <2>6. Granted(u, assumptions, LevelOf(u))
    BY <1>2, <1>3, <2>1, <2>3, <2>4, <2>5, GrantedMore
  <2> QED
    BY <1>1, <2>1, <2>6 DEF callVars
<1>7. CoreClear'
  BY <1>1, <1>2 DEF RefInv, CoreClear, callVars
<1>8. /\ RefInv' /\ AbsResolvent = {} /\ AbsResolvent' = {}
      /\ AbsPhase' = (IF pc' = "idle" THEN "idle" ELSE "search")
  BY <1>1, <1>2, <1>4, <1>6, <1>7, Searching
<1>9. AbsPhase = "search" /\ Abs!Fixpoint /\ Abs!Undef(l)
  BY <1>2, <1>3, PhasedNext, AbsFixpoint, AbsTruth DEF PhaseIs
<1>10. UNCHANGED Abs!callVars /\ UNCHANGED Abs!resultVars
  BY <1>1, <1>2 DEF Abs!callVars, Abs!resultVars, callVars
<1> QED
  BY <1>1, <1>4, <1>5, <1>8, <1>9, <1>10

LEMMA AssumeImplied ==
    ASSUME SearchInv, SearchInv', RefInv, Assume
    PROVE  Implied
<1>1. /\ NextAssumption \in Lits /\ LevelOf(trail) < Len(assumptions)
      /\ IsUndef(trail, NextAssumption) /\ Decide(NextAssumption) /\ Deciding
  BY NextAssumptionFacts DEF Assume, Installing
<1>2. PICK l \in Lits : l = NextAssumption
  BY <1>1
<1>3. /\ RefInv' /\ Abs!Decide(l) /\ UNCHANGED Abs!dbVars
      /\ UNCHANGED Abs!callVars /\ UNCHANGED Abs!resultVars
      /\ AbsResolvent' = AbsResolvent /\ AbsPhase = "search" /\ AbsPhase' = AbsPhase
      /\ Abs!Fixpoint /\ Abs!Undef(l)
  BY <1>1, <1>2, DecideImplied
<1>4. Abs!Level = LevelOf(trail)
  BY DEF Abs!Level, LevelOf
<1>5. Abs!NextAssumption = l /\ Abs!Pending
  BY <1>1, <1>2, <1>3, <1>4 DEF Abs!NextAssumption, NextAssumption, Abs!Pending
<1>6. Abs!Assume
  BY <1>3, <1>5 DEF Abs!Assume
<1> QED
  BY <1>3, <1>6 DEF Implied, AbsStep, Abs!Next, Abs!Search

LEMMA BranchImplied ==
    ASSUME SearchInv, SearchInv', RefInv, NEW l \in DecisionLits, Branch(l)
    PROVE  Implied
<1>1. /\ l \in Lits /\ LevelOf(trail) >= Len(assumptions)
      /\ IsUndef(trail, l) /\ Decide(l) /\ Deciding
  BY PropagationAssumption DEF Branch
<1>2. LevelOf(trail) \in Nat /\ Len(assumptions) \in Nat
  BY SearchFacts
<1>3. /\ RefInv' /\ Abs!Decide(l) /\ UNCHANGED Abs!dbVars
      /\ UNCHANGED Abs!callVars /\ UNCHANGED Abs!resultVars
      /\ AbsResolvent' = AbsResolvent /\ AbsPhase = "search" /\ AbsPhase' = AbsPhase
      /\ Abs!Fixpoint /\ Abs!Undef(l)
  BY <1>1, <1>2, DecideImplied
<1>4. Abs!Level = LevelOf(trail)
  BY DEF Abs!Level, LevelOf
<1>5. Abs!Branch(l)
  BY <1>1, <1>3, <1>4 DEF Abs!Branch
<1>6. l \in Abs!Lits
  BY <1>1 DEF Abs!Lits, Lits
<1> QED
  BY <1>3, <1>5, <1>6 DEF Implied, AbsStep, Abs!Next, Abs!Search

LEMMA AlreadyTrueImplied ==
    ASSUME SearchInv, SearchInv', RefInv, AlreadyTrue
    PROVE  Implied
<1>1. /\ Installing /\ IsTrue(trail, NextAssumption) /\ trail' = Opened(trail) /\ pc' = pc
      /\ UNCHANGED <<dbVars, clientVars>> /\ conflict' = conflict /\ UNCHANGED callVars
  BY DEF AlreadyTrue
<1>2. /\ NextAssumption \in Lits /\ pc \in {"search", "boundary"} /\ Quiet
      /\ LevelOf(trail) < Len(assumptions) /\ LevelOf(trail) \in Nat
      /\ KindsKnown /\ Granted(trail, assumptions, LevelOf(trail))
  BY <1>1, NextAssumptionFacts DEF RefInv, OwnedLevels
<1>3. PropInv /\ WellFormed(trail) /\ PropInv' /\ assumptions \in Seq(Lits)
  BY SearchFacts DEF SearchInv, Core
<1>4. KindsKnown' /\ ConflictStored' /\ UNCHANGED Abs!dbVars /\ ReasonsStay
  BY <1>1, Moving
<1>5. PICK t, u : t = trail /\ u = trail' /\ u = Opened(t)
  BY <1>1
<1>6. t.qhead = Len(t.lits) /\ WellFormed(t)
  BY <1>2, <1>3, <1>5 DEF Quiet
<1>7. /\ Retains(t, u) /\ LevelOf(u) = LevelOf(t) + 1 /\ u.lits = t.lits /\ u.info = t.info
      /\ u.lim = Append(t.lim, Len(t.lits))
  BY <1>5, <1>6, OpenRetains, OpenContinues
<1>8. Granted(trail', assumptions', LevelOf(trail'))
  <2>1. PICK p \in Lits : p = assumptions[LevelOf(t) + 1]
    BY <1>2, <1>5 DEF NextAssumption
  <2>2. IsTrue(t, p) /\ LitLevel(t, p) \in 0..LevelOf(t)
    BY <1>1, <1>5, <1>6, <2>1, TruthFacts DEF NextAssumption
  <2>3. IsTrue(u, p) /\ LitLevel(u, p) = LitLevel(t, p)
    BY <1>7, <2>2 DEF IsTrue, LitLevel
  <2>4. LitLevel(u, p) <= LevelOf(t) + 1
    BY <1>2, <1>5, <2>2, <2>3
  <2>5. Granted(u, assumptions, LevelOf(u))
    BY <1>2, <1>3, <1>5, <1>6, <1>7, <2>1, <2>3, <2>4, GrantedMore
  <2> QED
    BY <1>1, <1>5, <2>5 DEF callVars
<1>9. CoreClear'
  BY <1>1, <1>2 DEF RefInv, CoreClear, callVars
<1>10. /\ RefInv' /\ AbsResolvent = {} /\ AbsResolvent' = {}
       /\ AbsPhase' = (IF pc' = "idle" THEN "idle" ELSE "search")
  BY <1>1, <1>2, <1>4, <1>8, <1>9, Searching
<1>11. AbsPhase = "search" /\ Abs!Fixpoint /\ Abs!True(NextAssumption)
  BY <1>1, <1>2, <1>3, PhasedNext, AbsFixpoint, AbsTruth DEF PhaseIs
<1>12. UNCHANGED Abs!callVars /\ UNCHANGED Abs!resultVars
  BY <1>1, <1>2 DEF Abs!callVars, Abs!resultVars, callVars
<1>13. AbsTrail' = AbsTrail
  BY <1>3, <1>4, <1>5, <1>7, SameAbsTrail
<1>14. Abs!Level = LevelOf(trail) /\ Len(AbsTrail) = Len(trail.lits)
  BY <1>3, AbsLengths
<1>15. Abs!NextAssumption = NextAssumption /\ Abs!Pending
  BY <1>2, <1>11, <1>14 DEF Abs!NextAssumption, NextAssumption, Abs!Pending
<1>16. trail'.lim = Append(trail.lim, Len(AbsTrail))
  BY <1>5, <1>7, <1>14
<1>17. AbsPhase' = AbsPhase /\ AbsResolvent' = AbsResolvent
  BY <1>1, <1>2, <1>10, <1>11
<1>18. Abs!AlreadyTrue
  BY <1>4, <1>11, <1>12, <1>13, <1>15, <1>16, <1>17 DEF Abs!AlreadyTrue
<1> QED
  BY <1>10, <1>18 DEF Implied, AbsStep, Abs!Next, Abs!Search

LEMMA ProbeAssumeImplied ==
    ASSUME SearchInv, SearchInv', RefInv, ProbeAssume
    PROVE  Implied
<1>1. /\ pc = "probe" /\ pc' = "probe" /\ Quiet /\ at <= Len(query) /\ IsUndef(trail, query[at])
      /\ trail' = Enqueued(Opened(trail), query[at], Decision) /\ at' = at + 1
      /\ UNCHANGED <<dbVars, clientVars>> /\ conflict' = conflict
      /\ UNCHANGED <<assumptions, query, base, conflict_core, answer, forced>>
  BY DEF ProbeAssume, Probing
<1>2. /\ PropInv /\ WellFormed(trail) /\ PropInv' /\ query \in Seq(Lits) /\ at \in Nat /\ at >= 1
      /\ assumptions \in Seq(Lits) /\ base \in Nat /\ LevelOf(trail) \in Nat
  BY <1>1, SearchFacts DEF SearchInv, Core, Levelled
<1>3. /\ KindsKnown /\ Granted(trail, assumptions, base) /\ base <= LevelOf(trail)
      /\ \A k \in 1..(at - 1) : k <= Len(query) => IsTrue(trail, query[k])
  BY <1>1 DEF RefInv, OwnedLevels, ProbeGranted
<1>4. KindsKnown' /\ ConflictStored' /\ UNCHANGED Abs!dbVars /\ ReasonsStay
  BY <1>1, Moving
<1>5. PICK l \in Lits : l = query[at]
  BY <1>1, <1>2
<1>6. PICK t, u : t = trail /\ u = trail' /\ u = Enqueued(Opened(t), l, Decision)
  BY <1>1, <1>5
<1>7. t.qhead = Len(t.lits) /\ WellFormed(t) /\ IsUndef(t, l)
  BY <1>1, <1>2, <1>5, <1>6 DEF Quiet
<1>8. Retains(t, u) /\ LevelOf(u) = LevelOf(t) + 1 /\ IsTrue(u, l)
  BY <1>6, <1>7, DecideRetains
<1>9. Granted(trail', assumptions', OwnedLevels')
  <2>1. base <= LevelOf(u) /\ LevelOf(u) \in Nat
    BY <1>2, <1>3, <1>6, <1>8
  <2>2. Granted(u, assumptions, base)
    BY <1>2, <1>3, <1>6, <1>7, <1>8, <2>1, GrantedStays
  <2> QED
    BY <1>1, <1>6, <2>2 DEF OwnedLevels
<1>10. ProbeGranted'
  <2>1. SUFFICES ASSUME NEW k \in 1..(at' - 1), k <= Len(query)
                 PROVE  IsTrue(u, query[k])
    BY <1>1, <1>2, <1>3, <1>6, <1>8 DEF ProbeGranted
  <2>2. CASE k = at
    BY <1>5, <1>8, <2>2
  <2>3. CASE k # at
    <3>1. k \in 1..(at - 1)
      BY <1>1, <1>2, <2>1, <2>3
    <3>2. PICK x \in Lits : x = query[k]
      BY <1>2, <2>1, <3>1
    <3>3. IsTrue(t, x)
      BY <1>3, <1>6, <2>1, <3>1, <3>2
    <3>4. LitLevel(t, x) \in 0..LevelOf(t) /\ LevelOf(t) \in Nat
      BY <1>2, <1>6, <1>7, <3>3, TruthFacts
    <3>5. LitLevel(t, x) <= LevelOf(u)
      BY <1>8, <3>4
    <3> QED
      BY <1>8, <3>2, <3>3, <3>5 DEF Retains
  <2> QED
    BY <2>2, <2>3
<1>11. CoreClear' /\ Blames'
  BY <1>1 DEF CoreClear, Blames
<1>12. AbsResolvent = {} /\ AbsResolvent' = {} /\ AnalyzeRef'
  BY <1>1, NoResolvent, NoResolventNext
<1>13. AbsPhase = "probe" /\ AbsPhase' = "probe"
  BY <1>1, PhasedNext DEF PhaseIs
<1>14. Abs!Decide(l)
  BY <1>1, <1>2, <1>4, <1>5, DecideAbs
<1>15. Abs!Fixpoint /\ Abs!Undef(l)
  BY <1>1, <1>2, <1>3, <1>5, AbsFixpoint, AbsTruth
<1>16. UNCHANGED Abs!callVars /\ UNCHANGED Abs!resultVars
  BY <1>1 DEF Abs!callVars, Abs!resultVars
<1>17. at \in DOMAIN query /\ Abs!ProbeAssume(at)
  BY <1>1, <1>2, <1>4, <1>5, <1>12, <1>13, <1>14, <1>15, <1>16 DEF Abs!ProbeAssume
<1>18. Abs!Next
  BY <1>17 DEF Abs!Next, Abs!ProbeStep
<1> QED
  BY <1>4, <1>9, <1>10, <1>11, <1>12, <1>18 DEF Implied, AbsStep, RefInv

\* The shared prefix is shared.
LEMMA SharedPrefix ==
    ASSUME NEW s \in Seq(Lits), NEW t \in Seq(Lits), NEW n, n = SharedLen(s, t)
    PROVE  n \in Nat /\ n <= Len(s) /\ n <= Len(t) /\ \A k \in 1..n : s[k] = t[k]
<1>1. PICK m : m = Min({Len(s), Len(t)})
  OBVIOUS
<1>2. m \in Nat /\ m <= Len(s) /\ m <= Len(t)
  BY <1>1, MinOfTwo
<1> DEFINE P == {k \in 0..m : \A j \in 1..k : s[j] = t[j]}
<1>3. P \subseteq Nat /\ 0 \in P /\ \A x \in P : x <= m
  BY <1>2
<1>4. n = Max(P)
  BY <1>1 DEF SharedLen
<1> HIDE DEF P
<1>5. n \in P
  BY <1>2, <1>3, <1>4, MaxFacts
<1> QED
  BY <1>2, <1>5, SharedFacts DEF P

\* A step that only cuts the trail.
LEMMA Cutting ==
    ASSUME SearchInv, SearchInv', RefInv, UNCHANGED <<dbVars, clientVars>>,
           conflict' = conflict \/ conflict' = <<>>,
           NEW n \in Nat, n <= LevelOf(trail), trail' = Cancelled(trail, n)
    PROVE  /\ KindsKnown' /\ ConflictStored' /\ UNCHANGED Abs!dbVars /\ Abs!CancelUntil(n)
           /\ Retains(trail, trail') /\ LevelOf(trail') = n /\ WellFormed(trail)
           /\ n \in 0..Abs!Level /\ assumptions \in Seq(Lits)
<1>1. PropInv /\ PropInv' /\ WellFormed(trail) /\ LevelOf(trail) \in Nat /\ assumptions \in Seq(Lits)
  BY SearchFacts DEF SearchInv, Core
<1>2. KindsKnown' /\ ConflictStored' /\ UNCHANGED Abs!dbVars /\ ReasonsStay
  BY Moving
<1>3. Abs!CancelUntil(n)
  BY <1>1, <1>2, CancelAbs
<1>4. Retains(trail, trail') /\ LevelOf(trail') = n
  <2>1. PICK u : u = trail' /\ u = Cancelled(trail, n)
    OBVIOUS
  <2>2. Retains(trail, u) /\ LevelOf(u) = (IF LevelOf(trail) <= n THEN LevelOf(trail) ELSE n)
    BY <1>1, <2>1, CutRetains
  <2> QED
    BY <1>1, <2>1, <2>2
<1>5. n \in 0..Abs!Level
  BY <1>1, AbsLengths
<1> QED
  BY <1>1, <1>2, <1>3, <1>4, <1>5

LEMMA CutGranted ==
    ASSUME WellFormed(trail), Retains(trail, trail'), NEW n \in Nat, LevelOf(trail') = n,
           NEW l \in Seq(Lits), NEW m \in Nat, Granted(trail, l, m), n <= m,
           NEW s \in Seq(Lits), \A j \in 1..n : j <= Len(s) => j <= Len(l) /\ s[j] = l[j]
    PROVE  Granted(trail', s, n)
<1>1. PICK t, u : t = trail /\ u = trail'
  OBVIOUS
<1>2. Granted(u, s, n)
  BY <1>1, GrantedStays
<1> QED
  BY <1>1, <1>2

\* Within a search, the trail is cut to level n.
LEMMA SearchCut ==
    ASSUME SearchInv, SearchInv', RefInv, UNCHANGED <<dbVars, clientVars>>,
           conflict' = conflict \/ conflict' = <<>>,
           NEW n \in Nat, n <= LevelOf(trail), trail' = Cancelled(trail, n),
           pc \in {"entry", "rebuild", "search", "learned"}, pc' \in {"idle", "rebuild", "boundary"},
           UNCHANGED <<assumptions, conflict_core>>
    PROVE  /\ RefInv' /\ AbsResolvent = {} /\ AbsResolvent' = {} /\ AbsPhase = "search"
           /\ AbsPhase' = (IF pc' = "idle" THEN "idle" ELSE "search")
           /\ UNCHANGED Abs!dbVars /\ Abs!CancelUntil(n) /\ n \in 0..Abs!Level
<1>1. /\ KindsKnown' /\ ConflictStored' /\ UNCHANGED Abs!dbVars /\ Abs!CancelUntil(n)
      /\ Retains(trail, trail') /\ LevelOf(trail') = n /\ WellFormed(trail)
      /\ n \in 0..Abs!Level /\ assumptions \in Seq(Lits)
  BY Cutting
<1>2. Granted(trail, assumptions, LevelOf(trail)) /\ LevelOf(trail) \in Nat
  BY SearchFacts DEF RefInv, OwnedLevels
<1>3. Granted(trail', assumptions', LevelOf(trail'))
  <2>1. Granted(trail', assumptions, n)
    BY <1>1, <1>2, CutGranted
  <2> QED
    BY <1>1, <2>1
<1>4. CoreClear'
  BY DEF RefInv, CoreClear
<1>5. AbsPhase = "search"
  BY PhasedNext DEF PhaseIs
<1>6. /\ RefInv' /\ AbsResolvent = {} /\ AbsResolvent' = {}
      /\ AbsPhase' = (IF pc' = "idle" THEN "idle" ELSE "search")
  BY <1>1, <1>3, <1>4, Searching
<1> QED
  BY <1>1, <1>5, <1>6

LEMMA RestartImplied ==
    ASSUME SearchInv, SearchInv', RefInv, Restart
    PROVE  Implied
<1>1. PICK first : first = Min({Len(assumptions), LevelOf(trail)})
  OBVIOUS
<1>2. LevelOf(trail) \in Nat /\ first \in Nat
  BY <1>1, SearchFacts, MinOfTwo
<1>3. PICK n \in {0} \cup (IF RESTART_REUSE THEN first..LevelOf(trail) ELSE {}) :
        trail' = Cancelled(trail, n)
  BY <1>1 DEF Restart
<1>4. /\ pc = "search" /\ pc' = "boundary" /\ UNCHANGED <<dbVars, clientVars>> /\ conflict' = conflict
      /\ UNCHANGED <<assumptions, query, base, conflict_core, answer, forced>>
  BY DEF Restart, Ready
<1>5. n \in Nat /\ n <= LevelOf(trail)
  BY <1>2, <1>3
<1>6. /\ RefInv' /\ AbsResolvent = {} /\ AbsResolvent' = {} /\ AbsPhase = "search"
      /\ AbsPhase' = (IF pc' = "idle" THEN "idle" ELSE "search")
      /\ UNCHANGED Abs!dbVars /\ Abs!CancelUntil(n) /\ n \in 0..Abs!Level
  BY <1>3, <1>4, <1>5, SearchCut
<1>7. UNCHANGED Abs!callVars /\ UNCHANGED Abs!resultVars
  BY <1>4 DEF Abs!callVars, Abs!resultVars
<1>8. Abs!Restart(n)
  BY <1>4, <1>6, <1>7 DEF Abs!Restart
<1> QED
  BY <1>6, <1>8 DEF Implied, AbsStep, Abs!Next, Abs!Manage

LEMMA RebuildImplied ==
    ASSUME SearchInv, SearchInv', RefInv, Rebuild
    PROVE  Implied
<1>1. /\ pc = "entry" /\ pc' = "rebuild" /\ UNCHANGED <<dbVars, clientVars>> /\ conflict' = <<>>
      /\ trail' = Cancelled(trail, 0) /\ LevelOf(trail) \in Nat
      /\ UNCHANGED <<assumptions, query, base, conflict_core, answer, forced>>
  BY SearchFacts DEF Rebuild, callVars
<1>2. /\ RefInv' /\ AbsResolvent = {} /\ AbsResolvent' = {} /\ AbsPhase = "search"
      /\ AbsPhase' = (IF pc' = "idle" THEN "idle" ELSE "search")
      /\ UNCHANGED Abs!dbVars /\ Abs!CancelUntil(0) /\ 0 \in 0..Abs!Level
  BY <1>1, SearchCut
<1>3. UNCHANGED Abs!callVars /\ UNCHANGED Abs!resultVars
  BY <1>1 DEF Abs!callVars, Abs!resultVars
<1>4. Abs!Restart(0)
  BY <1>1, <1>2, <1>3 DEF Abs!Restart
<1> QED
  BY <1>2, <1>4 DEF Implied, AbsStep, Abs!Next, Abs!Manage

LEMMA StopImplied ==
    ASSUME SearchInv, SearchInv', RefInv, Stop
    PROVE  Implied
<1>1. /\ pc = "learned" /\ pc' = "idle" /\ UNCHANGED <<dbVars, clientVars>> /\ conflict' = conflict
      /\ trail' = Cancelled(trail, 0) /\ LevelOf(trail) \in Nat /\ answer' = "stopped"
      /\ UNCHANGED <<assumptions, query, base, conflict_core, forced>>
  BY SearchFacts DEF Stop, Return
<1>2. /\ RefInv' /\ AbsResolvent = {} /\ AbsResolvent' = {} /\ AbsPhase = "search"
      /\ AbsPhase' = (IF pc' = "idle" THEN "idle" ELSE "search")
      /\ UNCHANGED Abs!dbVars /\ Abs!CancelUntil(0) /\ 0 \in 0..Abs!Level
  BY <1>1, SearchCut
<1>3. Abs!Stop
  BY <1>1, <1>2 DEF Abs!Stop, Abs!callVars
<1> QED
  BY <1>2, <1>3 DEF Implied, AbsStep, Abs!Next, Abs!Manage

LEMMA KeptPrefix ==
    ASSUME SearchInv, NEW s \in Seq(Lits), NEW n, n = Min({SharedLen(s, assumptions), LevelOf(trail)})
    PROVE  /\ n \in Nat /\ n <= LevelOf(trail) /\ n <= Len(s) /\ n <= Len(assumptions)
           /\ \A k \in 1..n : s[k] = assumptions[k]
<1>1. PICK m : m = SharedLen(s, assumptions)
  OBVIOUS
<1>2. assumptions \in Seq(Lits) /\ LevelOf(trail) \in Nat
  BY SearchFacts
<1>3. m \in Nat /\ m <= Len(s) /\ m <= Len(assumptions) /\ \A k \in 1..m : s[k] = assumptions[k]
  BY <1>1, <1>2, SharedPrefix
<1>4. n \in Nat /\ n <= m /\ n <= LevelOf(trail)
  BY <1>1, <1>2, <1>3, MinOfTwo
<1>5. PICK p : p = Len(s)
  OBVIOUS
<1>6. PICK q : q = Len(assumptions)
  OBVIOUS
<1>7. p \in Nat /\ q \in Nat
  BY <1>2, <1>5, <1>6
<1>8. m <= p /\ m <= q
  BY <1>3, <1>5, <1>6
<1>9. n <= p /\ n <= q
  BY <1>3, <1>4, <1>7, <1>8
<1>10. \A k \in 1..n : k \in 1..m
  BY <1>3, <1>4
<1>11. \A k \in 1..n : s[k] = assumptions[k]
  BY <1>3, <1>10
<1> QED
  BY <1>4, <1>5, <1>6, <1>9, <1>11

LEMMA SolveImplied ==
    ASSUME SearchInv, SearchInv', RefInv, NEW asked \in AssumptionLists, Solve(asked)
    PROVE  Implied
<1>1. /\ pc = "idle" /\ pc' = "entry" /\ ~dead /\ query' = asked /\ forced' = {} /\ answer' = "none"
      /\ trail' = Cancelled(trail, KeptLevel(asked)) /\ assumptions' = asked /\ conflict_core' = {}
      /\ UNCHANGED <<dbVars, clientVars>> /\ conflict' = conflict /\ base' = base
  BY DEF Solve, MayAsk, MayCall, Ask
<1>2. asked \in Seq(Lits) /\ assumptions \in Seq(Lits) /\ LevelOf(trail) \in Nat
  BY SearchFacts, SolverAssumption
<1>3. PICK n : n = KeptLevel(asked)
  OBVIOUS
<1>4. /\ n \in Nat /\ n <= LevelOf(trail)
      /\ asked = assumptions \/ (n <= Len(asked) /\ n <= Len(assumptions)
                                 /\ \A k \in 1..n : asked[k] = assumptions[k])
  <2>1. CASE ~trail_reusable
    <3>1. n = 0
      BY <1>3, <2>1 DEF KeptLevel
    <3> QED
      BY <1>2, <3>1
  <2>2. CASE trail_reusable /\ asked = assumptions
    BY <1>2, <1>3, <2>2 DEF KeptLevel
  <2>3. CASE trail_reusable /\ asked # assumptions
    <3>1. n = Min({SharedLen(asked, assumptions), LevelOf(trail)})
      BY <1>3, <2>3 DEF KeptLevel
    <3> QED
      BY <1>2, <3>1, KeptPrefix
  <2> QED
    BY <2>1, <2>2, <2>3
<1>5. /\ KindsKnown' /\ ConflictStored' /\ UNCHANGED Abs!dbVars /\ Abs!CancelUntil(n)
      /\ Retains(trail, trail') /\ LevelOf(trail') = n /\ WellFormed(trail)
      /\ n \in 0..Abs!Level
  BY <1>1, <1>3, <1>4, Cutting
<1>6. Granted(trail, assumptions, LevelOf(trail))
  BY <1>1 DEF RefInv, OwnedLevels
<1>7. Granted(trail', assumptions', LevelOf(trail'))
  <2>1. \A j \in 1..n : j <= Len(asked) => j <= Len(assumptions) /\ asked[j] = assumptions[j]
    BY <1>2, <1>4
  <2>2. Granted(trail', asked, n)
    BY <1>2, <1>4, <1>5, <1>6, <2>1, CutGranted
  <2> QED
    BY <1>1, <1>5, <2>2
<1>8. CoreClear'
  BY <1>1 DEF CoreClear
<1>9. /\ RefInv' /\ AbsResolvent = {} /\ AbsResolvent' = {}
      /\ AbsPhase' = (IF pc' = "idle" THEN "idle" ELSE "search")
  BY <1>1, <1>5, <1>7, <1>8, Searching
<1>10. AbsPhase = "idle"
  BY <1>1, PhasedNext DEF PhaseIs
<1>11. Abs!Shared(asked, n) \/ asked = assumptions
  BY <1>4 DEF Abs!Shared
<1>12. Abs!Solve(asked)
  BY <1>1, <1>5, <1>9, <1>10, <1>11 DEF Abs!Solve
<1> QED
  BY <1>9, <1>12 DEF Implied, AbsStep, Abs!Next, Abs!Call

LEMMA ProbeImplied ==
    ASSUME SearchInv, SearchInv', RefInv, NEW asked \in AssumptionLists, Probe(asked)
    PROVE  Implied
<1>1. PICK n : n = IF trail_reusable THEN Min({SharedLen(asked, assumptions), LevelOf(trail)}) ELSE 0
  OBVIOUS
<1>2. /\ pc = "idle" /\ pc' = "probe" /\ ~dead /\ query' = asked /\ forced' = {} /\ answer' = "none"
      /\ trail' = Cancelled(trail, n) /\ base' = n /\ at' = n + 1
      /\ UNCHANGED <<dbVars, clientVars>> /\ conflict' = conflict
      /\ UNCHANGED <<assumptions, conflict_core>>
  BY <1>1 DEF Probe, MayAsk, MayCall, Ask
<1>3. asked \in Seq(Lits) /\ assumptions \in Seq(Lits) /\ LevelOf(trail) \in Nat
  BY SearchFacts, SolverAssumption
<1>4. /\ n \in Nat /\ n <= LevelOf(trail) /\ n <= Len(asked) /\ n <= Len(assumptions)
      /\ \A k \in 1..n : asked[k] = assumptions[k]
  <2>1. CASE ~trail_reusable
    BY <1>1, <1>3, <2>1
  <2>2. CASE trail_reusable
    BY <1>1, <1>3, <2>2, KeptPrefix
  <2> QED
    BY <2>1, <2>2
<1>5. /\ KindsKnown' /\ ConflictStored' /\ UNCHANGED Abs!dbVars /\ Abs!CancelUntil(n)
      /\ Retains(trail, trail') /\ LevelOf(trail') = n /\ WellFormed(trail)
      /\ n \in 0..Abs!Level
  BY <1>2, <1>4, Cutting
<1>6. Granted(trail, assumptions, LevelOf(trail))
  BY <1>2 DEF RefInv, OwnedLevels
<1>7. Granted(trail', assumptions, n) /\ Granted(trail', asked, n)
  <2>1. \A j \in 1..n : j <= Len(asked) => j <= Len(assumptions) /\ asked[j] = assumptions[j]
    BY <1>3, <1>4
  <2> QED
    BY <1>3, <1>4, <1>5, <1>6, <2>1, CutGranted
<1>8. Granted(trail', assumptions', OwnedLevels')
  BY <1>2, <1>7 DEF OwnedLevels
<1>9. ProbeGranted'
  <2>1. \A k \in 1..n : k <= Len(asked) => IsTrue(trail', asked[k])
    BY <1>7 DEF Granted
  <2>2. at' - 1 = n /\ base' <= LevelOf(trail')
    BY <1>2, <1>4, <1>5
  <2>3. \A k \in 1..(at' - 1) : k <= Len(query') => IsTrue(trail', query'[k])
    BY <1>2, <2>1, <2>2
  <2> QED
    BY <2>2, <2>3 DEF ProbeGranted
<1>10. CoreClear' /\ Blames'
  BY <1>2 DEF CoreClear, Blames
<1>11. AbsResolvent = {} /\ AbsResolvent' = {} /\ AnalyzeRef'
  BY <1>2, NoResolvent, NoResolventNext
<1>12. AbsPhase = "idle" /\ AbsPhase' = "probe"
  BY <1>2, PhasedNext DEF PhaseIs
<1>13. Abs!Shared(asked, n)
  BY <1>4 DEF Abs!Shared
<1>14. Abs!Probe(asked)
  BY <1>2, <1>5, <1>11, <1>12, <1>13 DEF Abs!Probe
<1> QED
  BY <1>5, <1>8, <1>9, <1>10, <1>11, <1>14 DEF Implied, AbsStep, RefInv, Abs!Next, Abs!Call

\* What propagate returned is falsified, seen from Cdcl.
LEMMA ConflictAbs ==
    ASSUME SearchInv, RefInv, conflict # <<>>
    PROVE  ToSet(conflict) \in Abs!Db /\ Abs!Falsified(ToSet(conflict))
<1>1. PropInv /\ ConflictRight
  BY SearchFacts
<1>2. ToSet(conflict) \in StoredClauses
  BY DEF RefInv, ConflictStored
<1>3. ToSet(conflict) \in Abs!Db
  BY <1>2, AbsDb DEF RefInv
<1>4. Falsified(trail, conflict)
  BY <1>1 DEF ConflictRight
<1>5. PICK c : c = ToSet(conflict) /\ c \subseteq Lits
  BY <1>1, <1>2, StoredLits
<1>6. \A l \in c : IsFalse(trail, l)
  BY <1>4, <1>5 DEF Falsified
<1>7. Abs!Falsified(c)
  BY <1>1, <1>5, <1>6, AbsClause
<1> QED
  BY <1>3, <1>5, <1>7

\* A probe returns to a level it may keep.
LEMMA ProbeCut ==
    ASSUME SearchInv, SearchInv', RefInv, pc = "probe", pc' = "idle",
           UNCHANGED <<dbVars, clientVars>>, conflict' = conflict \/ conflict' = <<>>,
           NEW n \in Nat, n <= base, trail' = Cancelled(trail, n), UNCHANGED assumptions
    PROVE  /\ RefInv' /\ AbsResolvent = {} /\ AbsResolvent' = {} /\ AbsPhase = "probe"
           /\ AbsPhase' = "idle" /\ UNCHANGED Abs!dbVars /\ Abs!CancelUntil(n)
           /\ n \in 0..Abs!Level
<1>1. base \in Nat /\ LevelOf(trail) \in Nat /\ base <= LevelOf(trail)
  BY SearchFacts DEF RefInv, ProbeGranted
<1>2. n <= LevelOf(trail)
  BY <1>1
<1>3. /\ KindsKnown' /\ ConflictStored' /\ UNCHANGED Abs!dbVars /\ Abs!CancelUntil(n)
      /\ Retains(trail, trail') /\ LevelOf(trail') = n /\ WellFormed(trail)
      /\ n \in 0..Abs!Level /\ assumptions \in Seq(Lits)
  BY <1>2, Cutting
<1>4. Granted(trail, assumptions, base)
  BY DEF RefInv, OwnedLevels
<1>5. Granted(trail', assumptions, n)
  BY <1>1, <1>3, <1>4, CutGranted
<1>6. Granted(trail', assumptions', LevelOf(trail'))
  BY <1>3, <1>5
<1>7. CoreClear'
  BY DEF CoreClear
<1>8. AbsPhase = "probe"
  BY PhasedNext DEF PhaseIs
<1>9. RefInv' /\ AbsResolvent = {} /\ AbsResolvent' = {} /\ AbsPhase' = "idle"
  BY <1>3, <1>6, <1>7, Searching
<1> QED
  BY <1>3, <1>8, <1>9

LEMMA ProbeConflictImplied ==
    ASSUME SearchInv, SearchInv', RefInv, ProbeConflict
    PROVE  Implied
<1>1. /\ pc = "probe" /\ pc' = "idle" /\ conflict # <<>> /\ conflict' = <<>> /\ base' = 0
      /\ trail' = Cancelled(trail, base) /\ answer' = "refuted"
      /\ UNCHANGED <<dbVars, clientVars, assumptions, query, conflict_core, forced>>
  BY DEF ProbeConflict, EndProbe, Return
<1>2. base \in Nat /\ base <= base
  BY SearchFacts
<1>3. /\ RefInv' /\ AbsResolvent = {} /\ AbsResolvent' = {} /\ AbsPhase = "probe"
      /\ AbsPhase' = "idle" /\ UNCHANGED Abs!dbVars /\ Abs!CancelUntil(base)
      /\ base \in 0..Abs!Level
  BY <1>1, <1>2, ProbeCut
<1>4. ToSet(conflict) \in Abs!Db /\ Abs!Falsified(ToSet(conflict))
  BY <1>1, ConflictAbs
<1>5. Abs!ProbeRefuted(base)
  BY <1>1, <1>2, <1>3, <1>4 DEF Abs!ProbeRefuted
<1> QED
  BY <1>3, <1>5 DEF Implied, AbsStep, Abs!Next, Abs!ProbeStep

LEMMA ProbePrefixImplied ==
    ASSUME SearchInv, SearchInv', RefInv, ProbePrefixConflict
    PROVE  Implied
<1>1. /\ pc = "probe" /\ pc' = "idle" /\ conflict # <<>> /\ conflict' = <<>> /\ base' = 0
      /\ trail' = Cancelled(trail, 0) /\ answer' = "refuted"
      /\ UNCHANGED <<dbVars, clientVars, assumptions, query, conflict_core, forced>>
  BY DEF ProbePrefixConflict, EndProbe, Return
<1>2. 0 \in Nat /\ 0 <= base
  BY SearchFacts
<1>3. /\ RefInv' /\ AbsResolvent = {} /\ AbsResolvent' = {} /\ AbsPhase = "probe"
      /\ AbsPhase' = "idle" /\ UNCHANGED Abs!dbVars /\ Abs!CancelUntil(0)
      /\ 0 \in 0..Abs!Level
  BY <1>1, <1>2, ProbeCut
<1>4. ToSet(conflict) \in Abs!Db /\ Abs!Falsified(ToSet(conflict))
  BY <1>1, ConflictAbs
<1>5. Abs!ProbeRefuted(0)
  BY <1>1, <1>2, <1>3, <1>4 DEF Abs!ProbeRefuted
<1> QED
  BY <1>3, <1>5 DEF Implied, AbsStep, Abs!Next, Abs!ProbeStep

LEMMA ProbeFalseImplied ==
    ASSUME SearchInv, SearchInv', RefInv, ProbeFalse
    PROVE  Implied
<1>1. /\ pc = "probe" /\ pc' = "idle" /\ conflict' = conflict /\ base' = 0
      /\ trail' = Cancelled(trail, base) /\ answer' = "refuted"
      /\ UNCHANGED <<dbVars, clientVars, assumptions, query, conflict_core, forced>>
      /\ at <= Len(query) /\ IsFalse(trail, query[at])
  BY DEF ProbeFalse, Probing, EndProbe, Return
<1>2. base \in Nat /\ base <= base /\ PropInv
  BY SearchFacts
<1>3. /\ RefInv' /\ AbsResolvent = {} /\ AbsResolvent' = {} /\ AbsPhase = "probe"
      /\ AbsPhase' = "idle" /\ UNCHANGED Abs!dbVars /\ Abs!CancelUntil(base)
      /\ base \in 0..Abs!Level
  BY <1>1, <1>2, ProbeCut
<1>4. at \in DOMAIN query /\ query[at] \in Lits
  <2>1. query \in Seq(Lits) /\ at \in Nat /\ at >= 1
    BY <1>1, SearchFacts DEF SearchInv, Levelled
  <2> QED
    BY <1>1, <2>1
<1>5. Abs!False(query[at])
  BY <1>1, <1>2, <1>4, AbsTruth
<1>6. \E k \in DOMAIN query : Abs!False(query[k])
  BY <1>4, <1>5
<1>7. Abs!ProbeRefuted(base)
  BY <1>1, <1>2, <1>3, <1>6 DEF Abs!ProbeRefuted
<1> QED
  BY <1>3, <1>7 DEF Implied, AbsStep, Abs!Next, Abs!ProbeStep

LEMMA ProbeReadImplied ==
    ASSUME SearchInv, SearchInv', RefInv, ProbeRead
    PROVE  Implied
<1>1. /\ pc = "probe" /\ pc' = "idle" /\ conflict' = conflict /\ base' = 0
      /\ trail' = Cancelled(trail, base) /\ answer' = "forced" /\ forced' = ToSet(trail.lits)
      /\ UNCHANGED <<dbVars, clientVars, assumptions, query, conflict_core>>
      /\ at > Len(query) /\ Quiet
  BY DEF ProbeRead, EndProbe, Return
<1>2. base \in Nat /\ base <= base /\ PropInv
  BY SearchFacts
<1>3. /\ RefInv' /\ AbsResolvent = {} /\ AbsResolvent' = {} /\ AbsPhase = "probe"
      /\ AbsPhase' = "idle" /\ UNCHANGED Abs!dbVars /\ Abs!CancelUntil(base)
      /\ base \in 0..Abs!Level
  BY <1>1, <1>2, ProbeCut
<1>4. Abs!Fixpoint
  BY <1>1, <1>2, AbsFixpoint DEF RefInv
<1>5. \A k \in DOMAIN query : Abs!True(query[k])
  <2>1. PICK p : p = Len(query)
    OBVIOUS
  <2>2. p \in Nat /\ at \in Nat /\ DOMAIN query = 1..p /\ \A k \in 1..p : query[k] \in Lits
    BY <2>1, SearchFacts
  <2>3. at > p
    BY <1>1, <2>1
  <2>4. \A k \in 1..p : k \in 1..(at - 1) /\ k <= p
    BY <2>2, <2>3
  <2>5. \A k \in 1..p : IsTrue(trail, query[k])
    BY <1>1, <2>1, <2>4 DEF RefInv, ProbeGranted
  <2> QED
    BY <1>2, <2>2, <2>5, AbsTruth
<1>6. forced' = {AbsTrail[i].lit : i \in DOMAIN AbsTrail}
  <2>1. PICK a, t, A : a = AbsTrail /\ t = trail /\ A = arena /\ Views(a, t, A)
    BY <1>2, View DEF Viewed
  <2>2. DOMAIN a = 1..Len(t.lits) /\ \A i \in 1..Len(t.lits) : a[i].lit = t.lits[i]
    BY <2>1 DEF Views
  <2>3. WellFormed(t)
    BY <2>1, SearchFacts
  <2>4. DOMAIN t.lits = 1..Len(t.lits)
    BY <2>3, TrailParts DEF WellFormed
  <2> QED
    BY <1>1, <2>1, <2>2, <2>4 DEF ToSet
<1>7. Abs!ProbeRead
  BY <1>1, <1>3, <1>4, <1>5, <1>6 DEF Abs!ProbeRead
<1> QED
  BY <1>3, <1>7 DEF Implied, AbsStep, Abs!Next, Abs!ProbeStep

\* The two calls that end in a conflict at the root.
LEMMA RootConflictAbs ==
    ASSUME SearchInv, RefInv, RootConflict
    PROVE  AbsStep
<1>1. /\ pc \in {"entry", "rebuild", "search"} /\ pc' = "idle" /\ conflict # <<>>
      /\ LevelOf(trail) = 0 /\ answer' = "unsat" /\ UNCHANGED analyzeVars
      /\ UNCHANGED <<trail, dbVars, clientVars, assumptions, query, base, conflict_core, forced>>
  BY DEF RootConflict, ReturnRefuted, Return
<1>2. PropInv
  BY SearchFacts
<1>3. ToSet(conflict) \in Abs!Db /\ Abs!Falsified(ToSet(conflict))
  BY <1>1, ConflictAbs
<1>4. UNCHANGED Abs!dbVars /\ UNCHANGED Abs!trailVars /\ UNCHANGED Abs!callVars
  BY <1>1, AbsDbSame, AbsTrailSame, AbsCallsSame DEF dbVars
<1>5. AbsPhase = "search" /\ AbsPhase' = "idle"
  BY <1>1, PhasedNext DEF PhaseIs
<1>6. AbsResolvent = {} /\ AbsResolvent' = {}
  <2>1. AbsResolvent = {} /\ step \in {"none", "blame"}
    BY <1>1, NoResolvent
  <2>2. step' \in {"none", "blame"}
    BY <1>1, <2>1 DEF analyzeVars
  <2> QED
    BY <2>1, <2>2 DEF AbsResolvent
<1>7. Abs!Level = 0
  BY <1>1, <1>2, AbsLengths
<1>8. Abs!RootConflict(ToSet(conflict))
  BY <1>1, <1>3, <1>4, <1>5, <1>6, <1>7 DEF Abs!RootConflict
<1> QED
  BY <1>3, <1>8 DEF AbsStep, Abs!Next, Abs!Deduce

LEMMA ProbeRootAbs ==
    ASSUME SearchInv, RefInv, ProbePrefixConflict, base = 0
    PROVE  AbsStep
<1>1. /\ pc = "probe" /\ pc' = "idle" /\ conflict # <<>> /\ base' = 0
      /\ LevelOf(trail) = 0 /\ trail' = Cancelled(trail, 0) /\ answer' = "refuted"
      /\ UNCHANGED analyzeVars
      /\ UNCHANGED <<dbVars, clientVars, assumptions, query, conflict_core, forced>>
  BY DEF ProbePrefixConflict, EndProbe, Return
<1>2. PropInv /\ trail' = trail
  BY <1>1, SearchFacts DEF Cancelled
<1>3. ToSet(conflict) \in Abs!Db /\ Abs!Falsified(ToSet(conflict))
  BY <1>1, ConflictAbs
<1>4. UNCHANGED Abs!dbVars /\ UNCHANGED Abs!trailVars
  BY <1>1, <1>2, AbsDbSame, AbsTrailSame DEF dbVars
<1>5. AbsPhase = "probe" /\ AbsPhase' = "idle"
  BY <1>1, PhasedNext DEF PhaseIs
<1>6. AbsResolvent = {} /\ AbsResolvent' = {}
  <2>1. AbsResolvent = {} /\ step \in {"none", "blame"}
    BY <1>1, NoResolvent
  <2>2. step' \in {"none", "blame"}
    BY <1>1, <2>1 DEF analyzeVars
  <2> QED
    BY <2>1, <2>2 DEF AbsResolvent
<1>7. Abs!Level = 0 /\ 0 \in 0..Abs!Level
  BY <1>1, <1>2, AbsLengths
<1>8. Abs!CancelUntil(0)
  <2>1. PICK a, m : a = AbsTrail /\ m = trail.lim /\ a \in Seq([lit : Lits, level : Nat, reason : Clauses])
                    /\ m \in Seq(Nat) /\ Len(m) = 0
    <3>1. PICK a, t, A : a = AbsTrail /\ t = trail /\ A = arena /\ Views(a, t, A)
      BY <1>2, View DEF Viewed
    <3>2. t.lim \in Seq(Nat) /\ Len(t.lim) = 0
      BY <1>1, <3>1, SearchFacts, TrailParts DEF WellFormed, LevelOf
    <3> QED
      BY <3>1, <3>2 DEF Views
  <2>2. Abs!Kept(0) = SubSeq(a, 1, Len(a)) /\ Abs!KeptLim(0) = SubSeq(m, 1, 0)
    BY <1>7, <2>1 DEF Abs!Kept, Abs!Cut, Abs!KeptLim
  <2>3. SubSeq(m, 1, 0) = m
    BY <2>1
  <2>4. SubSeq(a, 1, Len(a)) = a
    <3>1. PICK E : E = [lit : Lits, level : Nat, reason : Clauses]
      OBVIOUS
    <3>2. a \in Seq(E)
      BY <2>1, <3>1
    <3> QED
      BY <3>2
  <2>5. AbsTrail' = AbsTrail /\ trail'.lim = trail.lim
    BY <1>4 DEF Abs!trailVars
  <2> QED
    BY <2>1, <2>2, <2>3, <2>4, <2>5 DEF Abs!CancelUntil
<1>9. Abs!ProbeRefuted(0)
  BY <1>1, <1>3, <1>4, <1>5, <1>6, <1>8 DEF Abs!ProbeRefuted
<1> QED
  BY <1>7, <1>9 DEF AbsStep, Abs!Next, Abs!ProbeStep

\* No clause changes its kind.
SameKinds == \A d \in Crefs : arena'[d].kind = arena[d].kind

\* The clauses are the same, seen from Cdcl.
LEMMA SameDb ==
    ASSUME SameClauses, SameKinds, UNCHANGED clientVars
    PROVE  /\ UNCHANGED Abs!dbVars /\ StoredClauses' = StoredClauses
           /\ KindsKnown => KindsKnown'
<1>1. /\ Crefs' = Crefs /\ binaries' = binaries /\ learntBins' = learntBins
      /\ \A d \in Crefs : Live(d)' <=> Live(d)
      /\ \A d \in Crefs : Live(d) => ToSet(Body(d)') = ToSet(Body(d))
  BY DEF SameClauses
<1>2. KindsKnown => KindsKnown'
  BY <1>1 DEF KindsKnown, SameKinds
<1>3. \A k : OfKind(k)' = OfKind(k)
  BY <1>1 DEF OfKind, SameKinds
<1>4. \A k : LongClauses(k)' = LongClauses(k)
  BY <1>1, <1>3 DEF LongClauses, OfKind
<1>5. StoredClauses' = StoredClauses
  BY <1>1 DEF StoredClauses
<1>6. UNCHANGED Abs!dbVars
  BY <1>1, <1>4 DEF Abs!dbVars, clientVars
<1> QED
  BY <1>2, <1>5, <1>6

\* A unit clause's literal is enqueued.
UnitStep(c, l, r) ==
    /\ c \in StoredClauses /\ l \in c /\ IsUndef(trail, l)
    /\ \A q \in c \ {l} : IsFalse(trail, q)
    /\ r \in Reasons /\ trail' = Enqueued(trail, l, r)
    /\ ReasonSet(trail', arena', l) = c

\* Nothing but the cursor of the trail moves.
SameTrail == trail'.lits = trail.lits /\ trail'.info = trail.info /\ trail'.lim = trail.lim

\* What a step of propagation can do.
Moves ==
    /\ SameClauses /\ SameKinds
    /\ conflict' # <<>> => ToSet(conflict') \in StoredClauses
    /\ SameTrail \/ \E c, l, r : UnitStep(c, l, r)

LEMMA ClausesStand ==
    ASSUME PropInv, UNCHANGED <<arena, binaries, learntBins>>
    PROVE  SameClauses /\ SameKinds
<1>1. SameClauses
  BY Unmoved
<1> QED
  BY <1>1 DEF SameKinds

LEMMA VisitBinaryMoves ==
    ASSUME PropInv, VisitBinary
    PROVE  Moves
<1>1. PICK w, q, v : w = Current /\ q = w.blocker /\ v = visit.lit
  OBVIOUS
<1>2. Busy /\ visit.rest # <<>> /\ UNCHANGED <<arena, binaries, learntBins>> /\ Binary(w)
  BY <1>1 DEF VisitBinary
<1>3. SameClauses /\ SameKinds
  BY <1>2, ClausesStand
<1>4. q \in Lits /\ {v, q} \in StoredClauses
  BY <1>1, <1>2, CurrentFacts DEF StoredClauses
<1>5. v \in Lits /\ v # 0 /\ IsFalse(trail, v) /\ conflict = <<>>
  BY <1>1, <1>2, BusyFacts, LitFacts
<1>6. \/ IsFalse(trail, q) /\ conflict' = <<v, q>> /\ trail' = trail
      \/ ~IsFalse(trail, q) /\ conflict' = conflict
         /\ trail' = IF IsTrue(trail, q) THEN trail ELSE Enqueued(trail, q, ByBinary(v))
  BY <1>1 DEF VisitBinary, Refute
<1>7. CASE IsFalse(trail, q) /\ conflict' = <<v, q>> /\ trail' = trail
  <2>1. ToSet(<<v, q>>) = {v, q}
    BY DEF ToSet
  <2> QED
    BY <1>3, <1>4, <1>7, <2>1 DEF Moves, SameTrail
<1>8. CASE trail' = trail /\ conflict' = conflict
  BY <1>3, <1>5, <1>8 DEF Moves, SameTrail
<1>9. CASE /\ IsUndef(trail, q) /\ conflict' = conflict
           /\ trail' = Enqueued(trail, q, ByBinary(v))
  <2>1. PICK r : r = ByBinary(v)
    OBVIOUS
  <2>2. r \in Reasons /\ r # Decision /\ r.cref = 0 /\ r.other = v
    BY <1>5, <2>1 DEF ByBinary, Reasons, Decision
  <2>3. trail \in TrailType
    BY TypedDb DEF WellFormed
  <2>4. PICK u, A : u = trail' /\ A = arena' /\ u = Enqueued(trail, q, r)
    BY <1>9, <2>1
  <2>5. ReasonOf(u, q) = r
    BY <1>4, <2>2, <2>3, <2>4, EnqueuedFacts
  <2>6. ReasonSet(u, A, q) = {v, q}
    BY <2>2, <2>5 DEF ReasonSet
  <2>7. \A x \in {v, q} \ {q} : IsFalse(trail, x)
    BY <1>5
  <2>8. UnitStep({v, q}, q, r)
    BY <1>4, <1>9, <2>2, <2>4, <2>6, <2>7 DEF UnitStep
  <2> QED
    BY <1>3, <1>5, <1>9, <2>8 DEF Moves
<1> QED
  BY <1>6, <1>7, <1>8, <1>9 DEF IsUndef

\* The clause under visit is stored in another order.
LEMMA Reordered ==
    ASSUME PropInv, NEW c \in Crefs, Live(c), NEW s \in Seq(Lits), Len(s) = Len(Body(c)),
           ToSet(s) = ToSet(Body(c)), IsInjective(s), s = Body(c) \/ ~IsTrue(trail, Body(c)[1]),
           arena' = [arena EXCEPT ![c].lits = s], UNCHANGED <<binaries, learntBins>>
    PROVE  SameClauses /\ SameKinds
<1>1. SameClauses
  BY Rearranged
<1>2. SameKinds
  <2>1. PICK E : E = [lits : Seq(Lits), kind : Kinds, lbd : Nat]
    OBVIOUS
  <2>2. arena \in Seq(E)
    BY <2>1, TypedDb DEF DbTyped
  <2>3. SUFFICES ASSUME NEW d \in Crefs
                 PROVE  arena'[d].kind = arena[d].kind
    BY DEF SameKinds
  <2>4. arena[d] \in E /\ arena[c] \in E
    BY <2>2 DEF Crefs
  <2>5. arena'[d] = IF d = c THEN [arena[c] EXCEPT !.lits = s] ELSE arena[d]
    BY <2>2 DEF Crefs
  <2> QED
    BY <2>1, <2>4, <2>5
<1> QED
  BY <1>1, <1>2

LEMMA VisitLongMoves ==
    ASSUME PropInv, VisitLong
    PROVE  Moves
<1>1. PICK c, s, v, w : c = Current.cref /\ s = Oriented(c) /\ v = visit.lit /\ w = Watcher(c, s[1])
  OBVIOUS
<1>2. /\ Busy /\ visit.rest # <<>> /\ ~Binary(Current) /\ UNCHANGED <<binaries, learntBins>>
  BY DEF VisitLong, AtLong
<1>3. c \in Crefs /\ Live(c) /\ v \in {Body(c)[1], Body(c)[2]} /\ c \in Nat /\ c # 0
  <2>1. c \in Crefs /\ Live(c) /\ v \in {Body(c)[1], Body(c)[2]}
    BY <1>1, <1>2, CurrentFacts
  <2> QED
    BY <2>1, BodyFacts DEF PropInv
<1>4. PICK n \in Nat :
      /\ n = Len(s) /\ n >= 3 /\ s \in Seq(Lits) /\ n = Len(Body(c))
      /\ IsInjective(s) /\ ToSet(s) = ToSet(Body(c))
      /\ s[2] = v /\ s[1] \in Lits
      /\ s = Body(c) \/ ~IsTrue(trail, Body(c)[1])
      /\ Body(c)[1] = s[1] \/ Body(c)[1] = s[2]
  BY <1>1, <1>2, <1>3, OrientedFacts
<1>5. IsFalse(trail, v) /\ ~IsTrue(trail, v) /\ conflict = <<>> /\ trail \in TrailType
  <2>1. IsFalse(trail, v) /\ conflict = <<>> /\ v \in Lits /\ WellFormed(trail)
    BY <1>1, <1>2, BusyFacts
  <2> QED
    BY <2>1, TruthFacts DEF WellFormed
<1>6. ToSet(s) \in StoredClauses
  BY <1>3, <1>4 DEF StoredClauses
<1>7. \/ arena' = [arena EXCEPT ![c].lits = s] /\ trail' = trail /\ conflict' = conflict
      \/ /\ ~IsTrue(trail, s[1]) /\ trail' = trail /\ conflict' = conflict
         /\ \E k \in Replacements(s) : arena' = [arena EXCEPT ![c].lits = Swapped(s, 2, k)]
      \/ /\ IsUndef(trail, s[1]) /\ Replacements(s) = {} /\ conflict' = conflict
         /\ arena' = [arena EXCEPT ![c].lits = s] /\ trail' = Enqueued(trail, s[1], ByClause(c))
      \/ /\ arena' = [arena EXCEPT ![c].lits = s] /\ trail' = trail /\ conflict' = s
  BY <1>1 DEF VisitLong, Refute
<1>8. ASSUME arena' = [arena EXCEPT ![c].lits = s]
      PROVE  SameClauses /\ SameKinds
  BY <1>2, <1>3, <1>4, <1>8, Reordered
<1>9. CASE arena' = [arena EXCEPT ![c].lits = s] /\ trail' = trail /\ conflict' = conflict
  BY <1>5, <1>8, <1>9 DEF Moves, SameTrail
<1>10. CASE arena' = [arena EXCEPT ![c].lits = s] /\ trail' = trail /\ conflict' = s
  BY <1>6, <1>8, <1>10 DEF Moves, SameTrail
<1>11. CASE /\ ~IsTrue(trail, s[1]) /\ trail' = trail /\ conflict' = conflict
            /\ \E k \in Replacements(s) : arena' = [arena EXCEPT ![c].lits = Swapped(s, 2, k)]
  <2>1. PICK k \in Replacements(s) : arena' = [arena EXCEPT ![c].lits = Swapped(s, 2, k)]
    BY <1>11
  <2>2. k \in 3..n
    BY <1>4, ReplacementFacts
  <2>3. 2 \in 1..Len(s) /\ k \in 1..Len(s)
    BY <1>4, <2>2
  <2>4. PICK z : z = Swapped(s, 2, k) /\ IsSwap(z, s, 2, k)
    BY <1>4, <2>3, SwapLits
  <2>5. z \in Seq(Lits) /\ Len(z) = Len(Body(c)) /\ ToSet(z) = ToSet(Body(c)) /\ IsInjective(z)
    BY <1>4, <2>4 DEF IsSwap
  <2>6. ~IsTrue(trail, Body(c)[1])
    BY <1>4, <1>5, <1>11
  <2>7. SameClauses /\ SameKinds
    BY <1>2, <1>3, <2>1, <2>4, <2>5, <2>6, Reordered
  <2> QED
    BY <1>5, <1>11, <2>7 DEF Moves, SameTrail
<1>12. CASE /\ IsUndef(trail, s[1]) /\ Replacements(s) = {} /\ conflict' = conflict
            /\ arena' = [arena EXCEPT ![c].lits = s] /\ trail' = Enqueued(trail, s[1], ByClause(c))
  <2>1. \A k \in 3..n : IsFalse(trail, s[k])
    <3> DEFINE free == {i \in 3..Len(s) : ~IsFalse(trail, s[i])}
    <3>1. Replacements(s) = IF Len(s) >= SEARCH_POS_MIN_LEN \/ free = {} THEN free ELSE {Min(free)}
      BY DEF Replacements
    <3> HIDE DEF free
    <3>2. free = {}
      BY <1>12, <3>1
    <3> QED
      BY <1>4, <3>2 DEF free
  <2>2. \A k \in 2..n : IsFalse(trail, s[k])
    <3> TAKE k \in 2..n
    <3>1. k = 2 \/ k \in 3..n
      BY <1>4
    <3> QED
      BY <1>4, <1>5, <2>1, <3>1
  <2>3. \A q \in ToSet(s) \ {s[1]} : IsFalse(trail, q)
    <3>1. SUFFICES ASSUME NEW q \in ToSet(s), q # s[1]
                   PROVE  IsFalse(trail, q)
      OBVIOUS
    <3>2. PICK k \in 1..n : s[k] = q
      BY <1>4, ToSetFacts, ZenonT(30)
    <3>3. k \in 2..n
      BY <1>4, <3>1, <3>2
    <3> QED
      BY <2>2, <3>2, <3>3
  <2>4. PICK r, l : r = ByClause(c) /\ l = s[1]
    OBVIOUS
  <2>5. r \in Reasons /\ r # Decision /\ r.cref = c
    BY <1>3, <2>4 DEF ByClause, Reasons, Decision
  <2>6. PICK u, A : u = trail' /\ A = arena' /\ u = Enqueued(trail, l, r)
    BY <1>12, <2>4
  <2>7. ReasonOf(u, l) = r
    BY <1>4, <1>5, <2>4, <2>5, <2>6, EnqueuedFacts
  <2>8. A[c].lits = s
    <3>1. PICK E : E = [lits : Seq(Lits), kind : Kinds, lbd : Nat]
      OBVIOUS
    <3>2. arena \in Seq(E) /\ A = [arena EXCEPT ![c].lits = s]
      BY <1>12, <2>6, <3>1, TypedDb DEF DbTyped
    <3>3. arena[c] \in E /\ A[c] = [arena[c] EXCEPT !.lits = s]
      BY <1>3, <3>2 DEF Crefs
    <3> QED
      BY <3>1, <3>3
  <2>9. ReasonSet(u, A, l) = ToSet(s)
    BY <1>3, <2>5, <2>7, <2>8 DEF ReasonSet
  <2>10. 1 \in 1..Len(s)
    BY <1>4
  <2>11. l \in ToSet(s)
    BY <1>4, <2>4, <2>10, ToSetFacts
  <2>12. UnitStep(ToSet(s), l, r)
    BY <1>6, <1>12, <2>3, <2>4, <2>5, <2>6, <2>9, <2>11 DEF UnitStep
  <2> QED
    BY <1>5, <1>8, <1>12, <2>12 DEF Moves
<1> QED
  BY <1>7, <1>9, <1>10, <1>11, <1>12

LEMMA PropagateMoves ==
    ASSUME PropInv, ConflictStored, propagate
    PROVE  Moves
<1>1. CASE Dequeue
  <2>1. UNCHANGED <<arena, binaries, learntBins>> /\ conflict' = <<>>
    BY <1>1 DEF Dequeue, dbVars
  <2>2. SameTrail
    <3>1. PICK u : u = trail' /\ u.lits = trail.lits /\ u.lim = trail.lim /\ u.info = trail.info
      BY <1>1, TypedDb, DequeueWellFormed DEF Dequeue
    <3> QED
      BY <3>1 DEF SameTrail
  <2> QED
    BY <2>1, <2>2, ClausesStand DEF Moves
<1>2. CASE EndVisit \/ VisitBlocked
  <2>1. UNCHANGED <<arena, binaries, learntBins>> /\ trail' = trail /\ conflict' = conflict
    BY <1>2 DEF EndVisit, VisitBlocked, dbVars
  <2> QED
    BY <2>1, ClausesStand DEF Moves, SameTrail, ConflictStored
<1> QED
  BY <1>1, <1>2, VisitBinaryMoves, VisitLongMoves DEF propagate

\* A step that keeps the level keeps what holds.
LEMMA LevelGranted ==
    ASSUME WellFormed(trail), Retains(trail, trail'), LevelOf(trail') = LevelOf(trail),
           NEW l \in Seq(Lits), NEW n \in Nat, n <= LevelOf(trail), Granted(trail, l, n)
    PROVE  Granted(trail', l, n)
<1>1. PICK t, u : t = trail /\ u = trail'
  OBVIOUS
<1>2. LevelOf(t) \in Nat
  BY <1>1, TrailParts DEF WellFormed, LevelOf
<1>3. WellFormed(t) /\ Retains(t, u) /\ Granted(t, l, n) /\ n <= n /\ n <= LevelOf(u) /\ LevelOf(u) \in Nat
  BY <1>1, <1>2
<1>4. \A j \in 1..n : j <= Len(l) => j <= Len(l) /\ l[j] = l[j]
  OBVIOUS
<1>5. Granted(u, l, n)
  BY <1>3, <1>4, GrantedStays
<1> QED
  BY <1>1, <1>5

\* Propagation within a call.
LEMMA Propagating ==
    ASSUME SearchInv, SearchInv', RefInv, pc \in {"entry", "rebuild", "search", "probe"}, pc' = pc,
           UNCHANGED callVars, KindsKnown', ConflictStored',
           Retains(trail, trail'), LevelOf(trail') = LevelOf(trail)
    PROVE  /\ RefInv' /\ AbsResolvent = {} /\ AbsResolvent' = {}
           /\ AbsPhase \in {"search", "probe"} /\ AbsPhase' = AbsPhase
<1>1. WellFormed(trail) /\ LevelOf(trail) \in Nat /\ assumptions \in Seq(Lits) /\ query \in Seq(Lits)
      /\ base \in Nat /\ at \in Nat
  BY SearchFacts
<1>2. UNCHANGED <<assumptions, query, base, at, conflict_core>>
  BY DEF callVars
<1>3. OwnedLevels \in Nat /\ OwnedLevels <= LevelOf(trail) /\ Granted(trail, assumptions, OwnedLevels)
  BY <1>1 DEF RefInv, OwnedLevels, ProbeGranted
<1>4. OwnedLevels' = OwnedLevels
  BY <1>2 DEF OwnedLevels
<1>5. Granted(trail', assumptions, OwnedLevels)
  BY <1>1, <1>3, LevelGranted
<1>6. Granted(trail', assumptions', OwnedLevels')
  BY <1>2, <1>4, <1>5
<1>7. ProbeGranted'
  <2>1. SUFFICES ASSUME pc = "probe"
                 PROVE  /\ base <= LevelOf(trail)
                        /\ \A k \in 1..(at - 1) : k <= Len(query) => IsTrue(trail', query[k])
    BY <1>2 DEF ProbeGranted
  <2>2. base <= LevelOf(trail) /\ \A k \in 1..(at - 1) : k <= Len(query) => IsTrue(trail, query[k])
    BY <2>1 DEF RefInv, ProbeGranted
  <2>3. SUFFICES ASSUME NEW k \in 1..(at - 1), k <= Len(query)
                 PROVE  IsTrue(trail', query[k])
    BY <2>2
  <2>4. k \in 1..Len(query)
    BY <1>1, <2>3
  <2>5. query[k] \in Lits /\ IsTrue(trail, query[k])
    BY <1>1, <2>2, <2>3, <2>4, ElementOfSeq
  <2>6. LitLevel(trail, query[k]) \in 0..LevelOf(trail)
    BY <1>1, <2>5, TruthFacts
  <2>7. LitLevel(trail, query[k]) <= LevelOf(trail')
    BY <1>1, <2>6
  <2> QED
    BY <2>5, <2>7 DEF Retains
<1>8. CoreClear' /\ Blames'
  BY <1>2 DEF RefInv, CoreClear, Blames
<1>9. AbsResolvent' = {} /\ AnalyzeRef'
  BY NoResolventNext
<1>10. AbsResolvent = {}
  BY NoResolvent
<1>11. RefInv'
  BY <1>6, <1>7, <1>8, <1>9 DEF RefInv
<1>12. AbsPhase \in {"search", "probe"} /\ AbsPhase' = AbsPhase
  BY PhasedNext DEF PhaseIs
<1> QED
  BY <1>9, <1>10, <1>11, <1>12

\* A literal is enqueued at the current level, seen from Cdcl.
LEMMA UnitAbs ==
    ASSUME PropInv, PropInv', ReasonsStay, NEW c, NEW l, NEW r, UnitStep(c, l, r)
    PROVE  /\ Abs!UnitWith(c, l) /\ Abs!Assert(Abs!Level, l, c)
           /\ Retains(trail, trail') /\ LevelOf(trail') = LevelOf(trail)
<1>1. /\ c \in StoredClauses /\ l \in c /\ IsUndef(trail, l)
      /\ \A q \in c \ {l} : IsFalse(trail, q)
      /\ r \in Reasons /\ trail' = Enqueued(trail, l, r)
      /\ ReasonSet(trail', arena', l) = c
  BY DEF UnitStep
<1>2. c \subseteq Lits /\ l \in Lits
  BY <1>1, StoredLits
<1>3. WellFormed(trail) /\ LevelOf(trail) \in Nat /\ Abs!Level = LevelOf(trail)
  BY TypedDb, AbsLengths
<1>4. Abs!UnitWith(c, l)
  BY <1>1, <1>2, AbsClause
<1>5. PICK n : n = LevelOf(trail)
  OBVIOUS
<1>6. n \in 0..LevelOf(trail) /\ trail = Cancelled(trail, n)
  BY <1>3, <1>5 DEF Cancelled
<1>7. PICK t : t = trail
  OBVIOUS
<1>8. t = Cancelled(trail, n) /\ IsUndef(t, l) /\ trail' = Enqueued(t, l, r)
  BY <1>1, <1>6, <1>7
<1>9. Abs!Assert(n, l, c)
  BY <1>1, <1>2, <1>6, <1>8, AssertAbs
<1>10. Retains(trail, trail') /\ LevelOf(trail') = LevelOf(trail)
  <2>1. PICK u : u = trail' /\ u = Enqueued(trail, l, r)
    BY <1>1
  <2>2. Retains(trail, u) /\ LevelOf(u) = LevelOf(trail)
    BY <1>1, <1>2, <1>3, <2>1, EnqueueRetains
  <2> QED
    BY <2>1, <2>2
<1> QED
  BY <1>3, <1>4, <1>5, <1>9, <1>10

LEMMA SameRetains ==
    ASSUME SameTrail
    PROVE  Retains(trail, trail') /\ LevelOf(trail') = LevelOf(trail)
BY DEF SameTrail, Retains, IsTrue, LitLevel, LevelOf

LEMMA PropagateImplied ==
    ASSUME SearchInv, SearchInv', RefInv, Propagate
    PROVE  Implied
<1>1. /\ pc \in {"entry", "rebuild", "search", "probe"} /\ pc' = pc
      /\ propagate /\ UNCHANGED callVars
  BY DEF Propagate
<1>2. PropInv /\ PropInv' /\ ConflictStored /\ KindsKnown
  BY SearchFacts DEF SearchInv, Core, RefInv
<1>3. Moves
  BY <1>1, <1>2, PropagateMoves
<1>4. SameClauses /\ SameKinds
  BY <1>3 DEF Moves
<1>5. UNCHANGED clientVars
  BY <1>1 DEF propagate, Dequeue, EndVisit, VisitBinary, VisitBlocked, VisitLong
<1>6. UNCHANGED Abs!dbVars /\ StoredClauses' = StoredClauses /\ KindsKnown'
  BY <1>2, <1>4, <1>5, SameDb
<1>7. ConflictStored'
  BY <1>3, <1>6 DEF Moves, ConflictStored
<1>8. ReasonsStay
  BY <1>4, StayFacts
<1>9. UNCHANGED Abs!callVars /\ UNCHANGED Abs!resultVars
  BY <1>1 DEF Abs!callVars, Abs!resultVars, callVars
<1>10. CASE SameTrail
  <2>1. Retains(trail, trail') /\ LevelOf(trail') = LevelOf(trail)
    BY <1>10, SameRetains
  <2>2. /\ RefInv' /\ AbsResolvent = {} /\ AbsResolvent' = {} /\ AbsPhase' = AbsPhase
    BY <1>1, <1>6, <1>7, <2>1, Propagating
  <2>3. AbsTrail' = AbsTrail
    BY <1>2, <1>8, <1>10, SameAbsTrail DEF SameTrail
  <2>4. UNCHANGED Abs!vars
    BY <1>6, <1>9, <1>10, <2>2, <2>3 DEF Abs!vars, Abs!trailVars, SameTrail
  <2> QED
    BY <2>2, <2>4 DEF Implied, AbsStep
<1>11. ASSUME NEW c, NEW l, NEW r, UnitStep(c, l, r)
       PROVE  Implied
  <2>1. /\ Abs!UnitWith(c, l) /\ Abs!Assert(Abs!Level, l, c)
        /\ Retains(trail, trail') /\ LevelOf(trail') = LevelOf(trail)
    BY <1>2, <1>8, <1>11, UnitAbs
  <2>2. /\ RefInv' /\ AbsResolvent = {} /\ AbsResolvent' = {}
        /\ AbsPhase \in {"search", "probe"} /\ AbsPhase' = AbsPhase
    BY <1>1, <1>6, <1>7, <2>1, Propagating
  <2>3. c \in Abs!Db /\ l \in c
    BY <1>2, <1>11, AbsDb DEF UnitStep
  <2>4. Abs!Propagate(c, l)
    BY <1>6, <1>9, <2>1, <2>2 DEF Abs!Propagate
  <2>5. Abs!Next
    BY <2>3, <2>4 DEF Abs!Next, Abs!Deduce
  <2> QED
    BY <2>2, <2>5 DEF Implied, AbsStep
<1> QED
  BY <1>3, <1>10, <1>11 DEF Moves

\* The reason of a literal is a binary clause, or a long one that is locked.
LEMMA ReasonStored ==
    ASSUME PropInv, Shaped(trail), NEW i \in 1..Len(trail.lits), NEW p, p = trail.lits[i],
           NEW r, r = ReasonOf(trail, p), r # Decision
    PROVE  /\ r.cref = 0 => /\ ReasonSet(trail, arena, p) = {p, r.other}
                            /\ {p, r.other} \in binaries \cup learntBins
           /\ r.cref # 0 => /\ r.cref \in Crefs /\ Live(r.cref) /\ locked(r.cref)
                            /\ ReasonSet(trail, arena, p) = ToSet(Body(r.cref))
<1>1. WellFormed(trail)
  BY TypedDb
<1>2. p \in Lits /\ IsTrue(trail, p)
  BY <1>1, TruthFacts, TrailParts DEF WellFormed
<1>3. r \in Reasons
  <2>1. PICK R : R = Reasons
    OBVIOUS
  <2>2. VarOf(p) \in Vars /\ trail.info \in [Vars -> [level : Nat \cup {-1}, reason : R]]
    BY <1>1, <1>2, <2>1, LitFacts, TrailParts DEF WellFormed
  <2>3. trail.info[VarOf(p)].reason \in R
    BY <2>2
  <2> QED
    BY <2>1, <2>3 DEF ReasonOf
<1>4. r.cref = 0 \/ r.other = 0
  BY DEF Shaped
<1>5. ReasonRight(i)
  BY <1>1, ReasonsEach DEF PropInv
<1>6. /\ r.cref # 0 => r.cref \in Crefs /\ Live(r.cref) /\ Body(r.cref)[1] = p
      /\ r.cref = 0 => {p, r.other} \in binaries \cup learntBins
  BY <1>5 DEF ReasonRight
<1>7. ASSUME r.cref # 0
      PROVE  r = ByClause(r.cref)
  BY <1>3, <1>4, <1>7 DEF Reasons, ByClause
<1> QED
  BY <1>2, <1>6, <1>7 DEF ReasonSet, locked, Body

\* What a reduction takes: learned clauses that are no reason.
Reduces(gone) ==
    /\ gone \subseteq Learnts /\ \A c \in gone : ~locked(c)
    /\ Crefs' = Crefs
    /\ \A c \in Crefs : /\ arena'[c].kind = arena[c].kind
                        /\ Live(c)' <=> Live(c) /\ c \notin gone
                        /\ c \notin gone => Body(c)' = Body(c)
    /\ UNCHANGED <<trail, binaries, learntBins, conflict, clientVars, pc, callVars>>

LEMMA ReduceDbReduces ==
    ASSUME PropInv, ReduceDb
    PROVE  \E gone : Reduces(gone)
<1>1. PICK good \in SUBSET Learnts :
          LET g == {c \in Learnts \ good : arena[c].lbd > 2 /\ ~locked(c)}
          IN  arena' = [c \in Crefs |-> IF c \in g THEN [arena[c] EXCEPT !.lits = <<>>] ELSE arena[c]]
  BY DEF ReduceDb
<1>2. PICK gone : gone = {c \in Learnts \ good : arena[c].lbd > 2 /\ ~locked(c)}
  OBVIOUS
<1>3. /\ gone \subseteq Learnts /\ \A c \in gone : ~locked(c)
      /\ arena' = [c \in Crefs |-> IF c \in gone THEN [arena[c] EXCEPT !.lits = <<>>] ELSE arena[c]]
  BY <1>1, <1>2
<1>4. Crefs' = Crefs
  BY <1>3 DEF Crefs
<1>5. \A c \in Crefs : arena[c] \in [lits : Seq(Lits), kind : Kinds, lbd : Nat]
  <2>1. PICK E : E = [lits : Seq(Lits), kind : Kinds, lbd : Nat]
    OBVIOUS
  <2>2. arena \in Seq(E)
    BY <2>1, TypedDb DEF DbTyped
  <2>3. \A c \in Crefs : arena[c] \in E
    BY <2>2 DEF Crefs
  <2> QED
    BY <2>1, <2>3
<1>6. ASSUME NEW c \in Crefs
      PROVE  /\ arena'[c].kind = arena[c].kind
             /\ c \in gone => arena'[c].lits = <<>>
             /\ c \notin gone => arena'[c] = arena[c]
  BY <1>3, <1>5
<1>7. \A c \in gone : c \in Crefs /\ Live(c)
  BY <1>3 DEF Learnts, OfKind
<1>8. \A c \in Crefs : /\ arena'[c].kind = arena[c].kind
                       /\ Live(c)' <=> Live(c) /\ c \notin gone
                       /\ c \notin gone => Body(c)' = Body(c)
  BY <1>4, <1>6 DEF Live, Body
<1>9. UNCHANGED <<trail, binaries, learntBins, conflict, clientVars, pc, callVars>>
  BY DEF ReduceDb
<1> QED
  BY <1>3, <1>4, <1>8, <1>9 DEF Reduces

LEMMA ReduceDbImplied ==
    ASSUME SearchInv, SearchInv', RefInv, ReduceDb
    PROVE  Implied
<1>1. /\ PropInv /\ PropInv' /\ Shaped(trail) /\ WellFormed(trail) /\ KindsKnown
  BY SearchFacts DEF SearchInv, Core, RefInv
<1>2. PICK gone : Reduces(gone)
  BY <1>1, ReduceDbReduces
<1>3. /\ gone \subseteq Learnts /\ \A c \in gone : ~locked(c)
      /\ Crefs' = Crefs
      /\ \A c \in Crefs : /\ arena'[c].kind = arena[c].kind
                          /\ Live(c)' <=> Live(c) /\ c \notin gone
                          /\ c \notin gone => Body(c)' = Body(c)
      /\ UNCHANGED <<trail, binaries, learntBins, conflict, clientVars, pc, callVars>>
  BY <1>2 DEF Reduces
<1>4. pc = "search" /\ conflict = <<>>
  BY DEF ReduceDb, Ready, Quiet
<1>5. KindsKnown'
  BY <1>1, <1>3 DEF KindsKnown
<1>6. ConflictStored'
  BY <1>3, <1>4 DEF ConflictStored
<1>7. OfKind("original")' = OfKind("original") /\ OfKind("learnt")' = OfKind("learnt") \ gone
  <2>1. \A c \in gone : arena[c].kind = "learnt"
    BY <1>3 DEF Learnts, OfKind
  <2> QED
    BY <1>3, <2>1 DEF OfKind
<1>8. \A c \in OfKind("original") : c \in Crefs /\ c \notin gone
  BY <1>3 DEF Learnts, OfKind
<1>9. LongClauses("original")' = LongClauses("original")
  BY <1>3, <1>7, <1>8 DEF LongClauses
<1>10. LongClauses("learnt")' = {ToSet(Body(c)) : c \in OfKind("learnt") \ gone}
  BY <1>3, <1>7 DEF LongClauses, OfKind
<1>11. ReasonsStay
  <2>1. SUFFICES ASSUME NEW c \in Crefs, Live(c),
                        NEW i \in 1..Len(trail.lits), ReasonOf(trail, trail.lits[i]).cref = c
                 PROVE  c \notin gone
    BY <1>3 DEF ReasonsStay
  <2>2. PICK p, r : p = trail.lits[i] /\ r = ReasonOf(trail, p)
    OBVIOUS
  <2>3. c # 0 /\ r.cref = c
    BY <1>1, <2>1, <2>2, BodyFacts DEF PropInv
  <2>4. r # Decision
    BY <2>3 DEF Decision
  <2>5. locked(c)
    BY <1>1, <2>2, <2>3, <2>4, ReasonStored
  <2> QED
    BY <1>3, <2>5
<1>12. AbsTrail' = AbsTrail /\ trail'.lim = trail.lim
  BY <1>1, <1>3, <1>11, SameAbsTrail
<1> DEFINE L == learntBins \cup LongClauses("learnt")
           M == learntBins \cup {ToSet(Body(c)) : c \in OfKind("learnt") \ gone}
           G == L \ M
<1>13. (learntBins \cup LongClauses("learnt"))' = M
  BY <1>3, <1>10
<1>14. M = L \ G /\ G \subseteq L
  BY DEF LongClauses
<1>15. \A i \in DOMAIN AbsTrail : AbsTrail[i].reason \notin G \ (binaries \cup LongClauses("original"))
  <2>1. PICK a, t, A : a = AbsTrail /\ t = trail /\ A = arena /\ Views(a, t, A)
    BY <1>1, View DEF Viewed
  <2>2. SUFFICES ASSUME NEW i \in 1..Len(t.lits), a[i].reason \in G,
                        a[i].reason \notin binaries \cup LongClauses("original")
                 PROVE  FALSE
    BY <2>1 DEF Views
  <2>3. PICK p, r : p = t.lits[i] /\ r = ReasonOf(t, p) /\ a[i].reason = ReasonSet(t, A, p)
    BY <2>1 DEF Views
  <2>4. \A x \in L : x # {}
    <3>1. \A b \in learntBins : b # {}
      BY <1>1 DEF PropInv, ClausesSound
    <3>2. ASSUME NEW c \in OfKind("learnt")
          PROVE  ToSet(Body(c)) # {}
      <4>1. c \in Crefs /\ Live(c)
        BY DEF OfKind
      <4>2. Body(c) \in Seq(Lits) /\ 1 \in 1..Len(Body(c))
        BY <1>1, <4>1, BodyFacts DEF PropInv
      <4> QED
        BY <4>2, ToSetFacts
    <3> QED
      BY <3>1, <3>2 DEF LongClauses
  <2>5. r # Decision
    BY <2>2, <2>3, <2>4 DEF ReasonSet
  <2>6. /\ r.cref = 0 => /\ a[i].reason = {p, r.other}
                         /\ {p, r.other} \in binaries \cup learntBins
        /\ r.cref # 0 => /\ r.cref \in Crefs /\ Live(r.cref) /\ locked(r.cref)
                         /\ a[i].reason = ToSet(Body(r.cref))
    BY <1>1, <2>1, <2>3, <2>5, ReasonStored, ZenonT(30)
  <2>7. CASE r.cref = 0
    BY <2>2, <2>6, <2>7
  <2>8. CASE r.cref # 0
    <3>1. PICK c : c = r.cref
      OBVIOUS
    <3>2. c \in Crefs /\ Live(c) /\ c \notin gone /\ a[i].reason = ToSet(Body(c))
      BY <1>3, <2>6, <2>8, <3>1
    <3>3. c \in OfKind("original") \/ c \in OfKind("learnt") \ gone
      BY <1>1, <3>2 DEF KindsKnown, OfKind
    <3> QED
      BY <2>2, <3>2, <3>3 DEF LongClauses
  <2> QED
    BY <2>7, <2>8
<1>16. Retains(trail, trail') /\ LevelOf(trail') = LevelOf(trail)
  BY <1>3, SameRetains DEF SameTrail
<1>17. /\ RefInv' /\ AbsResolvent = {} /\ AbsResolvent' = {} /\ AbsPhase' = AbsPhase
  BY <1>3, <1>4, <1>5, <1>6, <1>16, Propagating
<1>18. AbsPhase = "search"
  BY <1>4, PhasedNext DEF PhaseIs
<1>19. UNCHANGED Abs!callVars /\ UNCHANGED Abs!resultVars
  BY <1>3, <1>4 DEF Abs!callVars, Abs!resultVars, callVars
<1>20. Abs!ReduceDb(G)
  <2> HIDE DEF G, M
  <2>1. UNCHANGED <<formula, dead>> /\ (binaries \cup LongClauses("original"))' = binaries \cup LongClauses("original")
    BY <1>3, <1>9 DEF clientVars
  <2>2. UNCHANGED Abs!trailVars
    BY <1>12 DEF Abs!trailVars
  <2> QED
    BY <1>13, <1>14, <1>15, <1>17, <1>18, <1>19, <2>1, <2>2 DEF Abs!ReduceDb
<1>21. G \in SUBSET L
  OBVIOUS
<1> HIDE DEF G
<1> QED
  BY <1>17, <1>20, <1>21 DEF Implied, AbsStep, Abs!Next, Abs!Manage

\* A free slot, new or used before, now holds body; no other slot changed.
SlotFilled(c, body) ==
    /\ c \in Nat /\ Crefs' = Crefs \cup {c} /\ arena'[c] = body
    /\ c \in Crefs => ~Live(c)
    /\ \A d \in Crefs : d # c => arena'[d] = arena[d]

LEMMA SlotIsFilled ==
    ASSUME PropInv, NEW s \in Seq(Lits), NEW kind \in Kinds, NEW lbd \in Nat,
           AttachLong(s, kind, lbd)
    PROVE  \E c : SlotFilled(c, [lits |-> s, kind |-> kind, lbd |-> lbd])
<1> DEFINE body == [lits |-> s, kind |-> kind, lbd |-> lbd]
<1>0. PICK c0 : c0 = FreeSlot
  OBVIOUS
<1>1. /\ PropTypeOK
      /\ arena' = IF c0 \in Crefs THEN [arena EXCEPT ![c0] = body] ELSE Append(arena, body)
  BY <1>0 DEF PropInv, AttachLong
<1>2. /\ c0 \in 1..(Len(arena) + 1)
      /\ c0 \in Crefs => ~Live(c0)
      /\ c0 \notin Crefs => c0 = Len(arena) + 1
  BY <1>0, <1>1, FreeSlotFacts
<1>3. /\ arena \in Seq([lits : Seq(Lits), kind : Kinds, lbd : Nat])
      /\ Crefs = 1..Len(arena) /\ Len(arena) \in Nat
      /\ body \in [lits : Seq(Lits), kind : Kinds, lbd : Nat]
  BY <1>1, LenProperties DEF PropTypeOK, Crefs
<1>4. c0 \in Nat
  BY <1>2, <1>3
<1>5. /\ Crefs' = Crefs \cup {c0} /\ arena'[c0] = body
      /\ \A c \in Crefs : c # c0 => arena'[c] = arena[c]
  <2> HIDE DEF body
  <2>1. CASE c0 \in Crefs
    <3>1. arena' = [arena EXCEPT ![c0] = body]
      BY <1>1, <2>1
    <3>2. /\ DOMAIN arena' = DOMAIN arena /\ arena'[c0] = body
          /\ \A c \in 1..Len(arena) : c # c0 => arena'[c] = arena[c]
      BY <1>3, <2>1, <3>1
    <3> QED
      BY <1>3, <2>1, <3>2 DEF Crefs
  <2>2. CASE c0 \notin Crefs
    <3>1. arena' = Append(arena, body) /\ c0 = Len(arena) + 1
      BY <1>1, <1>2, <2>2
    <3>2. /\ arena' \in Seq([lits : Seq(Lits), kind : Kinds, lbd : Nat])
          /\ Len(arena') = Len(arena) + 1 /\ arena'[c0] = body
          /\ \A c \in 1..Len(arena) : arena'[c] = arena[c]
      BY <1>3, <3>1, AppendProperties
    <3>3. DOMAIN arena' = 1..(Len(arena) + 1)
      BY <3>2, LenProperties
    <3>4. 1..(Len(arena) + 1) = 1..Len(arena) \cup {c0}
      BY <1>3, <3>1
    <3> QED
      BY <1>3, <3>2, <3>3, <3>4 DEF Crefs
  <2> QED
    BY <2>1, <2>2
<1> HIDE DEF body
<1>6. SlotFilled(c0, body)
  BY <1>2, <1>4, <1>5 DEF SlotFilled
<1> QED
  BY <1>6 DEF body

\* What the clauses of kind k gain when s is stored as one of kind.
Gains(s, kind, k) == IF k = kind THEN {ToSet(s)} ELSE {}

\* A long clause that is stored is the one more of its kind.
LEMMA LongGains ==
    ASSUME NEW s \in Seq(Lits), s # <<>>, NEW kind, NEW lbd, NEW c,
           SlotFilled(c, [lits |-> s, kind |-> kind, lbd |-> lbd]), NEW k
    PROVE  LongClauses(k)' = LongClauses(k) \cup Gains(s, kind, k)
<1>1. /\ Crefs' = Crefs \cup {c} /\ arena'[c].lits = s /\ arena'[c].kind = kind
      /\ c \in Crefs => ~Live(c)
      /\ \A d \in Crefs : d # c => arena'[d] = arena[d]
  BY DEF SlotFilled
<1>2. \A d \in OfKind(k) : d \in Crefs /\ Live(d) /\ arena[d].kind = k /\ d # c
  BY <1>1 DEF OfKind
<1>3. OfKind(k)' = OfKind(k) \cup (IF k = kind THEN {c} ELSE {})
  <2>1. \A d : d \in OfKind(k)' <=> d \in Crefs' /\ arena'[d].lits # <<>> /\ arena'[d].kind = k
    BY DEF OfKind, Live
  <2>2. \A d : d \in OfKind(k) <=> d \in Crefs /\ arena[d].lits # <<>> /\ arena[d].kind = k
    BY DEF OfKind, Live
  <2> QED
    BY <1>1, <1>2, <2>1, <2>2
<1>4. \A d \in OfKind(k) : Body(d)' = Body(d)
  BY <1>1, <1>2 DEF Body
<1>5. Body(c)' = s
  BY <1>1 DEF Body
<1>6. LongClauses(k)' = {ToSet(Body(d)') : d \in OfKind(k)'}
  BY DEF LongClauses
<1> QED
  BY <1>3, <1>4, <1>5, <1>6 DEF LongClauses, Gains

\* The stored clauses after s is stored as one of kind.
OfClauses(s, kind) ==
    /\ KindsKnown'
    /\ (binaries \cup LongClauses("original"))'
          = (binaries \cup LongClauses("original")) \cup Gains(s, kind, "original")
    /\ (learntBins \cup LongClauses("learnt"))'
          = (learntBins \cup LongClauses("learnt")) \cup Gains(s, kind, "learnt")

\* Attaching a clause stores it, and nothing else.
LEMMA AttachDb ==
    ASSUME PropInv, KindsKnown, NEW s \in Seq(Lits), Len(s) >= 2,
           NEW kind \in {"original", "learnt"}, NEW lbd \in Nat, Attach(s, kind, lbd)
    PROVE  OfClauses(s, kind)
<1>1. CASE Len(s) = 2
  <2>1. AttachBinary(s, kind)
    BY <1>1 DEF Attach
  <2>2. \A k : LongClauses(k)' = LongClauses(k)
    BY <2>1 DEF AttachBinary, LongClauses, OfKind, Crefs, Live, Body
  <2>3. KindsKnown'
    BY <2>1 DEF AttachBinary, KindsKnown, Crefs, Live
  <2>4. /\ binaries' = binaries \cup Gains(s, kind, "original")
        /\ learntBins' = learntBins \cup Gains(s, kind, "learnt")
    BY <2>1 DEF AttachBinary, Gains
  <2> QED
    BY <2>2, <2>3, <2>4 DEF OfClauses
<1>2. CASE Len(s) # 2
  <2>1. AttachLong(s, kind, lbd) /\ UNCHANGED <<binaries, learntBins>>
    BY <1>2 DEF Attach, AttachLong
  <2>2. kind \in Kinds
    BY DEF Kinds
  <2>3. s # <<>>
    BY EmptySeq
  <2>4. PICK c : SlotFilled(c, [lits |-> s, kind |-> kind, lbd |-> lbd])
    BY <2>1, <2>2, SlotIsFilled
  <2>5. \A k : LongClauses(k)' = LongClauses(k) \cup Gains(s, kind, k)
    BY <2>3, <2>4, LongGains
  <2>6. KindsKnown'
    <3>1. /\ Crefs' = Crefs \cup {c} /\ arena'[c].kind = kind
          /\ \A d \in Crefs : d # c => arena'[d] = arena[d]
      BY <2>4 DEF SlotFilled
    <3>2. \A d \in Crefs' : Live(d)' => arena'[d].kind \in {"original", "learnt"}
      BY <3>1 DEF KindsKnown, Live
    <3> QED
      BY <3>2 DEF KindsKnown
  <2> QED
    BY <2>1, <2>5, <2>6 DEF OfClauses
<1> QED
  BY <1>1, <1>2

\* The first literal of an attached clause is enqueued for that clause.
LEMMA BecauseSet ==
    ASSUME NEW s \in Seq(Lits), Len(s) >= 2, NEW c \in Nat, Attaches(s, c), c = 0 <=> Len(s) = 2,
           NEW u, u \in TrailType, trail' = Enqueued(u, s[1], Because(s, c))
    PROVE  /\ ReasonSet(trail', arena', s[1]) = ToSet(s)
           /\ Because(s, c) \in Reasons
<1>1. PICK r : r = Because(s, c)
  OBVIOUS
<1>2. r \in Reasons /\ r # Decision
  BY <1>1, BecauseShape
<1>3. s[1] \in Lits
  BY ElementOfSeq, LenProperties
<1>4. ReasonOf(trail', s[1]) = r
  <2>1. PICK w : w = trail'
    OBVIOUS
  <2>2. ReasonOf(w, s[1]) = r
    BY <1>1, <1>2, <1>3, <2>1, EnqueuedFacts
  <2> QED
    BY <2>1, <2>2
<1>5. CASE Len(s) = 2
  <2>1. r.cref = 0 /\ r.other = s[2]
    BY <1>1, <1>5 DEF Because, ByBinary
  <2>2. ReasonSet(trail', arena', s[1]) = {s[1], s[2]}
    BY <1>2, <1>4, <2>1 DEF ReasonSet
  <2>3. ToSet(s) = {s[1], s[2]}
    BY <1>5, LenProperties, ToSetFacts
  <2> QED
    BY <1>1, <1>2, <2>2, <2>3
<1>6. CASE Len(s) # 2
  <2>1. r.cref = c /\ c # 0
    BY <1>1, <1>6 DEF Because, ByClause
  <2>2. Body(c)' = s
    BY <2>1 DEF Attaches
  <2>3. arena'[c].lits = s
    BY <2>2 DEF Body
  <2> QED
    BY <1>1, <1>2, <1>4, <2>1, <2>3 DEF ReasonSet
<1> QED
  BY <1>5, <1>6

\* The learned clause is the negated UIP and what minimization kept.
LEMMA LearnedLits ==
    ASSUME WellFormed(trail), LevelOf(trail) > 0, work \in WorkType, Minimizing(trail, work),
           NEW q, q = LearnedClause
    PROVE  q[1] = -work.uip /\ ToSet(q) = {-work.uip} \cup ToSet(work.kept)
<1>1. PICK s : s = <<-work.uip>> \o work.kept
  OBVIOUS
<1>2. Gathered(trail, s, work.kept)
  BY <1>1, GatheredFacts
<1>3. work.kept \in Seq(Lits) /\ work.uip \in Lits /\ -work.uip \in Lits
  BY WorkParts, NegatedLit DEF Minimizing
<1>4. PICK n \in Nat : n = Len(work.kept) /\ Len(s) = n + 1
  BY <1>2, <1>3, LenProperties DEF Gathered
<1>5. s[1] = -work.uip
  BY <1>1, <1>3
<1>6. ToSet(s) = {-work.uip} \cup ToSet(work.kept)
  <2>1. s \in Seq(Lits)
    BY <1>2 DEF Gathered
  <2>2. \A x \in ToSet(s) : \E k \in 1..Len(s) : s[k] = x
    BY <2>1, ToSetFacts
  <2>3. \A k \in 1..Len(s) : s[k] \in ToSet(s)
    BY <2>1, ToSetFacts
  <2>4. \A i \in 2..Len(s) : s[i] \in ToSet(work.kept) /\ i \in 1..Len(s)
    BY <1>2, <1>4 DEF Gathered
  <2>5. \A x \in ToSet(work.kept) : \E i \in 2..Len(s) : s[i] = x
    BY <1>2 DEF Gathered
  <2>6. \A k \in 1..Len(s) : k = 1 \/ k \in 2..Len(s)
    BY <1>4
  <2>7. 1 \in 1..Len(s)
    BY <1>4
  <2> QED
    BY <1>5, <2>2, <2>3, <2>4, <2>5, <2>6, <2>7, SMTT(20)
<1>7. CASE work.kept = <<>>
  <2>1. q = s
    BY <1>1, <1>7 DEF LearnedClause
  <2> QED
    BY <1>5, <1>6, <2>1
<1>8. CASE work.kept # <<>>
  <2>1. n >= 1
    BY <1>3, <1>4, <1>8, EmptySeq, LenProperties
  <2>2. PICK D : D = {LitLevel(trail, l) : l \in ToSet(work.kept)}
    OBVIOUS
  <2>3. PICK d : d = Max(D)
    OBVIOUS
  <2>4. \A i \in 2..(n + 1) : LitLevel(trail, s[i]) \in D
    BY <1>2, <1>4, <2>2 DEF Gathered
  <2>5. \A x \in D : \E i \in 2..(n + 1) : LitLevel(trail, s[i]) = x
    BY <1>2, <1>4, <2>2 DEF Gathered
  <2>6. \A i \in 2..(n + 1) : LitLevel(trail, s[i]) \in 1..(LevelOf(trail) - 1)
    BY <1>2, <1>4 DEF Gathered, Lower
  <2>7. LevelOf(trail) \in Nat
    BY TrailParts DEF WellFormed, LevelOf
  <2>8. /\ D \subseteq Nat /\ \A x \in D : x <= LevelOf(trail)
        /\ D # {}
    <3>1. 2 \in 2..(n + 1)
      BY <2>1
    <3>2. \A x \in D : x \in 1..(LevelOf(trail) - 1)
      BY <2>5, <2>6
    <3>3. \A x \in 1..(LevelOf(trail) - 1) : x \in Nat /\ x <= LevelOf(trail)
      BY <2>7
    <3> QED
      BY <3>1, <3>2, <3>3, <2>4
  <2>9. d \in D
    BY <2>3, <2>7, <2>8, MaxFacts
  <2>10. PICK I : I = {i \in 2..Len(s) : LitLevel(trail, s[i]) = d}
    OBVIOUS
  <2>11. I \subseteq Nat /\ I # {}
    <3>1. \E i \in 2..(n + 1) : LitLevel(trail, s[i]) = d
      BY <2>5, <2>9
    <3> QED
      BY <3>1, <2>10, <1>4
  <2>12. PICK k : k = Min(I) /\ k \in 2..Len(s)
    BY <2>10, <2>11, MinFacts
  <2>13. q = Swapped(s, 2, k)
    BY <1>1, <1>8, <2>2, <2>3, <2>10, <2>12 DEF LearnedClause
  <2>14. s \in Seq(Lits) /\ 2 \in 1..Len(s) /\ k \in 1..Len(s)
    BY <1>2, <1>4, <2>1, <2>12 DEF Gathered
  <2>15. IsSwap(q, s, 2, k)
    BY <2>13, <2>14, SwapLits
  <2>16. 1 # 2 /\ 1 # k /\ 1 \in 1..Len(s)
    BY <1>4, <2>12
  <2> QED
    BY <1>5, <1>6, <2>15, <2>16 DEF IsSwap
<1> QED
  BY <1>7, <1>8

\* What the learned clauses gain: a unit is a root fact and is not stored.
LearnedSet(s) == IF Len(s) = 1 THEN {} ELSE {ToSet(s)}

\* The learned clause s is stored and its first literal asserted at level bt.
Lands(s, bt) ==
    /\ bt = (IF Len(s) = 1 THEN 0 ELSE LitLevel(trail, s[2]))
    /\ Abs!Assert(bt, s[1], IF Len(s) = 1 THEN {} ELSE ToSet(s))
    /\ KindsKnown'
    /\ (binaries \cup LongClauses("original"))' = binaries \cup LongClauses("original")
    /\ (learntBins \cup LongClauses("learnt"))' = learntBins \cup LongClauses("learnt") \cup LearnedSet(s)
    /\ Retains(trail, trail') /\ LevelOf(trail') = bt

\* The trail is cut to level bt and a literal is enqueued there.
LEMMA Jump ==
    ASSUME PropInv, PropInv', ReasonsStay, NEW bt \in Nat, bt <= LevelOf(trail),
           NEW u, u = Cancelled(trail, bt), NEW l \in Lits, IsUndef(u, l),
           NEW r \in Reasons, trail' = Enqueued(u, l, r)
    PROVE  /\ Abs!Assert(bt, l, ReasonSet(trail', arena', l))
           /\ Retains(trail, trail') /\ LevelOf(trail') = bt
<1>1. WellFormed(trail) /\ LevelOf(trail) \in Nat
  BY TypedDb, TrailParts DEF WellFormed, LevelOf
<1>2. IsUndef(u, l)
  OBVIOUS
<1>3. bt \in 0..LevelOf(trail)
  BY <1>1
<1>4. Abs!Assert(bt, l, ReasonSet(trail', arena', l))
  BY <1>2, <1>3, AssertAbs
<1>5. PICK w : w = trail'
  OBVIOUS
<1>6. Retains(trail, u) /\ LevelOf(u) = bt
  <2>1. Retains(trail, u) /\ LevelOf(u) = (IF LevelOf(trail) <= bt THEN LevelOf(trail) ELSE bt)
    BY <1>1, CutRetains
  <2> QED
    BY <1>1, <2>1
<1>7. WellFormed(u)
  BY <1>1, CancelContinues DEF CutAt, Continues
<1>8. Retains(u, w) /\ LevelOf(w) = LevelOf(u)
  BY <1>2, <1>5, <1>7, EnqueueRetains
<1>9. Retains(trail, w)
  BY <1>6, <1>8, RetainsTwice
<1> QED
  BY <1>4, <1>5, <1>6, <1>8, <1>9

LEMMA LearntLands ==
    ASSUME PropInv, PropInv', visit = NoVisit, visit' = NoVisit, LevelOf(trail) > 0, KindsKnown,
           NEW s, Asserting(trail, s), NEW lbd \in Nat, Learnt(s, lbd)
    PROVE  \E bt \in 0..(LevelOf(trail) - 1) : Lands(s, bt)
<1>1. WellFormed(trail) /\ LevelOf(trail) \in Nat
  BY TypedDb, TrailParts DEF WellFormed, LevelOf
<1>2. /\ s \in Seq(Lits) /\ IsInjective(s) /\ Len(s) >= 1
      /\ \A i \in 1..Len(s) : IsFalse(trail, s[i]) /\ LitLevel(trail, s[i]) > 0
      /\ \A i \in 1..Len(s) : LitLevel(trail, s[i]) = LevelOf(trail) <=> i = 1
  BY DEF Asserting
<1>3. PICK n \in Nat : n = Len(s)
  BY <1>2, LenProperties
<1>4. 1 \in 1..n /\ s[1] \in Lits /\ LitLevel(trail, s[1]) = LevelOf(trail)
  BY <1>2, <1>3, ElementOfSeq
<1>5. PICK l \in Lits : l = s[1]
  BY <1>4
<1>6. CASE n = 1
  <2>1. PICK u : u = Cancelled(trail, 0)
    OBVIOUS
  <2>2. trail' = Enqueued(u, l, Decision) /\ UNCHANGED dbVars
    BY <1>3, <1>5, <1>6, <2>1 DEF Learnt
  <2>3. ReasonsStay
    BY <2>2, StayFacts DEF dbVars
  <2>4. 0 \in Nat /\ 0 <= LevelOf(trail) /\ ~(LitLevel(trail, l) <= 0) /\ Decision \in Reasons
    BY <1>1, <1>4, <1>5 DEF Decision, Reasons
  <2>10. IsUndef(u, l)
    BY <1>1, <2>1, <2>4, CancelledTruth DEF IsUndef
  <2>5. /\ Abs!Assert(0, l, ReasonSet(trail', arena', l))
        /\ Retains(trail, trail') /\ LevelOf(trail') = 0
    BY <2>1, <2>2, <2>3, <2>4, <2>10, Jump
  <2>6. ReasonSet(trail', arena', l) = {}
    <3>1. PICK w : w = trail'
      OBVIOUS
    <3>2. u \in TrailType
      BY <1>1, <2>1, <2>4, CancelContinues DEF CutAt, Continues, WellFormed
    <3>3. ReasonOf(w, l) = Decision
      BY <2>2, <2>4, <3>1, <3>2, EnqueuedFacts
    <3> QED
      BY <3>1, <3>3 DEF ReasonSet
  <2>7. KindsKnown' /\ (\A k : LongClauses(k)' = LongClauses(k)) /\ UNCHANGED <<binaries, learntBins>>
    BY <2>2 DEF dbVars, KindsKnown, Crefs, Live, LongClauses, OfKind, Body
  <2>8. Lands(s, 0)
    BY <1>3, <1>5, <1>6, <2>5, <2>6, <2>7 DEF Lands, LearnedSet
  <2>9. 0 \in 0..(LevelOf(trail) - 1)
    BY <1>1
  <2> QED
    BY <2>8, <2>9
<1>7. CASE n # 1
  <2>1. n >= 2 /\ 2 \in 1..n
    BY <1>2, <1>3, <1>7
  <2>2. PICK bt : bt = LitLevel(trail, s[2])
    OBVIOUS
  <2>3. bt \in Nat /\ bt < LevelOf(trail)
    <3>1. s[2] \in Lits /\ IsFalse(trail, s[2]) /\ bt # LevelOf(trail)
      BY <1>2, <1>3, <2>1, <2>2, ElementOfSeq
    <3>2. bt \in 0..LevelOf(trail)
      BY <1>1, <2>2, <3>1, TruthFacts
    <3> QED
      BY <1>1, <3>1, <3>2
  <2>4. PICK u : u = Cancelled(trail, bt)
    OBVIOUS
  <2>5. trail' = Enqueued(u, s[1], ReasonFrom(s)) /\ Attach(s, "learnt", lbd)
    BY <1>3, <1>7, <2>2, <2>4 DEF Learnt
  <2>6. PICK d \in Nat : Attaches(s, d) /\ (d = 0 <=> Len(s) = 2) /\ ReasonFrom(s) = Because(s, d)
    <3>1. "learnt" \in Kinds /\ lbd \in Nat
      BY DEF Kinds
    <3> QED
      BY <1>2, <1>3, <2>1, <2>5, <3>1, AttachFacts
  <2>7. ReasonsStay
    BY <2>6, StayFacts
  <2>8. PICK r : r = Because(s, d)
    OBVIOUS
  <2>9. u \in TrailType
    BY <1>1, <2>3, <2>4, CancelContinues DEF CutAt, Continues, WellFormed
  <2>10. trail' = Enqueued(u, s[1], Because(s, d))
    BY <2>5, <2>6
  <2>11. ReasonSet(trail', arena', s[1]) = ToSet(s) /\ r \in Reasons
    BY <1>2, <1>3, <2>1, <2>6, <2>8, <2>9, <2>10, BecauseSet
  <2>12. ~(LitLevel(trail, l) <= bt) /\ trail' = Enqueued(u, l, r)
    BY <1>1, <1>4, <1>5, <2>3, <2>8, <2>10
  <2>17. IsUndef(u, l) /\ bt <= LevelOf(trail)
    BY <1>1, <2>3, <2>4, <2>12, CancelledTruth DEF IsUndef
  <2>13. /\ Abs!Assert(bt, l, ReasonSet(trail', arena', l))
         /\ Retains(trail, trail') /\ LevelOf(trail') = bt
    BY <2>3, <2>4, <2>7, <2>11, <2>12, <2>17, Jump
  <2>14. OfClauses(s, "learnt")
    BY <1>2, <1>3, <2>1, <2>5, AttachDb
  <2>15. Lands(s, bt)
    BY <1>3, <1>5, <1>7, <2>2, <2>11, <2>13, <2>14 DEF Lands, LearnedSet, OfClauses, Gains
  <2>16. bt \in 0..(LevelOf(trail) - 1)
    BY <1>1, <2>3
  <2> QED
    BY <2>15, <2>16
<1> QED
  BY <1>6, <1>7

\* The literals of s that are not in R are left out because they follow.
LEMMA LearnAbs ==
    ASSUME PropInv, AnalyzeSteps, AnalyzeRef, step = "learn", LevelOf(trail) > 0,
           NEW s, s = LearnedClause, NEW bt \in 0..(LevelOf(trail) - 1), Lands(s, bt),
           AbsPhase = "conflict", AbsPhase' = "search", AbsResolvent' = {},
           UNCHANGED <<formula, dead>>, UNCHANGED Abs!callVars, UNCHANGED Abs!resultVars
    PROVE  Abs!Next
<1>1. /\ WellFormed(trail) /\ LevelOf(trail) \in Nat /\ work \in WorkType
      /\ Minimizing(trail, work) /\ Drawn(trail, work) /\ Warranted(trail, Tails, work)
  <2>1. WellFormed(trail) /\ LevelOf(trail) \in Nat
    BY TypedDb, TrailParts DEF WellFormed, LevelOf
  <2>2. work \in WorkType /\ Minimizing(trail, work)
    BY DEF AnalyzeSteps, AnalyzeTypeOK, AnalyzeInv
  <2>3. Drawn(trail, work) /\ Warranted(trail, Tails, work)
    BY DEF AnalyzeRef
  <2> QED
    BY <2>1, <2>2, <2>3
<1>2. Asserting(trail, s)
  BY LearnedFacts
<1>3. PICK p, lrn : /\ p = work.uip /\ lrn = ToSet(work.learned)
                    /\ p \in Lits /\ IsTrue(trail, p) /\ LitLevel(trail, p) = LevelOf(trail)
  BY <1>1 DEF Minimizing
<1>4. PICK u \in Lits : u = -p
  BY <1>3, NegatedLit
<1>5. PICK d : d = ToSet(s)
  OBVIOUS
<1>6. s[1] = u /\ d = {u} \cup ToSet(work.kept)
  BY <1>1, <1>3, <1>4, <1>5, LearnedLits
<1>7. PICK R : R = AbsResolvent /\ R = {u} \cup lrn
  <2>1. AbsResolvent = Resolved
    BY ResolventIs
  <2> QED
    BY <1>3, <1>4, <2>1 DEF Resolved
<1>8. ToSet(work.kept) \subseteq lrn
  BY <1>1, <1>3 DEF Warranted
<1>9. lrn \subseteq Lits
  BY <1>1, <1>3, WorkParts, ToSetFacts
<1>10. \A q \in lrn : IsFalse(trail, q) /\ LitLevel(trail, q) \in 1..(LevelOf(trail) - 1)
  BY <1>1, <1>3 DEF Drawn, Lower
<1>11. IsFalse(trail, u) /\ LitLevel(trail, u) = LevelOf(trail)
  <2>1. LitLevel(trail, u) = LitLevel(trail, p) /\ (IsFalse(trail, u) <=> IsTrue(trail, p))
    BY <1>1, <1>3, <1>4, NegatedLit, TruthFacts
  <2> QED
    BY <1>3, <2>1
<1>12. u \in d /\ d \subseteq R /\ R \subseteq Lits
  BY <1>6, <1>7, <1>8, <1>9
<1>13. Abs!Level = LevelOf(trail) /\ DOMAIN AbsTrail = 1..Len(trail.lits)
  BY AbsLengths
<1>14. Abs!TrueAt(-u, Abs!Level)
  BY <1>11, <1>13, AbsTruth
<1>15. \A q \in R \ {u} : ~Abs!TrueAt(-q, Abs!Level)
  <2> TAKE q \in R \ {u}
  <2>1. q \in lrn /\ q \in Lits
    BY <1>7, <1>9
  <2>2. LitLevel(trail, q) # LevelOf(trail)
    BY <1>1, <1>10, <2>1
  <2> QED
    BY <1>13, <2>1, <2>2, AbsTruth
<1>16. \E S \in SUBSET DOMAIN AbsTrail :
          /\ Abs!Supported(S, Abs!Negated(d))
          /\ \A q \in R \ d : Abs!Follows(-q, S, Abs!Negated(d))
  <2>1. PICK K : K = {-l : l \in d} /\ K = Abs!Negated(d)
    BY DEF Abs!Negated
  <2>2. \A q \in ToSet(work.kept) : -q \in K
    BY <1>6, <2>1
  <2>3. TailsFalse(trail, Tails)
    BY TailsRight
  <2>4. PICK S \in SUBSET (1..Len(trail.lits)) :
            /\ Supports(trail, Tails, S, K)
            /\ \A q \in lrn : Rests(trail, S, K, -q)
    BY <1>1, <1>3, <2>2, <2>3, WarrantSupports
  <2>5. Abs!Supported(S, K)
    BY <2>4, AbsSupported
  <2>6. \A q \in R \ d : Abs!Follows(-q, S, K)
    <3> TAKE q \in R \ d
    <3>1. q \in lrn /\ -q \in Lits
      BY <1>6, <1>7, <1>9, NegatedLit
    <3> QED
      BY <2>4, <3>1, AbsFollows
  <2> QED
    BY <1>13, <2>1, <2>4, <2>5, <2>6
<1>17. /\ s \in Seq(Lits) /\ IsInjective(s) /\ Len(s) >= 1 /\ Len(s) \in Nat
       /\ \A i \in 2..Len(s) : LitLevel(trail, s[i]) <= LitLevel(trail, s[2])
  BY <1>2, LenProperties DEF Asserting
<1>18. ASSUME Len(s) # 1
       PROVE  1 \in 1..Len(s) /\ 2 \in 1..Len(s)
  <2>1. PICK n \in Nat : n = Len(s) /\ n >= 1 /\ n # 1
    BY <1>17, <1>18
  <2>2. 1 \in 1..n /\ 2 \in 1..n
    BY <2>1
  <2> QED
    BY <2>1, <2>2
<1>19. Len(s) = 1 <=> d = {u}
  <2>1. \A x \in d : \E k \in 1..Len(s) : s[k] = x
    BY <1>5, <1>17, ToSetFacts
  <2>2. ASSUME Len(s) # 1
        PROVE  \E x \in d : x # u
    <3>1. 1 \in 1..Len(s) /\ 2 \in 1..Len(s)
      BY <1>18, <2>2
    <3>2. s[2] # s[1]
      BY <1>17, <3>1, LenProperties DEF IsInjective
    <3>3. s[2] \in d
      BY <1>5, <1>17, <3>1, ToSetFacts
    <3> QED
      BY <1>6, <3>2, <3>3
  <2>3. Len(s) = 1 => \A x \in d : x = u
    BY <1>6, <2>1
  <2> QED
    BY <1>12, <2>2, <2>3
<1>20. IF d = {u} THEN bt = 0
                  ELSE /\ \A q \in d \ {u} : Abs!TrueBy(-q, bt)
                       /\ \E q \in d \ {u} : Abs!TrueAt(-q, bt)
  <2>1. ASSUME d # {u}
        PROVE  /\ \A q \in d \ {u} : Abs!TrueBy(-q, bt)
               /\ \E q \in d \ {u} : Abs!TrueAt(-q, bt)
    <3>1. bt = LitLevel(trail, s[2]) /\ Len(s) # 1
      BY <1>19, <2>1 DEF Lands
    <3>2. 1 \in 1..Len(s) /\ 2 \in 1..Len(s)
      BY <1>18, <3>1
    <3>3. s[2] \in d \ {u}
      <4>1. s[2] # s[1]
        BY <1>17, <3>2, LenProperties DEF IsInjective
      <4> QED
        BY <1>5, <1>6, <1>17, <3>2, <4>1, ToSetFacts
    <3>4. \A q \in d \ {u} : q \in Lits /\ IsFalse(trail, q)
      BY <1>7, <1>9, <1>10, <1>12
    <3>5. \A q \in d \ {u} : LitLevel(trail, q) <= bt
      <4> TAKE q \in d \ {u}
      <4>1. PICK k \in 1..Len(s) : s[k] = q
        BY <1>5, <1>17, ToSetFacts
      <4>2. k \in 2..Len(s)
        BY <1>6, <1>17, <4>1
      <4> QED
        BY <1>17, <3>1, <4>1, <4>2
    <3>6. \A q \in d \ {u} : Abs!TrueBy(-q, bt)
      BY <3>4, <3>5, AbsTruth
    <3>7. Abs!TrueAt(-s[2], bt)
      BY <3>1, <3>3, <3>4, AbsTruth
    <3> QED
      BY <3>3, <3>6, <3>7
  <2>2. d = {u} => bt = 0
    BY <1>19 DEF Lands
  <2> QED
    BY <2>1, <2>2
<1>21. Abs!Assert(bt, u, IF d = {u} THEN {} ELSE d)
  BY <1>5, <1>6, <1>19 DEF Lands
<1>22. /\ (binaries \cup LongClauses("original"))' = binaries \cup LongClauses("original")
       /\ (learntBins \cup LongClauses("learnt"))'
             = (IF d = {u} THEN learntBins \cup LongClauses("learnt")
                ELSE (learntBins \cup LongClauses("learnt")) \cup {d})
  BY <1>5, <1>19 DEF Lands, LearnedSet
<1>23. Abs!Learn(u, d, bt)
  BY <1>7, <1>12, <1>14, <1>15, <1>16, <1>20, <1>21, <1>22 DEF Abs!Learn
<1>24. d \in SUBSET AbsResolvent /\ u \in d /\ bt \in 0..(Abs!Level - 1)
  BY <1>7, <1>12, <1>13
<1> QED
  BY <1>23, <1>24 DEF Abs!Next, Abs!Deduce

LEMMA LearnImplied ==
    ASSUME SearchInv, SearchInv', RefInv, Learn
    PROVE  Implied
<1>1. PICK s, lbd : /\ s = LearnedClause /\ lbd = Lbd(s)
                    /\ pc = "analyze" /\ pc' = "learned" /\ step = "learn" /\ Learnt(s, lbd)
                    /\ conflict' = <<>> /\ step' = "none"
                    /\ UNCHANGED <<visit, clientVars, callVars>>
  BY DEF Learn
<1>2. /\ PropInv /\ LevelOf(trail) > 0 /\ AnalyzeSteps /\ conflict # <<>>
      /\ visit = NoVisit /\ WellFormed(trail) /\ LevelOf(trail) \in Nat
      /\ assumptions \in Seq(Lits) /\ PropInv'
  <2>1. PropInv'
    BY DEF SearchInv, Core
  <2> QED
    BY <1>1, <2>1, SearchFacts DEF SearchInv, Analyzed
<1>3. /\ AnalyzeRef /\ KindsKnown /\ CoreClear
      /\ Granted(trail, assumptions, LevelOf(trail))
  BY <1>1 DEF RefInv, OwnedLevels
<1>4. Asserting(trail, s) /\ lbd \in Nat
  BY <1>1, <1>2, LearnedFacts
<1>5. PICK bt \in 0..(LevelOf(trail) - 1) : Lands(s, bt)
  BY <1>1, <1>2, <1>3, <1>4, LearntLands
<1>6. AbsPhase = "conflict" /\ AbsPhase' = "search"
  BY <1>1, PhasedNext DEF PhaseIs
<1>7. AbsResolvent' = {} /\ AnalyzeRef'
  BY <1>1, NoResolventNext
<1>8. conflict_core' = conflict_core /\ assumptions' = assumptions
  BY <1>1 DEF callVars
<1>9. UNCHANGED Abs!callVars /\ UNCHANGED Abs!resultVars /\ UNCHANGED <<formula, dead>>
  BY <1>1 DEF Abs!callVars, Abs!resultVars, callVars, clientVars
<1>10. AbsStep
  BY <1>1, <1>2, <1>3, <1>5, <1>6, <1>7, <1>9, LearnAbs DEF AbsStep
<1>11. Granted(trail', assumptions', OwnedLevels')
  <2>1. Retains(trail, trail') /\ LevelOf(trail') = bt /\ bt \in Nat /\ bt <= LevelOf(trail)
    BY <1>2, <1>5 DEF Lands
  <2>2. Granted(trail', assumptions, bt)
    BY <1>2, <1>3, <2>1, CutGranted
  <2>3. OwnedLevels' = LevelOf(trail')
    BY <1>1 DEF OwnedLevels
  <2> QED
    BY <1>8, <2>1, <2>2, <2>3
<1>12. KindsKnown'
  BY <1>5 DEF Lands
<1>13. /\ ConflictStored' /\ CoreClear' /\ ProbeGranted' /\ Blames'
  BY <1>1, <1>3, <1>8 DEF ConflictStored, CoreClear, ProbeGranted, Blames
<1>14. RefInv'
  BY <1>7, <1>11, <1>12, <1>13 DEF RefInv
<1> QED
  BY <1>10, <1>14 DEF Implied

\* Sorting a finite clause loses no literal.
LEMMA SortedSet ==
    ASSUME NEW c \in Clauses, IsFiniteSet(c), NEW s, s = Sorted(c)
    PROVE  ToSet(s) = c
<1>1. PICK n \in Nat : n = Cardinality(c)
  BY FS_CardinalityType
<1>2. Sorts(s, c)
  BY SortedExists DEF Sorted, Sorts
<1>3. s \in [1..n -> c] /\ \A i, j \in 1..n : i # j => s[i] # s[j]
  BY <1>1, <1>2 DEF Sorts, SetToSeqs
<1>4. s \in Injection(1..n, c)
  BY <1>3 DEF Injection, IsInjective
<1>5. Cardinality(1..n) = n
  BY <1>1, FS_Interval
<1>6. s \in Surjection(1..n, c)
  BY <1>1, <1>4, <1>5, FS_Injection
<1>7. \A x \in c : \E i \in 1..n : s[i] = x
  BY <1>6 DEF Surjection
<1>8. s \in Seq(Lits) /\ Len(s) = n
  <2>1. s \in [1..n -> Lits]
    BY <1>3 DEF Clauses
  <2> QED
    BY <2>1, LenProperties, SeqDef
<1>9. /\ \A x \in ToSet(s) : \E k \in 1..n : s[k] = x
      /\ \A k \in 1..n : s[k] \in ToSet(s)
  BY <1>8, ToSetFacts
<1> QED
  BY <1>3, <1>7, <1>9, SMTT(20)

LEMMA FilteredSet ==
    ASSUME PropInv, NEW c \in InputClauses, NEW s, s = Filtered(c)
    PROVE  ToSet(s) = Abs!Strip(c) /\ c \subseteq Lits
<1> DEFINE d == {l \in c : ~FixedFalse(trail, l)}
<1>1. d \in Clauses /\ IsFiniteSet(d) /\ WellFormed(trail) /\ c \subseteq Lits
  BY PropagationAssumption, FS_Subset, TypedDb DEF Clauses
<1>2. s = Sorted(d)
  BY DEF Filtered
<1>3. ToSet(s) = d
  <2> HIDE DEF d
  <2> QED
    BY <1>1, <1>2, SortedSet
<1>4. Abs!Strip(c) = {l \in c : ~(IsFalse(trail, l) /\ ~(LitLevel(trail, l) > 0))}
  BY <1>1, AbsClause
<1>5. \A l \in c : FixedFalse(trail, l) <=> IsFalse(trail, l) /\ ~(LitLevel(trail, l) > 0)
  <2> TAKE l \in c
  <2>1. l \in Lits
    BY <1>1
  <2>2. FixedFalse(trail, l) <=> IsFalse(trail, l) /\ LitLevel(trail, l) = 0
    BY <1>1, <2>1, TruthFacts DEF FixedFalse, FixedTrue
  <2>3. IsFalse(trail, l) => LitLevel(trail, l) \in 0..LevelOf(trail)
    BY <1>1, <2>1, TruthFacts
  <2>4. LevelOf(trail) \in Nat
    BY <1>1, TrailParts DEF WellFormed, LevelOf
  <2> QED
    BY <2>2, <2>3, <2>4
<1> QED
  BY <1>1, <1>3, <1>4, <1>5

LEMMA PrefixIs ==
    ASSUME NEW S, NEW s \in Seq(S), NEW n \in Nat, n <= Len(s), NEW r, r = SubSeq(s, 1, n)
    PROVE  r \in Seq(S) /\ Len(r) = n /\ \A i \in 1..n : r[i] = s[i]
<1>1. Len(s) \in Nat /\ \A i \in 1..n : i \in 1..Len(s)
  BY LenProperties
<1> QED
  BY <1>1, SubSeqProperties

\* A cut after a cut is the deeper cut.
LEMMA CancelTwice ==
    ASSUME NEW t, WellFormed(t), NEW n \in 0..LevelOf(t), NEW d \in 0..n,
           NEW u, u = Cancelled(t, n)
    PROVE  Cancelled(u, d) = Cancelled(t, d)
<1>1. PICK L, M, I, q, S :
          /\ L = t.lits /\ M = t.lim /\ I = t.info /\ q = t.qhead
          /\ S = [level : Nat \cup {-1}, reason : Reasons]
          /\ L \in Seq(Lits) /\ M \in Seq(Nat) /\ I \in [Vars -> S] /\ q \in Nat
          /\ \A k \in 1..Len(M) : M[k] <= q
          /\ \A a, b \in 1..Len(M) : a <= b => M[a] <= M[b]
          /\ q <= Len(L)
          /\ \A i \in 1..Len(L) : L[i] \in Lits
  BY TrailParts DEF WellFormed
<1>2. PICK N \in Nat, H \in Nat : N = Len(L) /\ H = Len(M) /\ LevelOf(t) = H
  BY <1>1, LenProperties DEF LevelOf
<1>3. n \in Nat /\ d \in Nat /\ d <= n /\ n <= H
  BY <1>2
<1>4. CASE n = H
  <2>1. u = t
    BY <1>2, <1>4 DEF Cancelled
  <2> QED
    BY <2>1
<1>5. CASE d = n
  <2>1. LevelOf(u) <= d
    <3>1. PICK m \in 0..Len(t.lits) : CutAt(t, u, n, m)
      BY <1>3, CancelContinues
    <3> QED
      BY <1>2, <1>3, <1>5, <3>1 DEF CutAt
  <2>2. Cancelled(u, d) = u
    BY <2>1 DEF Cancelled
  <2> QED
    BY <1>5, <2>2
<1>6. CASE n < H /\ d < n
  <2>1. PICK a \in Nat, b \in Nat : a = M[n + 1] /\ b = M[d + 1]
    <3>1. n + 1 \in 1..H /\ d + 1 \in 1..H
      BY <1>2, <1>3, <1>6
    <3> QED
      BY <1>1, <1>2, <3>1, ElementOfSeq
  <2>2. b <= a /\ a <= N /\ b <= N /\ a <= q /\ b <= q
    <3>1. n + 1 \in 1..H /\ d + 1 \in 1..H /\ d + 1 <= n + 1
      BY <1>2, <1>3, <1>6
    <3>2. M[n + 1] <= q /\ M[d + 1] <= q /\ M[d + 1] <= M[n + 1]
      BY <1>1, <1>2, <3>1
    <3>3. q <= N
      BY <1>1, <1>2
    <3> QED
      BY <1>1, <1>2, <2>1, <3>2, <3>3, SMTT(20)
  <2> DEFINE gone(x) == {VarOf(L[i]) : i \in (x + 1)..N}
  <2>3. ~(H <= n) /\ ~(H <= d) /\ ~(n <= d)
    BY <1>2, <1>3, <1>6
  <2>4. u = [lits |-> SubSeq(L, 1, a), lim |-> SubSeq(M, 1, n),
             info |-> [v \in Vars |-> IF v \in gone(a) THEN Unassigned ELSE I[v]],
             qhead |-> Min({q, a})]
    BY <1>1, <1>2, <2>1, <2>3 DEF Cancelled, Cursor
  <2>5. Cancelled(t, d) =
            [lits |-> SubSeq(L, 1, b), lim |-> SubSeq(M, 1, d),
             info |-> [v \in Vars |-> IF v \in gone(b) THEN Unassigned ELSE I[v]],
             qhead |-> Min({q, b})]
    BY <1>1, <1>2, <2>1, <2>3 DEF Cancelled, Cursor
  <2>6. PICK ul, um, ui, uq : /\ ul = SubSeq(L, 1, a) /\ um = SubSeq(M, 1, n)
                              /\ ui = [v \in Vars |-> IF v \in gone(a) THEN Unassigned ELSE I[v]]
                              /\ uq = Min({q, a})
    OBVIOUS
  <2>7. u.lits = ul /\ u.lim = um /\ u.info = ui /\ u.qhead = uq
    BY <2>4, <2>6
  <2>8. /\ ul \in Seq(Lits) /\ Len(ul) = a /\ \A i \in 1..a : ul[i] = L[i]
        /\ um \in Seq(Nat) /\ Len(um) = n /\ \A i \in 1..n : um[i] = M[i]
    <3>1. L \in Seq(Lits) /\ M \in Seq(Nat) /\ a <= Len(L) /\ n <= Len(M)
      BY <1>1, <1>2, <1>3, <2>2
    <3>2. ul \in Seq(Lits) /\ Len(ul) = a /\ \A i \in 1..a : ul[i] = L[i]
      BY <2>1, <2>6, <3>1, PrefixIs
    <3>3. um \in Seq(Nat) /\ Len(um) = n /\ \A i \in 1..n : um[i] = M[i]
      BY <1>3, <2>6, <3>1, PrefixIs
    <3> QED
      BY <3>2, <3>3
  <2>9. LevelOf(u) = n /\ um[d + 1] = b
    <3>1. d + 1 \in 1..n
      BY <1>3, <1>6
    <3> QED
      BY <2>1, <2>7, <2>8, <3>1 DEF LevelOf
  <2>10. Cancelled(u, d) =
            [lits |-> SubSeq(ul, 1, b), lim |-> SubSeq(um, 1, d),
             info |-> [v \in Vars |-> IF v \in {VarOf(ul[i]) : i \in (b + 1)..a} THEN Unassigned
                                      ELSE ui[v]],
             qhead |-> Min({uq, b})]
    <3>1. ~(LevelOf(u) <= d) /\ u.lim[d + 1] = b /\ Len(u.lits) = a
      BY <2>3, <2>7, <2>8, <2>9
    <3>2. Cancelled(u, d) =
            [lits |-> SubSeq(u.lits, 1, b), lim |-> SubSeq(u.lim, 1, d),
             info |-> [v \in Vars |-> IF v \in {VarOf(u.lits[i]) : i \in (b + 1)..a} THEN Unassigned
                                      ELSE u.info[v]],
             qhead |-> Min({u.qhead, b})]
      BY <3>1 DEF Cancelled, Cursor
    <3> QED
      BY <2>7, <3>2
  <2>11. SubSeq(ul, 1, b) = SubSeq(L, 1, b)
    <3>1. /\ SubSeq(ul, 1, b) \in Seq(Lits) /\ Len(SubSeq(ul, 1, b)) = b
          /\ \A i \in 1..b : SubSeq(ul, 1, b)[i] = ul[i]
      BY <2>1, <2>2, <2>8, PrefixIs
    <3>2. /\ SubSeq(L, 1, b) \in Seq(Lits) /\ Len(SubSeq(L, 1, b)) = b
          /\ \A i \in 1..b : SubSeq(L, 1, b)[i] = L[i]
      BY <1>1, <1>2, <2>1, <2>2, PrefixIs, SMTT(20)
    <3>3. \A i \in 1..b : i \in 1..a
      BY <2>1, <2>2
    <3>4. \A i \in 1..b : SubSeq(ul, 1, b)[i] = SubSeq(L, 1, b)[i]
      BY <2>8, <3>1, <3>2, <3>3
    <3> QED
      BY <3>1, <3>2, <3>4, SameSequence
  <2>12. SubSeq(um, 1, d) = SubSeq(M, 1, d)
    <3>1. /\ SubSeq(um, 1, d) \in Seq(Nat) /\ Len(SubSeq(um, 1, d)) = d
          /\ \A i \in 1..d : SubSeq(um, 1, d)[i] = um[i]
      BY <1>3, <2>8, PrefixIs
    <3>2. /\ SubSeq(M, 1, d) \in Seq(Nat) /\ Len(SubSeq(M, 1, d)) = d
          /\ \A i \in 1..d : SubSeq(M, 1, d)[i] = M[i]
      <4>1. d <= Len(M)
        BY <1>2, <1>3
      <4> QED
        BY <1>1, <1>3, <4>1, PrefixIs, SMTT(20)
    <3>3. \A i \in 1..d : i \in 1..n
      BY <1>3
    <3>4. \A i \in 1..d : SubSeq(um, 1, d)[i] = SubSeq(M, 1, d)[i]
      BY <2>8, <3>1, <3>2, <3>3
    <3> QED
      BY <3>1, <3>2, <3>4, SameSequence
  <2>13. PICK G : G = {VarOf(ul[i]) : i \in (b + 1)..a}
    OBVIOUS
  <2>14. gone(b) = G \cup gone(a)
    <3>1. \A i \in (b + 1)..N : i \in (b + 1)..a \/ i \in (a + 1)..N
      BY <1>2, <2>1
    <3>2. \A i \in (b + 1)..a : i \in (b + 1)..N /\ ul[i] = L[i]
      <4>1. \A i \in (b + 1)..a : i \in 1..a /\ i \in (b + 1)..N
        BY <1>2, <2>1, <2>2
      <4> QED
        BY <2>8, <4>1
    <3>3. \A i \in (a + 1)..N : i \in (b + 1)..N
      BY <1>2, <2>1, <2>2
    <3> QED
      BY <2>13, <3>1, <3>2, <3>3
  <2>15. [v \in Vars |-> IF v \in G THEN Unassigned ELSE ui[v]]
            = [v \in Vars |-> IF v \in gone(b) THEN Unassigned ELSE I[v]]
    <3> HIDE DEF gone
    <3> QED
      BY <2>6, <2>14
  <2>16. Min({uq, b}) = b /\ Min({q, b}) = b
    <3>1. uq \in Nat /\ uq >= b
      <4>1. {q, a} \subseteq Nat /\ {q, a} # {}
        BY <1>1, <2>1
      <4>2. uq \in {q, a}
        BY <2>6, <4>1, MinFacts
      <4> QED
        BY <1>1, <2>1, <2>2, <4>2
    <3>2. ASSUME NEW x \in Nat, x >= b
          PROVE  Min({x, b}) = b
      <4>1. {x, b} \subseteq Nat /\ {x, b} # {}
        BY <2>1
      <4>2. Min({x, b}) \in {x, b} /\ \A y \in {x, b} : Min({x, b}) <= y
        BY <4>1, MinFacts
      <4> QED
        BY <2>1, <3>2, <4>2
    <3> QED
      BY <1>1, <2>1, <2>2, <3>1, <3>2
  <2> HIDE DEF gone
  <2> QED
    BY <2>5, <2>10, <2>11, <2>12, <2>13, <2>15, <2>16
<1> QED
  BY <1>2, <1>3, <1>4, <1>5, <1>6

\* A literal of the clause is false at level n, seen from Cdcl, if it is false
\* once the trail is cut there.
LEMMA CutFalse ==
    ASSUME PropInv, NEW n \in 0..LevelOf(trail), NEW u, u = Cancelled(trail, n), NEW l \in Lits
    PROVE  /\ Abs!TrueBy(-l, n) <=> IsFalse(u, l)
           /\ Abs!TrueBy(l, n) <=> IsTrue(u, l)
<1>1. WellFormed(trail) /\ n \in Nat
  BY TypedDb, TrailParts DEF WellFormed, LevelOf
<1>2. /\ Abs!TrueBy(-l, n) <=> IsFalse(trail, l) /\ LitLevel(trail, l) <= n
      /\ Abs!TrueBy(l, n) <=> IsTrue(trail, l) /\ LitLevel(trail, l) <= n
  BY AbsTruth
<1>3. /\ IsTrue(u, l) <=> IsTrue(trail, l) /\ LitLevel(trail, l) <= n
      /\ IsFalse(u, l) <=> IsFalse(trail, l) /\ LitLevel(trail, l) <= n
  BY <1>1, CancelledTruth
<1> QED
  BY <1>2, <1>3

\* The trail once a stored clause is in place, with d the clause.
Settles(d, n) ==
    \/ /\ \/ \E l, k \in d : l # k /\ ~Abs!TrueBy(-l, n) /\ ~Abs!TrueBy(-k, n)
          \/ \E u \in d : Abs!TrueBy(u, n)
       /\ Abs!CancelUntil(n)
    \/ \E u \in d :
          /\ ~Abs!TrueBy(u, n) /\ ~Abs!TrueBy(-u, n)
          /\ \A q \in d \ {u} : Abs!TrueBy(-q, n)
          /\ Abs!Assert(n, u, d)

\* The trail is at level n, and what it held up to there it holds.
Lowers(n) == Retains(trail, trail') /\ LevelOf(trail') = n

LEMMA CutLowers ==
    ASSUME PropInv, PropInv', ReasonsStay, NEW n \in 0..LevelOf(trail), trail' = Cancelled(trail, n)
    PROVE  Abs!CancelUntil(n) /\ Lowers(n)
<1>1. WellFormed(trail) /\ LevelOf(trail) \in Nat /\ n \in Nat
  BY TypedDb, TrailParts DEF WellFormed, LevelOf
<1>2. PICK u : u = trail' /\ u = Cancelled(trail, n)
  OBVIOUS
<1>3. Retains(trail, u) /\ LevelOf(u) = (IF LevelOf(trail) <= n THEN LevelOf(trail) ELSE n)
  BY <1>1, <1>2, CutRetains
<1>4. LevelOf(u) = n
  BY <1>1, <1>3
<1>5. Abs!CancelUntil(n)
  BY <1>1, CancelAbs
<1> QED
  BY <1>2, <1>3, <1>4, <1>5 DEF Lowers

LEMMA AddLongSettles ==
    ASSUME PropInv, PropInv', visit = NoVisit, visit' = NoVisit,
           NEW s \in Seq(Lits), IsInjective(s), NEW d, d = ToSet(s),
           \A l \in d : IsTrue(trail, l) \/ IsFalse(trail, l) => LitLevel(trail, l) > 0,
           AddLong(s), KindsKnown
    PROVE  \E n \in 0..LevelOf(trail) : Settles(d, n) /\ Lowers(n) /\ OfClauses(s, "original")
<1>1. PICK t, r : /\ t = Unfalsified(s) /\ r = Arranged(t, s)
                  /\ Attach(r, "original", 0)
                  /\ trail' = LET u == ImpliedAt(t, s)
                              IN  IF ~IsUnit(t, s) THEN t
                                  ELSE IF IsUndef(u, r[1]) THEN Enqueued(u, r[1], ReasonFrom(r))
                                  ELSE u
  BY DEF AddLong
<1>2. WellFormed(trail) /\ Len(s) >= 2 /\ LevelOf(trail) \in Nat
  BY TypedDb, TrailParts DEF AddLong, WellFormed, LevelOf
<1>3. OpenAt(t, s) # {} /\ \E n \in Nat : t = Cancelled(trail, n)
  BY <1>1, <1>2, UnfalsifiedFacts
<1>4. PICK n \in 0..LevelOf(trail) : t = Cancelled(trail, n) /\ LevelOf(t) = n
  <2>1. PICK k \in Nat : t = Cancelled(trail, k)
    BY <1>3
  <2>2. PICK m \in 0..Len(trail.lits) : CutAt(trail, t, k, m)
    BY <1>2, <2>1, CancelContinues
  <2>3. LevelOf(t) = IF LevelOf(trail) <= k THEN LevelOf(trail) ELSE k
    BY <2>2 DEF CutAt
  <2>4. CASE LevelOf(trail) <= k
    <3>1. t = trail /\ Cancelled(trail, LevelOf(trail)) = trail
      BY <1>2, <2>1, <2>4 DEF Cancelled
    <3> QED
      BY <1>2, <3>1
  <2>5. CASE ~(LevelOf(trail) <= k)
    BY <1>2, <2>1, <2>3, <2>5
  <2> QED
    BY <2>4, <2>5
<1>5. WellFormed(t) /\ n \in Nat
  <2>1. n \in Nat
    BY <1>2
  <2> QED
    BY <1>2, <1>4, <2>1, CancelContinues DEF CutAt, Continues
<1>6. PICK e : e = DeepestFalse(t, s)
  OBVIOUS
<1>7. e \in 0..n
  BY <1>4, <1>5, <1>6, DeepestFacts
<1>8. /\ r \in Seq(Lits) /\ Len(r) = Len(s) /\ ToSet(r) = d /\ IsInjective(r)
      /\ ~IsFalse(t, r[1])
      /\ ~IsUnit(t, s) => ~IsFalse(t, r[2])
      /\ IsUnit(t, s) => /\ \A i \in 2..Len(r) : IsFalse(t, r[i]) /\ LitLevel(t, r[i]) <= e
                         /\ LitLevel(t, r[2]) = e
  BY <1>2, <1>1, <1>3, <1>5, <1>6, ArrangedFacts
<1>9. PICK N \in Nat : N = Len(r) /\ N >= 2
  BY <1>2, <1>8, LenProperties
<1>10. /\ 1 \in 1..N /\ 2 \in 1..N
       /\ \A i \in 1..N : r[i] \in Lits /\ r[i] \in d
       /\ \A x \in d : \E i \in 1..N : r[i] = x
       /\ r[1] # r[2]
  <2>1. 1 \in 1..N /\ 2 \in 1..N
    BY <1>9
  <2>2. r[1] # r[2]
    BY <1>8, <1>9, <2>1, LenProperties DEF IsInjective
  <2>3. /\ \A i \in 1..N : r[i] \in Lits /\ r[i] \in d
        /\ \A x \in d : \E i \in 1..N : r[i] = x
    BY <1>8, <1>9, ElementOfSeq, ToSetFacts
  <2> QED
    BY <2>1, <2>2, <2>3
<1>11. PICK c \in Nat : Attaches(r, c) /\ (c = 0 <=> Len(r) = 2) /\ ReasonFrom(r) = Because(r, c)
  <2>1. "original" \in Kinds /\ 0 \in Nat
    BY DEF Kinds
  <2> QED
    BY <1>1, <1>8, <1>9, <2>1, AttachFacts
<1>12. ReasonsStay
  BY <1>11, StayFacts
<1>13. OfClauses(s, "original")
  <2>1. OfClauses(r, "original")
    BY <1>1, <1>8, <1>9, AttachDb
  <2>2. \A k : Gains(r, "original", k) = Gains(s, "original", k)
    BY <1>8 DEF Gains
  <2> QED
    BY <2>1, <2>2 DEF OfClauses
<1>14. CASE ~IsUnit(t, s)
  <2>1. trail' = Cancelled(trail, n)
    BY <1>1, <1>4, <1>14
  <2>2. Abs!CancelUntil(n) /\ Lowers(n)
    BY <1>12, <2>1, CutLowers
  <2>3. ~Abs!TrueBy(-r[1], n) /\ ~Abs!TrueBy(-r[2], n)
    BY <1>4, <1>8, <1>10, <1>14, CutFalse
  <2>4. Settles(d, n)
    BY <1>10, <2>2, <2>3 DEF Settles
  <2> QED
    BY <1>13, <2>2, <2>4
<1>15. CASE IsUnit(t, s)
  <2>1. e \in 0..LevelOf(trail) /\ e \in Nat
    BY <1>2, <1>4, <1>7
  <2>2. PICK u : u = Cancelled(trail, e)
    OBVIOUS
  <2>3. Cancelled(t, e) = u
    BY <1>2, <1>4, <1>7, <2>2, CancelTwice
  <2>4. trail' = IF IsUndef(u, r[1]) THEN Enqueued(u, r[1], Because(r, c)) ELSE u
    BY <1>1, <1>6, <1>11, <1>15, <2>3 DEF ImpliedAt
  <2>5. ~IsFalse(u, r[1])
    BY <1>5, <1>8, <1>10, <2>1, <2>3, CancelledTruth
  <2>6. ASSUME NEW i \in 2..N
        PROVE  IsFalse(u, r[i])
    <3>1. IsFalse(t, r[i]) /\ LitLevel(t, r[i]) <= e
      BY <1>8, <1>9, <1>15
    <3>2. i \in 1..N
      BY <1>9
    <3> QED
      BY <1>5, <1>10, <2>1, <2>3, <3>1, <3>2, CancelledTruth
  <2>7. CASE IsUndef(u, r[1])
    <3>1. trail' = Enqueued(u, r[1], Because(r, c))
      BY <2>4, <2>7
    <3>2. u \in TrailType
      BY <1>2, <2>1, <2>2, CancelContinues DEF CutAt, Continues, WellFormed
    <3>3. ReasonSet(trail', arena', r[1]) = ToSet(r) /\ Because(r, c) \in Reasons
      BY <1>8, <1>9, <1>11, <3>1, <3>2, BecauseSet
    <3>4. PICK l \in Lits, b \in Reasons : l = r[1] /\ b = Because(r, c)
      BY <1>10, <3>3
    <3>5. trail' = Enqueued(u, l, b) /\ IsUndef(u, l) /\ e <= LevelOf(trail)
      BY <1>2, <2>1, <2>7, <3>1, <3>4
    <3>6. /\ Abs!Assert(e, l, ReasonSet(trail', arena', l))
          /\ Retains(trail, trail') /\ LevelOf(trail') = e
      BY <1>12, <2>1, <2>2, <3>5, Jump
    <3>7. Abs!Assert(e, l, d)
      BY <1>8, <3>3, <3>4, <3>6
    <3>8. ~Abs!TrueBy(l, e) /\ ~Abs!TrueBy(-l, e)
      BY <2>1, <2>2, <3>5, CutFalse DEF IsUndef
    <3>9. \A q \in d \ {l} : Abs!TrueBy(-q, e)
      <4> TAKE q \in d \ {l}
      <4>1. PICK i \in 1..N : r[i] = q
        BY <1>10
      <4>2. i \in 2..N
        BY <1>9, <3>4, <4>1
      <4>3. IsFalse(u, q) /\ q \in Lits
        BY <1>10, <2>6, <4>1, <4>2
      <4> QED
        BY <2>1, <2>2, <4>3, CutFalse
    <3>10. Settles(d, e)
      BY <1>10, <3>4, <3>7, <3>8, <3>9 DEF Settles
    <3> QED
      BY <1>13, <2>1, <3>6, <3>10 DEF Lowers
  <2>8. CASE ~IsUndef(u, r[1])
    <3>1. trail' = Cancelled(trail, e)
      BY <2>2, <2>4, <2>8
    <3>2. Abs!CancelUntil(e) /\ Lowers(e)
      BY <1>12, <2>1, <3>1, CutLowers
    <3>3. Abs!TrueBy(r[1], e)
      BY <1>10, <2>1, <2>2, <2>5, <2>8, CutFalse DEF IsUndef
    <3>4. Settles(d, e)
      BY <1>10, <3>2, <3>3 DEF Settles
    <3> QED
      BY <1>13, <2>1, <3>2, <3>4
  <2> QED
    BY <2>7, <2>8
<1> QED
  BY <1>14, <1>15

\* The four ways add_clause ends, seen from Cdcl.
AddCases(c) ==
    \/ Abs!AddIgnored(c) \/ Abs!AddEmpty(c)
    \/ \E u \in Lits : Abs!AddUnit(c, u)
    \/ \E n \in 0..Abs!Level : Abs!AddStored(c, n)

\* The stored original clauses are the same.
OriginalsSame ==
    (binaries \cup LongClauses("original"))' = binaries \cup LongClauses("original")

\* The learned ones are.
LearntsSame == (learntBins \cup LongClauses("learnt"))' = learntBins \cup LongClauses("learnt")

LEMMA DbStands ==
    ASSUME UNCHANGED <<arena, binaries, learntBins>>, KindsKnown
    PROVE  KindsKnown' /\ OriginalsSame /\ LearntsSame
BY DEF KindsKnown, Crefs, Live, LongClauses, OfKind, Body, OriginalsSame, LearntsSame

LEMMA AddUnitLands ==
    ASSUME PropInv, PropInv', NEW s \in Seq(Lits), AddUnit(s),
           \A l \in ToSet(s) : IsTrue(trail, l) \/ IsFalse(trail, l) => LitLevel(trail, l) > 0
    PROVE  /\ s[1] \in Lits /\ ToSet(s) = {s[1]}
           /\ Abs!Assert(0, s[1], {}) /\ Lowers(0) /\ ~Abs!RootTrue(s[1])
<1>1. WellFormed(trail) /\ LevelOf(trail) \in Nat
  BY TypedDb, TrailParts DEF WellFormed, LevelOf
<1>2. Len(s) = 1 /\ UNCHANGED dbVars
  BY DEF AddUnit
<1>3. 1 \in 1..Len(s)
  BY <1>2
<1>4. s[1] \in Lits /\ s[1] \in ToSet(s)
  BY <1>3, ElementOfSeq, ToSetFacts
<1>5. PICK l \in Lits : l = s[1]
  BY <1>4
<1>6. ToSet(s) = {l}
  <2>1. \A x \in ToSet(s) : \E i \in 1..Len(s) : s[i] = x
    BY ToSetFacts
  <2> QED
    BY <1>2, <1>4, <1>5, <2>1
<1>7. PICK u : u = Cancelled(trail, 0)
  OBVIOUS
<1>8. trail' = Enqueued(u, l, Decision)
  BY <1>5, <1>7 DEF AddUnit
<1>9. ReasonsStay
  BY <1>2, StayFacts DEF dbVars
<1>10. 0 \in Nat /\ 0 <= LevelOf(trail) /\ Decision \in Reasons
  BY <1>1 DEF Decision, Reasons
<1>11. IsTrue(trail, l) \/ IsFalse(trail, l) => ~(LitLevel(trail, l) <= 0)
  <2>1. IsTrue(trail, l) \/ IsFalse(trail, l) => LitLevel(trail, l) \in 0..LevelOf(trail)
    BY <1>1, TruthFacts
  <2> QED
    BY <1>1, <1>4, <1>5, <2>1
<1>12. IsUndef(u, l)
  BY <1>1, <1>7, <1>10, <1>11, CancelledTruth DEF IsUndef
<1>13. /\ Abs!Assert(0, l, ReasonSet(trail', arena', l))
       /\ Retains(trail, trail') /\ LevelOf(trail') = 0
  BY <1>7, <1>8, <1>9, <1>10, <1>12, Jump
<1>14. ReasonSet(trail', arena', l) = {}
  <2>1. PICK w : w = trail'
    OBVIOUS
  <2>2. u \in TrailType
    BY <1>1, <1>7, <1>10, CancelContinues DEF CutAt, Continues, WellFormed
  <2>3. ReasonOf(w, l) = Decision
    BY <1>8, <1>10, <2>1, <2>2, EnqueuedFacts
  <2> QED
    BY <2>1, <2>3 DEF ReasonSet
<1>15. ~Abs!RootTrue(l)
  BY <1>11, AbsTruth DEF Abs!RootTrue
<1> QED
  BY <1>4, <1>5, <1>6, <1>13, <1>14, <1>15 DEF Lowers

\* A sequence without repetition of two or more literals has two of them.
LEMMA TwoOfMany ==
    ASSUME NEW s \in Seq(Lits), IsInjective(s), Len(s) >= 2
    PROVE  \E l, k \in ToSet(s) : l # k
<1>1. PICK n \in Nat : n = Len(s) /\ n >= 2
  BY LenProperties
<1>2. 1 \in 1..n /\ 2 \in 1..n
  BY <1>1
<1>3. s[1] \in ToSet(s) /\ s[2] \in ToSet(s)
  BY <1>1, <1>2, ToSetFacts
<1>4. s[1] # s[2]
  BY <1>1, <1>2, LenProperties DEF IsInjective
<1> QED
  BY <1>3, <1>4

\* A clause that is not satisfied at the root, as Cdcl sees it.
LEMMA UnsatisfiedAbs ==
    ASSUME PropInv, NEW c \in InputClauses, c \subseteq Lits
    PROVE  Satisfied(c) <=> Abs!Tautology(c) \/ \E l \in c : Abs!RootTrue(l)
<1>1. \A l \in c : Abs!RootTrue(l) <=> FixedTrue(trail, l)
  BY AbsTruth
<1>2. Abs!Tautology(c) <=> Tautology(c)
  BY DEF Abs!Tautology, Tautology
<1> QED
  BY <1>1, <1>2 DEF Satisfied

LEMMA AddLands ==
    ASSUME PropInv, PropInv', visit = NoVisit, visit' = NoVisit, KindsKnown,
           NEW c \in InputClauses, add_clause(c)
    PROVE  /\ AddCases(c) /\ KindsKnown' /\ LearntsSame
           /\ \E n \in 0..LevelOf(trail) : Lowers(n)
<1>1. WellFormed(trail) /\ LevelOf(trail) \in Nat
  BY TypedDb, TrailParts DEF WellFormed, LevelOf
<1>2. c \subseteq Lits /\ (Satisfied(c) <=> Abs!Tautology(c) \/ \E l \in c : Abs!RootTrue(l))
  BY FilteredSet, UnsatisfiedAbs
<1>3. 0 \in 0..LevelOf(trail) /\ LevelOf(trail) \in 0..LevelOf(trail)
  BY <1>1
<1>4. CASE dead \/ Satisfied(c)
  <2>1. UNCHANGED <<trail, dead, dbVars>>
    BY <1>4 DEF add_clause
  <2>2. KindsKnown' /\ OriginalsSame /\ LearntsSame
    BY <2>1, DbStands DEF dbVars
  <2>3. UNCHANGED Abs!trailVars
    BY <2>1, AbsTrailSame DEF dbVars
  <2>4. Abs!AddIgnored(c)
    BY <1>2, <1>4, <2>1, <2>2, <2>3 DEF Abs!AddIgnored, OriginalsSame
  <2>5. Lowers(LevelOf(trail))
    BY <2>1 DEF Lowers, Retains
  <2> QED
    BY <1>3, <2>2, <2>4, <2>5 DEF AddCases
<1>5. CASE ~dead /\ ~Satisfied(c)
  <2>1. PICK s : s = Filtered(c) /\ (AddEmpty(s) \/ AddUnit(s) \/ AddLong(s))
    BY <1>5 DEF add_clause
  <2>2. /\ s \in Seq(Lits) /\ IsInjective(s)
        /\ \A l \in ToSet(s) : IsTrue(trail, l) \/ IsFalse(trail, l) => LitLevel(trail, l) > 0
    BY <1>5, <2>1, FilteredFacts
  <2>3. ToSet(s) = Abs!Strip(c)
    BY <2>1, FilteredSet
  <2>4. ~dead /\ ~Abs!Tautology(c) /\ ~\E l \in c : Abs!RootTrue(l)
    BY <1>2, <1>5
  <2>5. CASE AddEmpty(s)
    <3>1. s = <<>> /\ trail' = Cancelled(trail, 0) /\ dead' = TRUE /\ UNCHANGED dbVars
      BY <2>5 DEF AddEmpty
    <3>2. KindsKnown' /\ OriginalsSame /\ LearntsSame
      BY <3>1, DbStands DEF dbVars
    <3>3. ReasonsStay
      BY <3>1, StayFacts DEF dbVars
    <3>4. Abs!CancelUntil(0) /\ Lowers(0)
      BY <1>3, <3>1, <3>3, CutLowers
    <3>5. Abs!Strip(c) = {}
      <4>1. \A x \in ToSet(s) : \E i \in 1..Len(s) : s[i] = x
        BY <2>2, ToSetFacts
      <4> QED
        BY <2>3, <3>1, <4>1
    <3>6. Abs!AddEmpty(c)
      BY <2>4, <3>1, <3>2, <3>4, <3>5 DEF Abs!AddEmpty, OriginalsSame
    <3> QED
      BY <1>3, <3>2, <3>4, <3>6 DEF AddCases
  <2>6. CASE AddUnit(s)
    <3>1. UNCHANGED <<dead, dbVars>>
      BY <2>6 DEF AddUnit
    <3>2. KindsKnown' /\ OriginalsSame /\ LearntsSame
      BY <3>1, DbStands DEF dbVars
    <3>3. /\ s[1] \in Lits /\ ToSet(s) = {s[1]}
          /\ Abs!Assert(0, s[1], {}) /\ Lowers(0) /\ ~Abs!RootTrue(s[1])
      BY <2>2, <2>6, AddUnitLands
    <3>4. PICK u \in Lits : u = s[1]
      BY <3>3
    <3>5. Abs!AddUnit(c, u)
      BY <2>3, <2>4, <3>1, <3>2, <3>3, <3>4 DEF Abs!AddUnit, OriginalsSame
    <3> QED
      BY <1>3, <3>2, <3>3, <3>5 DEF AddCases
  <2>7. CASE AddLong(s)
    <3>1. Len(s) >= 2 /\ dead' = dead
      BY <2>7 DEF AddLong
    <3>2. PICK d : d = ToSet(s)
      OBVIOUS
    <3>3. PICK n \in 0..LevelOf(trail) : Settles(d, n) /\ Lowers(n) /\ OfClauses(s, "original")
      BY <2>2, <2>7, <3>2, AddLongSettles
    <3>4. /\ KindsKnown' /\ LearntsSame
          /\ (binaries \cup LongClauses("original"))'
                = (binaries \cup LongClauses("original")) \cup {d}
      BY <3>2, <3>3 DEF OfClauses, Gains, LearntsSame
    <3>5. \E l, k \in d : l # k
      BY <2>2, <3>1, <3>2, TwoOfMany
    <3>6. d = Abs!Strip(c) /\ n \in 0..Abs!Level
      BY <2>3, <3>2, AbsLengths
    <3>7. Abs!AddStored(c, n)
      BY <2>4, <3>1, <3>3, <3>4, <3>5, <3>6 DEF Abs!AddStored, Settles
    <3> QED
      BY <3>3, <3>4, <3>6, <3>7 DEF AddCases
  <2> QED
    BY <2>1, <2>5, <2>6, <2>7
<1> QED
  BY <1>4, <1>5

LEMMA AddClauseImplied ==
    ASSUME SearchInv, SearchInv', RefInv, NEW c \in InputClauses, AddClause(c)
    PROVE  Implied
<1>1. /\ pc = "idle" /\ pc' = "idle" /\ add_clause(c)
      /\ answer' = "none" /\ query' = <<>> /\ forced' = {} /\ formula' = formula \cup {c}
      /\ visit' = visit /\ conflict' = conflict
      /\ UNCHANGED <<assumptions, conflict_core, base>>
  BY DEF AddClause, MayCall, add_clause
<1>2. /\ PropInv /\ visit = NoVisit /\ conflict = <<>> /\ WellFormed(trail) /\ PropInv'
      /\ assumptions \in Seq(Lits) /\ LevelOf(trail) \in Nat
  <2>1. PropInv'
    BY DEF SearchInv, Core
  <2> QED
    BY <1>1, <2>1, SearchFacts DEF SearchInv, Rested
<1>3. KindsKnown /\ Granted(trail, assumptions, LevelOf(trail))
  BY <1>1 DEF RefInv, OwnedLevels
<1>4. AddCases(c) /\ KindsKnown' /\ LearntsSame
  BY <1>1, <1>2, <1>3, AddLands
<1>5. PICK n \in 0..LevelOf(trail) : Lowers(n)
  BY <1>1, <1>2, <1>3, AddLands
<1>6. Granted(trail', assumptions', LevelOf(trail'))
  <2>1. Retains(trail, trail') /\ LevelOf(trail') = n /\ n \in Nat /\ n <= LevelOf(trail)
    BY <1>2, <1>5 DEF Lowers
  <2>2. Granted(trail', assumptions, n)
    BY <1>2, <1>3, <2>1, CutGranted
  <2> QED
    BY <1>1, <2>1, <2>2
<1>7. ConflictStored' /\ CoreClear'
  BY <1>1, <1>2 DEF ConflictStored, CoreClear
<1>8. RefInv' /\ AbsResolvent = {} /\ AbsResolvent' = {}
  BY <1>1, <1>4, <1>6, <1>7, Searching
<1>9. AbsPhase = "idle" /\ AbsPhase' = "idle"
  BY <1>1, PhasedNext DEF PhaseIs
<1>10. Abs!AddClause(c)
  <2>1. \/ Abs!AddIgnored(c) \/ Abs!AddEmpty(c)
        \/ \E u \in Lits : Abs!AddUnit(c, u)
        \/ \E k \in 0..Abs!Level : Abs!AddStored(c, k)
    BY <1>4 DEF AddCases
  <2>2. (learntBins \cup LongClauses("learnt"))' = learntBins \cup LongClauses("learnt")
    BY <1>4 DEF LearntsSame
  <2>3. (IF pc = "blame" THEN {} ELSE conflict_core)' = IF pc = "blame" THEN {} ELSE conflict_core
    BY <1>1
  <2>4. Abs!Lits = Lits
    BY DEF Abs!Lits, Lits
  <2> QED
    BY <1>1, <1>8, <1>9, <2>1, <2>2, <2>3, <2>4 DEF Abs!AddClause
<1> QED
  BY <1>8, <1>10 DEF Implied, AbsStep, Abs!Next, Abs!Call

(***************************************************************************)
(* Every step is one of Cdcl's.                                             *)
(***************************************************************************)
LEMMA CallImplied ==
    ASSUME SearchInv, SearchInv', RefInv, Call
    PROVE  Implied
<1>1. CASE \E c \in InputClauses : AddClause(c)
  BY <1>1, AddClauseImplied
<1>2. CASE \E asked \in AssumptionLists : AskDead(asked) \/ Solve(asked) \/ Probe(asked)
  BY <1>2, AskDeadImplied, SolveImplied, ProbeImplied
<1> QED
  BY <1>1, <1>2 DEF Call

\* A step of a call that leaves it without a conflict at the root.
LEMMA SearchImplied ==
    ASSUME SearchInv, SearchInv', RefInv, CORE_ON, Run, ~RootConflict
    PROVE  Implied
<1>1. CASE Propagate
  BY <1>1, PropagateImplied
<1>2. CASE Rebuild
  BY <1>2, RebuildImplied
<1>3. CASE EnterLoop \/ Continue
  BY <1>3, EnterImplied
<1>4. CASE Conflict
  BY <1>4, ConflictImplied
<1>5. CASE Analyse
  BY <1>5, AnalyseImplied
<1>6. CASE Learn
  BY <1>6, LearnImplied
<1>7. CASE Stop
  BY <1>7, StopImplied
<1>8. CASE ReduceDb
  BY <1>8, ReduceDbImplied
<1>9. CASE Restart
  BY <1>9, RestartImplied
<1>10. CASE AlreadyTrue
  BY <1>10, AlreadyTrueImplied
<1>11. CASE Clash
  BY <1>11, ClashImplied
<1>12. CASE TraceClash
  BY <1>12, TraceClashImplied
<1>13. CASE Trace
  BY <1>13, TraceImplied
<1>14. CASE EndTrace
  BY <1>14, EndTraceImplied
<1>15. CASE Assume
  BY <1>15, AssumeImplied
<1>16. CASE FoundModel
  BY <1>16, FoundModelImplied
<1>17. CASE \E l \in DecisionLits : Branch(l)
  BY <1>17, BranchImplied
<1>18. CASE ProbePrefixConflict
  BY <1>18, ProbePrefixImplied
<1>19. CASE ProbeConflict
  BY <1>19, ProbeConflictImplied
<1>20. CASE ProbeSkip
  BY <1>20, ProbeSkipImplied
<1>21. CASE ProbeFalse
  BY <1>21, ProbeFalseImplied
<1>22. CASE ProbeAssume
  BY <1>22, ProbeAssumeImplied
<1>23. CASE ProbeRead
  BY <1>23, ProbeReadImplied
<1> QED
  BY <1>1, <1>2, <1>3, <1>4, <1>5, <1>6, <1>7, <1>8, <1>9, <1>10, <1>11, <1>12, <1>13, <1>14,
     <1>15, <1>16, <1>17, <1>18, <1>19, <1>20, <1>21, <1>22, <1>23 DEF Run

\* A step of a call, also one that ends it at the root.
LEMMA RunImplied ==
    ASSUME SearchInv, RefInv, CORE_ON, Run
    PROVE  AbsStep /\ (refuted' \/ RefInv')
<1>1. CASE RootConflict
  BY <1>1, RootConflictAbs, RootConflictEnds
<1>2. CASE ProbePrefixConflict /\ base = 0
  BY <1>2, ProbeRootAbs, ProbePrefixEnds
<1>3. CASE SearchInv' /\ ~RootConflict
  BY <1>3, SearchImplied DEF Implied
<1>4. ~RootConflict /\ ~(ProbePrefixConflict /\ base = 0) => SearchInv'
  BY RunKeeps, ProbePrefixEnds
<1> QED
  BY <1>1, <1>2, <1>3, <1>4

\* A step that changes nothing is no step of Cdcl.
LEMMA IdleAbs ==
    ASSUME UNCHANGED vars
    PROVE  UNCHANGED Abs!vars
<1>1. /\ UNCHANGED <<propVars, clientVars, analyzeVars, pc, callVars>>
      /\ UNCHANGED <<trail, arena, binaries, learntBins, dbVars>>
      /\ UNCHANGED <<step, seen, work>>
      /\ UNCHANGED <<assumptions, query, base, conflict_core, forced, answer, pc>>
  BY DEF vars, propVars, dbVars, callVars, analyzeVars
<1>2. UNCHANGED Abs!dbVars /\ UNCHANGED Abs!trailVars /\ UNCHANGED Abs!callVars
  BY <1>1, AbsDbSame, AbsTrailSame, AbsCallsSame
<1>3. AbsResolvent' = AbsResolvent /\ AbsPhase' = AbsPhase
  BY <1>1 DEF AbsResolvent, AbsPhase, Above
<1> QED
  BY <1>1, <1>2, <1>3 DEF Abs!vars, Abs!resultVars

LEMMA IdleRef ==
    ASSUME RefInv, UNCHANGED vars
    PROVE  RefInv'
<1>1. /\ UNCHANGED <<propVars, clientVars>>
      /\ UNCHANGED <<step, seen, work>>
      /\ UNCHANGED <<assumptions, query, base, at, conflict_core, pc>>
  BY DEF vars, callVars, analyzeVars
<1>2. KindsKnown' /\ ConflictStored' /\ trail' = trail /\ Tails' = Tails
  BY <1>1, Standing
<1>3. CoreClear' /\ ProbeGranted' /\ Granted(trail', assumptions', OwnedLevels')
  BY <1>1, <1>2 DEF RefInv, CoreClear, ProbeGranted, OwnedLevels
<1>4. AnalyzeRef'
  BY <1>1, <1>2 DEF RefInv, AnalyzeRef
<1>5. Blames'
  BY <1>1, <1>2 DEF RefInv, Blames, NextAssumption
<1> QED
  BY <1>2, <1>3, <1>4, <1>5 DEF RefInv

(***************************************************************************)
(* The refinement.                                                          *)
(***************************************************************************)
LEMMA InitRef == Init => RefInv /\ Abs!Init
<1> SUFFICES ASSUME Init
             PROVE  RefInv /\ Abs!Init
  OBVIOUS
<1>1. /\ trail = EmptyTrail /\ arena = <<>> /\ binaries = {} /\ learntBins = {} /\ conflict = <<>>
      /\ formula = {} /\ dead = FALSE /\ step = "none" /\ pc = "idle"
      /\ assumptions = <<>> /\ query = <<>> /\ base = 0 /\ conflict_core = {} /\ forced = {}
      /\ answer = "none"
  BY DEF Init, PropInit, AnalyzeInit
<1>2. trail.lits = <<>> /\ trail.lim = <<>> /\ LevelOf(trail) = 0
  BY <1>1 DEF EmptyTrail, LevelOf
<1>3. KindsKnown /\ \A k : LongClauses(k) = {}
  BY <1>1 DEF KindsKnown, Crefs, LongClauses, OfKind
<1>4. AbsTrail = <<>>
  BY <1>2 DEF AbsTrail
<1>5. ConflictStored /\ CoreClear /\ ProbeGranted /\ AnalyzeRef /\ Blames
  BY <1>1 DEF ConflictStored, CoreClear, ProbeGranted, AnalyzeRef, Blames
<1>6. Granted(trail, assumptions, OwnedLevels)
  BY <1>1, <1>2 DEF Granted, OwnedLevels
<1>7. AbsResolvent = {} /\ AbsPhase = "idle"
  BY <1>1 DEF AbsResolvent, AbsPhase
<1>8. Abs!Init
  BY <1>1, <1>2, <1>3, <1>4, <1>7 DEF Abs!Init
<1> QED
  BY <1>3, <1>5, <1>6, <1>8 DEF RefInv

\* The invariant of the refinement: after a conflict at the root nothing but
\* the types is known, and nothing happens any more.
RefIInv == IInv /\ (refuted \/ RefInv)

\* Every step is one of Cdcl's or none, and what that takes is kept.
LEMMA NextRef ==
    ASSUME ~AskAgain, CORE_ON, RefIInv, [Next]_vars
    PROVE  RefIInv' /\ AbsStep
<1>1. IInv'
  BY NextIInv DEF RefIInv
<1>2. CASE UNCHANGED vars
  <2>1. UNCHANGED Abs!vars
    BY <1>2, IdleAbs
  <2>2. refuted' = refuted
    BY <1>2 DEF vars, callVars
  <2> QED
    BY <1>1, <1>2, <2>1, <2>2, IdleRef DEF RefIInv, AbsStep
<1>3. CASE refuted
  BY <1>2, <1>3, EndedIdle DEF RefIInv, IInv
<1>4. CASE ~refuted
  <2>1. SearchInv /\ RefInv
    BY <1>4 DEF RefIInv, IInv
  <2>2. CASE Call
    <3>1. SearchInv'
      BY <2>1, <2>2, CallSearch
    <3> QED
      BY <1>1, <2>1, <2>2, <3>1, CallImplied DEF Implied, RefIInv
  <2>3. CASE Run
    BY <1>1, <2>1, <2>3, RunImplied DEF RefIInv
  <2> QED
    BY <1>2, <2>2, <2>3 DEF Next, Rest
<1> QED
  BY <1>3, <1>4

\* The incremental solver with its watch lists, marks, levels, reused trails
\* and heuristics implements the calculus of module Cdcl: each of its steps
\* adds, propagates, decides, resolves, learns, forgets or answers as Cdcl may,
\* or is not visible there.  The client heeds a refutation, and analyze_final
\* traces the core.
THEOREM Refines == ~AskAgain /\ CORE_ON => (Spec => Implements)
<1> SUFFICES ASSUME ~AskAgain, CORE_ON
             PROVE  Spec => Implements
  OBVIOUS
<1>1. Init => RefIInv /\ Abs!Init
  BY InitIInv, InitRef DEF RefIInv
<1>2. RefIInv /\ [Next]_vars => RefIInv' /\ [Abs!Next]_(Abs!vars)
  BY NextRef DEF AbsStep
<1> QED
  BY <1>1, <1>2, PTL DEF Spec, Implements, Abs!Spec

(***************************************************************************)
(* The answers of the detailed solver.  Module Cdcl says what an answer     *)
(* means; the theorems about it hold of every specification that implements *)
(* it.  Calculus is Cdcl under the mapping of Abs, with its theorems.       *)
(***************************************************************************)
Calculus == INSTANCE CdclProofs WITH
    originals <- binaries \cup LongClauses("original"),
    learnts <- learntBins \cup LongClauses("learnt"),
    trail <- AbsTrail,
    lim <- trail.lim,
    resolvent <- AbsResolvent,
    core <- IF pc = "blame" THEN {} ELSE conflict_core,
    phase <- AbsPhase

\* Both instances are one specification, action by action.
LEMMA SameCall == Abs!Call <=> Calculus!Call
BY DEF Abs!AddClause, Calculus!AddClause, Abs!AddEmpty, Calculus!AddEmpty,
       Abs!AddIgnored, Calculus!AddIgnored, Abs!AddStored, Calculus!AddStored,
       Abs!AddUnit, Calculus!AddUnit, Abs!Assert, Calculus!Assert, Abs!Call,
       Calculus!Call, Abs!CancelUntil, Calculus!CancelUntil, Abs!Cut, Calculus!Cut,
       Abs!Kept, Calculus!Kept, Abs!KeptLim, Calculus!KeptLim, Abs!Level,
       Calculus!Level, Abs!Lits, Calculus!Lits, Abs!Negated, Calculus!Negated,
       Abs!Probe, Calculus!Probe, Abs!ProbeDead, Calculus!ProbeDead, Abs!RootFalse,
       Calculus!RootFalse, Abs!RootTrue, Calculus!RootTrue, Abs!Shared, Calculus!Shared,
       Abs!Solve, Calculus!Solve, Abs!SolveDead, Calculus!SolveDead, Abs!Strip,
       Calculus!Strip, Abs!Tautology, Calculus!Tautology, Abs!TrueBy, Calculus!TrueBy,
       Abs!dbVars, Calculus!dbVars, Abs!trailVars, Calculus!trailVars

LEMMA SameDeduce == Abs!Deduce <=> Calculus!Deduce
BY DEF Abs!Assert, Calculus!Assert, Abs!Conflict, Calculus!Conflict, Abs!Cut,
       Calculus!Cut, Abs!Db, Calculus!Db, Abs!Deduce, Calculus!Deduce, Abs!Explain,
       Calculus!Explain, Abs!False, Calculus!False, Abs!Falsified, Calculus!Falsified,
       Abs!Follows, Calculus!Follows, Abs!Kept, Calculus!Kept, Abs!KeptLim,
       Calculus!KeptLim, Abs!Learn, Calculus!Learn, Abs!Level, Calculus!Level, Abs!Lits,
       Calculus!Lits, Abs!Negated, Calculus!Negated, Abs!Propagate, Calculus!Propagate,
       Abs!RootConflict, Calculus!RootConflict, Abs!RootFalse, Calculus!RootFalse,
       Abs!RootTrue, Calculus!RootTrue, Abs!Strip, Calculus!Strip, Abs!Supported,
       Calculus!Supported, Abs!Tautology, Calculus!Tautology, Abs!True, Calculus!True,
       Abs!TrueAt, Calculus!TrueAt, Abs!TrueBy, Calculus!TrueBy, Abs!Undef,
       Calculus!Undef, Abs!UnitWith, Calculus!UnitWith, Abs!callVars, Calculus!callVars,
       Abs!dbVars, Calculus!dbVars, Abs!resultVars, Calculus!resultVars, Abs!trailVars,
       Calculus!trailVars

LEMMA SameManage == Abs!Manage <=> Calculus!Manage
BY DEF Abs!CancelUntil, Calculus!CancelUntil, Abs!Cut, Calculus!Cut, Abs!Kept,
       Calculus!Kept, Abs!KeptLim, Calculus!KeptLim, Abs!Level, Calculus!Level,
       Abs!Manage, Calculus!Manage, Abs!ReduceDb, Calculus!ReduceDb, Abs!Restart,
       Calculus!Restart, Abs!Stop, Calculus!Stop, Abs!callVars, Calculus!callVars,
       Abs!dbVars, Calculus!dbVars, Abs!resultVars, Calculus!resultVars, Abs!trailVars,
       Calculus!trailVars

LEMMA SameSearch == Abs!Search <=> Calculus!Search
BY DEF Abs!AlreadyTrue, Calculus!AlreadyTrue, Abs!Assume, Calculus!Assume, Abs!Branch,
       Calculus!Branch, Abs!Clash, Calculus!Clash, Abs!Db, Calculus!Db, Abs!Decide,
       Calculus!Decide, Abs!False, Calculus!False, Abs!Falsified, Calculus!Falsified,
       Abs!Fixpoint, Calculus!Fixpoint, Abs!Follows, Calculus!Follows, Abs!FoundModel,
       Calculus!FoundModel, Abs!Level, Calculus!Level, Abs!Lits, Calculus!Lits,
       Abs!Negated, Calculus!Negated, Abs!NextAssumption, Calculus!NextAssumption,
       Abs!Pending, Calculus!Pending, Abs!RootTrue, Calculus!RootTrue, Abs!Search,
       Calculus!Search, Abs!Supported, Calculus!Supported, Abs!Tautology,
       Calculus!Tautology, Abs!True, Calculus!True, Abs!TrueBy, Calculus!TrueBy,
       Abs!Undef, Calculus!Undef, Abs!UnitWith, Calculus!UnitWith, Abs!callVars,
       Calculus!callVars, Abs!dbVars, Calculus!dbVars, Abs!resultVars,
       Calculus!resultVars, Abs!trailVars, Calculus!trailVars

LEMMA SameProbeStep == Abs!ProbeStep <=> Calculus!ProbeStep
BY DEF Abs!CancelUntil, Calculus!CancelUntil, Abs!Cut, Calculus!Cut, Abs!Db,
       Calculus!Db, Abs!Decide, Calculus!Decide, Abs!False, Calculus!False,
       Abs!Falsified, Calculus!Falsified, Abs!Fixpoint, Calculus!Fixpoint, Abs!Kept,
       Calculus!Kept, Abs!KeptLim, Calculus!KeptLim, Abs!Level, Calculus!Level,
       Abs!ProbeAssume, Calculus!ProbeAssume, Abs!ProbeRead, Calculus!ProbeRead,
       Abs!ProbeRefuted, Calculus!ProbeRefuted, Abs!ProbeStep, Calculus!ProbeStep,
       Abs!True, Calculus!True, Abs!Undef, Calculus!Undef, Abs!UnitWith,
       Calculus!UnitWith, Abs!callVars, Calculus!callVars, Abs!dbVars, Calculus!dbVars,
       Abs!resultVars, Calculus!resultVars

LEMMA SameSpec == Abs!Spec => Calculus!Spec
<1>1. Abs!Init <=> Calculus!Init
  BY DEF Abs!Init, Calculus!Init
<1>2. Abs!Next <=> Calculus!Next
  BY SameCall, SameDeduce, SameManage, SameSearch, SameProbeStep DEF Abs!Next, Calculus!Next
<1>3. [Abs!Next]_(Abs!vars) => [Calculus!Next]_(Calculus!vars)
  BY <1>2 DEF Abs!vars, Calculus!vars, Abs!dbVars, Calculus!dbVars, Abs!trailVars,
       Calculus!trailVars, Abs!callVars, Calculus!callVars, Abs!resultVars, Calculus!resultVars
<1> QED
  BY <1>1, <1>3, PTL DEF Abs!Spec, Calculus!Spec

\* What Cdcl promises in every reachable state, and the types of the solver.
Promised ==
    /\ TypeOK
    /\ Calculus!UnsatIsProof /\ Calculus!SatIsModel /\ Calculus!ProbeRight
    /\ Calculus!CoreRight /\ Calculus!LearntsImplied

LEMMA PromisesKept == ~AskAgain /\ CORE_ON => (Spec => []Promised)
<1> SUFFICES ASSUME ~AskAgain, CORE_ON
             PROVE  Spec => []Promised
  OBVIOUS
<1>1. Spec => []TypeOK
  BY Types
<1>2. Spec => Calculus!Spec
  BY Refines, SameSpec, PTL DEF Implements
<1>3. Calculus!Spec => []Calculus!UnsatIsProof
  BY Calculus!UnsatSound, VarsAssumption, PropagationAssumption, SolverAssumption
     DEF Clauses, Calculus!Clauses, Lits, Calculus!Lits
<1>4. Calculus!Spec => []Calculus!SatIsModel
  BY Calculus!SatSound, VarsAssumption, PropagationAssumption, SolverAssumption
     DEF Clauses, Calculus!Clauses, Lits, Calculus!Lits
<1>5. Calculus!Spec => []Calculus!ProbeRight
  BY Calculus!ProbeSound, VarsAssumption, PropagationAssumption, SolverAssumption
     DEF Clauses, Calculus!Clauses, Lits, Calculus!Lits
<1>6. Calculus!Spec => []Calculus!CoreRight
  BY Calculus!CoreSound, VarsAssumption, PropagationAssumption, SolverAssumption
     DEF Clauses, Calculus!Clauses, Lits, Calculus!Lits
<1>7. Calculus!Spec => []Calculus!LearntsImplied
  BY Calculus!LearntsSound, VarsAssumption, PropagationAssumption, SolverAssumption
     DEF Clauses, Calculus!Clauses, Lits, Calculus!Lits
<1>8. /\ TypeOK /\ Calculus!UnsatIsProof /\ Calculus!SatIsModel /\ Calculus!ProbeRight
      /\ Calculus!CoreRight /\ Calculus!LearntsImplied
      => Promised
  BY DEF Promised
<1> QED
  BY <1>1, <1>2, <1>3, <1>4, <1>5, <1>6, <1>7, <1>8, PTL

\* What the literals and the formulas of Cdcl are here.
LEMMA SameMeaning ==
    ASSUME TypeOK
    PROVE  /\ Calculus!QueryLits = ToSet(query)
           /\ \A F, K : Calculus!Refuted(F, K) <=> Refuted(F, K)
           /\ \A F, c : Calculus!Entails(F, c) <=> Entails(F, c)
           /\ \A F : Calculus!Models(F) = Models(F)
           /\ \A M, l : Calculus!Holds(M, l) <=> Holds(M, l)
           /\ Calculus!Lits = Lits
           /\ \A l : Calculus!True(l) <=> IsTrue(trail, l)
           /\ \A l : Calculus!RootTrue(l) <=> IsTrue(trail, l) /\ LitLevel(trail, l) <= 0
           /\ Calculus!Model = {v \in Vars : IsTrue(trail, v)}
<1>1. Calculus!QueryLits = ToSet(query)
  BY DEF Calculus!QueryLits, ToSet
<1>2. /\ \A F : Calculus!Models(F) = Models(F)
      /\ \A M, l : Calculus!Holds(M, l) <=> Holds(M, l)
  BY DEF Calculus!Models, Models, Calculus!Satisfies, Satisfies, Calculus!Holds, Holds,
         Calculus!Assignments, Assignments
<1>3. /\ \A F, K : Calculus!Refuted(F, K) <=> Refuted(F, K)
      /\ \A F, c : Calculus!Entails(F, c) <=> Entails(F, c)
  BY <1>2 DEF Calculus!Refuted, Refuted, Calculus!Entails, Entails, Calculus!Satisfies, Satisfies
<1>4. Calculus!Lits = Lits
  BY DEF Calculus!Lits, Lits
<1>5. trail.lits \in Seq(Lits)
  BY DEF TypeOK, PropTypeOK, TrailType
<1>6. /\ DOMAIN AbsTrail = 1..Len(trail.lits)
      /\ \A i \in DOMAIN AbsTrail : /\ AbsTrail[i].lit = trail.lits[i]
                                    /\ AbsTrail[i].level = LitLevel(trail, trail.lits[i])
  BY <1>5 DEF AbsTrail
<1>7. \A l : Calculus!True(l) <=> IsTrue(trail, l)
  BY <1>6 DEF Calculus!True, IsTrue, Contains
<1>8. \A l : Calculus!RootTrue(l) <=> IsTrue(trail, l) /\ LitLevel(trail, l) <= 0
  BY <1>6 DEF Calculus!RootTrue, Calculus!TrueBy, IsTrue, Contains
<1>9. Calculus!Model = {v \in Vars : IsTrue(trail, v)}
  BY <1>7 DEF Calculus!Model
<1> QED
  BY <1>1, <1>2, <1>3, <1>4, <1>7, <1>8, <1>9

\* solve_with_assumptions answers Unsat only when no model of the clauses ever
\* added satisfies the assumptions of that call, whatever analysis, minimization,
\* backjumps, deletions, restarts and kept trails led to it.
UnsatAnswerRight == answer = "unsat" => Refuted(formula, ToSet(query))

THEOREM UnsatAnswers == ~AskAgain /\ CORE_ON => (Spec => []UnsatAnswerRight)
<1>1. Promised => UnsatAnswerRight
  BY SameMeaning DEF Promised, UnsatAnswerRight, Calculus!UnsatIsProof
<1> QED
  BY <1>1, PromisesKept, PTL

\* has_model: what the trail of a Sat answer assigns is a model of every clause
\* ever added and of the assumptions of that call.
SatAnswerRight ==
    /\ HasModelIsModel
    /\ answer = "sat" => \A l \in ToSet(query) : Holds({v \in Vars : IsTrue(trail, v)}, l)

THEOREM SatAnswers == ~AskAgain /\ CORE_ON => (Spec => []SatAnswerRight)
<1>1. Promised => SatAnswerRight
  BY SameMeaning DEF Promised, SatAnswerRight, Calculus!SatIsModel, HasModelIsModel
<1> QED
  BY <1>1, PromisesKept, PTL

\* probe_under_assumptions refutes only what is unsatisfiable under its
\* assumptions, and each literal it reports as forced holds in every model.
ProbeAnswerRight ==
    /\ answer = "refuted" => Refuted(formula, ToSet(query))
    /\ answer = "forced" => \A l \in forced : Refuted(formula, ToSet(query) \cup {-l})

THEOREM ProbeAnswers == ~AskAgain /\ CORE_ON => (Spec => []ProbeAnswerRight)
<1>1. Promised => ProbeAnswerRight
  BY SameMeaning DEF Promised, ProbeAnswerRight, Calculus!ProbeRight, Calculus!RefutedIsProof, Calculus!ForcedIsImplied
<1> QED
  BY <1>1, PromisesKept, PTL

\* unsat_core is unsatisfiable with the formula whenever it is complete, and it
\* blames assumptions of the call it answers, unless add_clause had found the
\* formula unsatisfiable before that call.
CoreAnswerRight ==
    pc # "blame" => /\ conflict_core # {} => Refuted(formula, conflict_core)
                    /\ ~dead => CoreIsCurrent

THEOREM CoreAnswers == ~AskAgain /\ CORE_ON => (Spec => []CoreAnswerRight)
<1>1. Promised => CoreAnswerRight
  BY SameMeaning DEF Promised, CoreAnswerRight, Calculus!CoreRight, Calculus!CoreIsUnsat, Calculus!CoreFromQuery, CoreIsCurrent
<1> QED
  BY <1>1, PromisesKept, PTL

\* Each learned clause that is still stored, and each literal fixed at level 0,
\* follows from the clauses added, whatever the assumptions it was learned under.
LearntRight ==
    /\ \A c \in OfKind("learnt") : Entails(formula, ToSet(Body(c)))
    /\ \A c \in learntBins : Entails(formula, c)
    /\ \A l \in Lits : IsTrue(trail, l) /\ LitLevel(trail, l) <= 0 => Entails(formula, {l})

THEOREM LearntAnswers == ~AskAgain /\ CORE_ON => (Spec => []LearntRight)
<1>1. Promised => LearntRight
  BY SameMeaning DEF Promised, LearntRight, Calculus!LearntsImplied, LongClauses
<1> QED
  BY <1>1, PromisesKept, PTL

================================================================================
