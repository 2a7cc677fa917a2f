---------------------------- MODULE PropagationProofs ----------------------------
(***************************************************************************)
(* What unit propagation keeps (module Propagation under its most general   *)
(* client), for any clauses, variables and bounds.                          *)
(***************************************************************************)
EXTENDS PropagationClient, PropagationTheorems

IInv == PropInv /\ decisions \in 0..MaxDecisions

(***************************************************************************)
(* The client's steps.                                                      *)
(***************************************************************************)
LEMMA CancelKeeps ==
    ASSUME PropInv, NEW n \in 0..(LevelOf(trail) - 1), Cancel(n)
    PROVE  PropInv'
<1>1. /\ visit = NoVisit /\ visit' = NoVisit /\ conflict' = <<>> /\ UNCHANGED dbVars
      /\ formula' = formula /\ dead' = dead /\ trail' = Cancelled(trail, n)
  BY DEF Cancel, Busy, clientVars
<1>2. LevelOf(trail) \in Nat
  BY TypedDb, TrailParts DEF WellFormed, LevelOf
<1>3. n \in Nat /\ n < LevelOf(trail)
  BY <1>2
<1>4. formula' \subseteq InputClauses /\ dead' \in BOOLEAN
  BY <1>1, TypedDb
<1> QED
  BY <1>1, <1>3, <1>4, CutStep

LEMMA DecideKeeps ==
    ASSUME PropInv, NEW l \in DecisionLits, Decide(l)
    PROVE  PropInv'
<1>1. /\ Quiet /\ visit' = visit /\ conflict' = conflict /\ UNCHANGED dbVars
      /\ formula' = formula /\ dead' = dead
      /\ trail' = Enqueued(Opened(trail), l, Decision) /\ IsUndef(trail, l)
  BY DEF Decide, clientVars
<1>2. l \in Lits /\ formula' \subseteq InputClauses /\ dead' \in BOOLEAN
  BY <1>1, TypedDb, PropagationAssumption
<1> QED
  BY <1>1, <1>2, DecideStep

LEMMA LearnKeeps ==
    ASSUME PropInv, NEW c \in SUBSET FalseLits, NEW s \in SetToSeqs(c), s # <<>>, Learn(s)
    PROVE  PropInv'
<1>1. /\ conflict # <<>> /\ conflict' = <<>> /\ LevelOf(trail) > 0 /\ Asserting(s)
      /\ Learnt(s, 1) /\ visit' = visit /\ formula' = formula /\ dead' = dead
  BY DEF Learn, clientVars
<1>2. /\ s \in Seq(Lits) /\ IsInjective(s) /\ Len(s) >= 1 /\ DOMAIN s = 1..Len(s)
      /\ \A i \in 1..Len(s) : IsFalse(trail, s[i])
  <2>1. IsFiniteSet(c)
    BY TypedDb, FalseFinite DEF FalseLits
  <2>2. PICK n \in Nat : n = Cardinality(c)
    BY <2>1, FS_CardinalityType
  <2>3. s \in [1..n -> c] /\ \A i, j \in 1..n : i # j => s[i] # s[j]
    BY <2>2 DEF SetToSeqs
  <2>4. c \subseteq Lits /\ \A l \in c : IsFalse(trail, l)
    BY DEF FalseLits
  <2>5. s \in Seq(Lits) /\ Len(s) = n
    BY <2>3, <2>4
  <2>6. IsInjective(s) /\ DOMAIN s = 1..n
    BY <2>3 DEF IsInjective
  <2>7. n >= 1
    BY <2>5, EmptySeq
  <2> QED
    BY <2>3, <2>4, <2>5, <2>6, <2>7
<1>3. /\ \A i \in 1..Len(s) : LitLevel(trail, s[i]) = LevelOf(trail) <=> i = 1
      /\ \A i \in 2..Len(s) : LitLevel(trail, s[i]) <= LitLevel(trail, s[2])
  BY <1>1, <1>2 DEF Asserting
<1>4. formula' \subseteq InputClauses /\ dead' \in BOOLEAN
  BY <1>1, TypedDb
<1> QED
  BY <1>1, <1>2, <1>3, <1>4, LearnStep

(***************************************************************************)
(* The invariant of the specification.                                      *)
(***************************************************************************)
LEMMA InitIInv == Init => IInv
  BY InitPropInv, ClientAssumption DEF Init, IInv

\* One case per action of the client.
LEMMA NextIInv == IInv /\ [Next]_vars => IInv'
<1> SUFFICES ASSUME IInv, [Next]_vars PROVE IInv'
  OBVIOUS
<1>1. PropInv /\ decisions \in 0..MaxDecisions
  BY DEF IInv
<1>2. CASE Propagate
  <2>1. decisions' = decisions
    BY <1>2 DEF Propagate
  <2>2. CASE Dequeue
    BY <1>1, <2>1, <2>2, DequeueKeeps DEF IInv
  <2>3. CASE EndVisit
    BY <1>1, <2>1, <2>3, EndVisitKeeps DEF IInv
  <2>4. CASE VisitBinary
    BY <1>1, <2>1, <2>4, VisitBinaryKeeps DEF IInv
  <2>5. CASE VisitBlocked
    BY <1>1, <2>1, <2>5, VisitBlockedKeeps DEF IInv
  <2>6. CASE VisitLong
    BY <1>1, <2>1, <2>6, VisitLongKeeps DEF IInv
  <2> QED
    BY <1>2, <2>2, <2>3, <2>4, <2>5, <2>6 DEF Propagate, propagate
<1>3. ASSUME NEW c \in InputClauses, Add(c) PROVE IInv'
  <2>1. ~Busy /\ conflict = <<>> /\ add_clause(c) /\ decisions' = decisions
    BY <1>3 DEF Add
  <2> QED
    BY <1>1, <2>1, AddClauseKeeps DEF IInv
<1>4. ASSUME NEW l \in DecisionLits, Decide(l) PROVE IInv'
  <2>1. decisions' \in 0..MaxDecisions
    BY <1>1, <1>4, ClientAssumption DEF Decide
  <2> QED
    BY <1>1, <1>4, <2>1, DecideKeeps DEF IInv
<1>5. ASSUME NEW n \in 0..(LevelOf(trail) - 1), Cancel(n) PROVE IInv'
  <2>1. decisions' = decisions
    BY <1>5 DEF Cancel
  <2> QED
    BY <1>1, <1>5, <2>1, CancelKeeps DEF IInv
<1>6. ASSUME NEW c \in SUBSET FalseLits, NEW s \in SetToSeqs(c), s # <<>>, Learn(s) PROVE IInv'
  <2>1. decisions' = decisions
    BY <1>6 DEF Learn
  <2> QED
    BY <1>1, <1>6, <2>1, LearnKeeps DEF IInv
<1>7. CASE UNCHANGED vars
  <2>1. UNCHANGED <<propVars, clientVars>> /\ decisions' = decisions
    BY <1>7 DEF vars
  <2> QED
    BY <1>1, <2>1, SamePropInv DEF IInv
<1> QED
  BY <1>2, <1>3, <1>4, <1>5, <1>6, <1>7 DEF Next

\* The inductive invariant holds in every state of propagate and its most
\* general client.
THEOREM Invariance == Spec => []IInv
  BY InitIInv, NextIInv, PTL DEF Spec

\* The trail, the clause database, the watch lists and the traversal keep
\* their types.
THEOREM TypeCorrect == Spec => []TypeOK
<1>1. IInv => TypeOK
  BY DEF IInv, PropInv, TypeOK
<1> QED
  BY <1>1, Invariance, PTL

\* A clause is in exactly the lists of its two watched literals, once each:
\* migration, an early exit from a conflict, attaching under a standing trail and
\* backjumps lose and double no watcher (propagate, attach_clause).
THEOREM WatchersSound == Spec => []WatchListsMatch
<1>1. IInv => WatchListsMatch
  BY DEF IInv, PropInv
<1> QED
  BY <1>1, Invariance, PTL

\* No unit clause and no conflict is overlooked, neither among the watchers
\* already visited nor, when propagate returns None, among all the clauses stored.
THEOREM NothingOverlooked == Spec => []PropagationRight
<1>1. IInv => PropagationRight
  BY QuietComplete DEF IInv, PropInv, PropagationRight
<1> QED
  BY <1>1, Invariance, PTL

\* An implied literal sits at the level of the deepest literal it follows from,
\* also when add_clause finds it implied below the standing level.
THEOREM LevelsSound == Spec => []LevelsExact
<1>1. IInv => LevelsExact
  BY DEF IInv, PropInv
<1> QED
  BY <1>1, Invariance, PTL

\* The reason of an assigned literal is a live clause with the literal in front
\* and the others falsified before it, which analyze and locked rely on.
THEOREM ReasonsSound == Spec => []ReasonsOrdered
<1>1. IInv => ReasonsOrdered
  BY DEF IInv, PropInv
<1> QED
  BY <1>1, Invariance, PTL
================================================================================
