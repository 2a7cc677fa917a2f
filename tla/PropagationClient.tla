---------------------------- MODULE PropagationClient ----------------------------
(***************************************************************************)
(* A most general client for module Propagation: it adds clauses under the  *)
(* standing trail, decides, cancels to any level and, after a conflict,     *)
(* learns any asserting clause over the false literals.  What the search of *)
(* module Solver asks of propagation is a part of this.                     *)
(***************************************************************************)
EXTENDS Propagation

CONSTANTS
    MaxDecisions,  \* bound: how often the client decides
    MaxLearnts     \* bound: the clauses it learns

ASSUME ClientAssumption == MaxDecisions \in Nat /\ MaxLearnts \in Nat

VARIABLE decisions  \* how often it has decided

vars == <<propVars, clientVars, decisions>>

TypeOK == PropTypeOK /\ decisions \in 0..MaxDecisions

Init == PropInit /\ decisions = 0

Propagate == propagate /\ UNCHANGED decisions

Add(c) ==
    /\ ~Busy /\ conflict = <<>>
    /\ c \notin formula
    /\ add_clause(c)
    /\ UNCHANGED decisions

Decide(l) ==
    /\ Quiet /\ IsUndef(trail, l)
    /\ decisions < MaxDecisions
    /\ decisions' = decisions + 1
    /\ trail' = Enqueued(Opened(trail), l, Decision)
    /\ UNCHANGED <<dbVars, visit, conflict, clientVars>>

Cancel(n) ==
    /\ ~Busy
    /\ trail' = Cancelled(trail, n)
    /\ conflict' = <<>>
    /\ UNCHANGED <<dbVars, visit, clientVars, decisions>>

\* The shape of what analyze returns: the asserting literal first, a literal
\* of the backjump level second.
Asserting(s) ==
    /\ \A l \in ToSet(s) : LitLevel(trail, l) > 0
    /\ \A i \in DOMAIN s : LitLevel(trail, s[i]) = LevelOf(trail) <=> i = 1
    /\ \A i \in 2..Len(s) : LitLevel(trail, s[i]) <= LitLevel(trail, s[2])
    /\ \A i, j \in 3..Len(s) : i < j => Precedes(s[i], s[j])

Learn(s) ==
    /\ conflict # <<>> /\ LevelOf(trail) > 0
    /\ Cardinality(learntBins) + Cardinality(Learnts) < MaxLearnts
    /\ Asserting(s)
    /\ Learnt(s, 1)
    /\ conflict' = <<>>
    /\ UNCHANGED <<visit, clientVars, decisions>>

FalseLits == {l \in Lits : IsFalse(trail, l)}

Next ==
    \/ Propagate
    \/ \E c \in InputClauses : Add(c)
    \/ \E l \in DecisionLits : Decide(l)
    \/ \E n \in 0..(LevelOf(trail) - 1) : Cancel(n)
    \/ /\ conflict # <<>>
       /\ \E c \in SUBSET FalseLits : \E s \in SetToSeqs(c) : s # <<>> /\ Learn(s)

Spec == Init /\ [][Next]_vars
================================================================================
