-------------------------------- MODULE MCSearch --------------------------------
(***************************************************************************)
(* The search and its inprocessing on three kinds of formulas.  The clauses *)
(* of a behaviour arrive in the order of one sequence, and the first of     *)
(* them tells its kind.                                                     *)
(***************************************************************************)
EXTENDS Inprocess

MCVars == 1..7

MCDecisionLits == {-1, -2, -3, -4, 5, 6, 7}

\* The sets of clauses that are in place on the way.
Stages(s) == {ToSet(SubSeq(s, 1, n)) : n \in 1..Len(s)}

\* Learning: one formula on which search learns two long clauses over three
\* levels; both minimization verdicts and the deletion of a learned clause are
\* met.
Order == <<{2, 6}, {-6, 7}, {1, 3, 5, -7}, {1, 3, -5, -7}, {1, 2, 4, 5}, {2, 4, -5, -7}>>

LearningLists == {<<-1, -2>>, <<-1, -2, 7>>}

LearningInOrder ==
    /\ formula' \in Stages(Order)
    /\ calls' > calls => formula = ToSet(Order) /\ query' \in LearningLists
    /\ pc' # "vivify" /\ bank' = {}

\* Vivifying: two clauses let a first call learn {1, 2, 3, 4}; each sequence
\* then adds the clauses under which vivification keeps, shortens, replaces or
\* drops it.  {-6, 7} and {-6, -7} are there for the conflict that arms a
\* restart.
VivFirst == <<{1, 2, 3, 4, 5}, {1, 2, 3, 4, -5}>>

VivSequences == {
    <<{-6, 7}, {-6, -7}>>,
    <<{-6, 7}, {-6, -7}, {1, -3}>>,
    <<{-6, 7}, {-6, -7}, {1, -3}, {1, -4}>>,
    <<{-6, 7}, {-6, -7}, {1, 2}>>,
    <<{-6, 7}, {-6, -7}, {1, 5}, {1, -5}>>,
    <<{-6, 7}, {-6, -7}, {1, 5}, {1, -5}, {-1, 5}, {-1, -5}>>}

VivLists == {<<-2, -1, -3, -4>>, <<-4, -3, -2, -1>>, <<6>>}

VivInOrder ==
    /\ \E s \in VivSequences : formula' \in Stages(VivFirst \o s)
    /\ formula' # formula => (calls = 0 <=> Cardinality(formula) < 2)
    /\ calls' > calls => query' \in VivLists
    /\ calls' = 1 => query' # <<6>> /\ Cardinality(formula') >= 2
    /\ calls' = 2 => \E s \in VivSequences : formula' = ToSet(VivFirst \o s)
    /\ bank' = {}

\* Injecting: -5 and 7 are root facts; {3, -4} and {3, 4} are there for the
\* conflict that arms a restart.  The banked clauses are implied, and at the
\* root they are satisfied, unit, falsified or still long.
InjFirst == <<{-5}, {7}, {3, -4}, {3, 4}>>

InjSequences == {
    <<{-1, 2}, {-1, -2}>>,
    <<{-3, 1, 2}, {-3, 1, -2}, {-3, -1, 2}, {-3, -1, -2}>>,
    <<{-1, 2, 6}, {-1, 2, -6}, {-1, -2, 6}, {-1, -2, -6}>>}

MCInputClauses ==
    UNION {ToSet(s) : s \in {Order, VivFirst, InjFirst} \cup VivSequences \cup InjSequences}

MCAssumptionLists == LearningLists \cup VivLists \cup {<<>>}

\* What is banked when the call begins.
Offered == {{{-1, 5}, {-1, 3}}, {{-1, 2, 6}, {-1, -2, 6}}, {{5, -3}}}

MCBank == UNION Offered

\* Clauses in order, then the bank, then the call.
InjInOrder ==
    /\ \E s \in InjSequences :
          /\ formula' \in Stages(InjFirst \o s)
          /\ (bank' # {} \/ calls' > 0) => formula' = ToSet(InjFirst \o s)
    /\ \E o \in Offered : bank' \subseteq o
    /\ formula' # formula => bank = {} /\ calls = 0
    /\ bank' \subseteq bank \/ calls = 0 \/ pc = "boundary"
    /\ calls' > calls => calls = 0 /\ bank \in Offered /\ query' = <<>>
    /\ pc' # "vivify" /\ pc' # "probe"
    /\ pc' = "boundary" => LevelOf(trail') = 0

--------------------------------------------------------------------------------
\* The action constraint of the run.
InOrder == LearningInOrder \/ VivInOrder \/ InjInOrder

--------------------------------------------------------------------------------
\* What is learned is asserting and analysis leaves no mark for the next; where
\* only learning happens, search learns nothing it knew.
LearnedIsRight ==
    LearnedIsAsserting /\ MarksCleared /\ (Order[1] \in formula => LearnedIsNew)

\* Probing a learned clause leaves nothing on the trail it is not entitled to.
\* Where clauses are injected a unit stays unpropagated until the next
\* decision, and its consequences are lost with that decision's level.
ProbingLeavesNothing == VivFirst[1] \in formula => ProbesLeaveNothing
================================================================================
