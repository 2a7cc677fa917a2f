------------------------------ MODULE MCSession ------------------------------
(***************************************************************************)
(* The session as its clients see it: the equations they assert, and the    *)
(* scopes, solves and banked models of their queries.  A behaviour is of    *)
(* one of the two.                                                          *)
(***************************************************************************)
EXTENDS Frontend

CONSTANT Askers     \* the clients that ask

VARIABLES
    asker, s, scopes, reply, asked,
    part    \* "equations" or "queries"; it never changes

queryVars == <<asker, s, scopes, reply, asked>>

--------------------------------------------------------------------------------
(***************************************************************************)
(* Equations over three variables of two bits.                              *)
(***************************************************************************)
MCVars == 0..2
Equal(l, r) == [l |-> l, r |-> r, eq |-> TRUE]
Differ(l, r) == [l |-> l, r |-> r, eq |-> FALSE]

X == Var(0)
Y == Var(1)
Z == Var(2)

\* Equations with a variable on one side, and something else to say.
Replacing == [
    script |-> FALSE, scopes |-> TRUE, careful |-> TRUE, steps |-> 5,
    subst_enabled |-> TRUE, gauss_enabled |-> FALSE,
    formulas |-> {Equal(X, Y), Equal(Y, Z), Equal(X, Plus(Y, Const(1))), Equal(Plus(Z, Const(1)), Y),
                  Equal(Z, Times(2, X)), Differ(X, Const(1)), Differ(Y, Z)}]

\* Coupled systems, among them singular and contradictory ones.
Solving == [
    script |-> FALSE, scopes |-> FALSE, careful |-> TRUE, steps |-> 5,
    subst_enabled |-> FALSE, gauss_enabled |-> TRUE,
    formulas |-> {Equal(Plus(X, Y), Const(3)), Equal(Minus(X, Y), Const(1)), Equal(Plus(X, Times(2, Z)), Y),
                  Equal(Plus(Times(2, X), Times(2, Y)), Const(2)), Equal(Z, Plus(X, Const(1))),
                  Equal(Plus(Times(3, Z), Y), X), Differ(Y, Const(1))}]

\* Scripts that do not open scopes after they rebound a name.
Script == [
    script |-> TRUE, scopes |-> FALSE, careful |-> TRUE, steps |-> 5,
    subst_enabled |-> TRUE, gauss_enabled |-> FALSE,
    formulas |-> {Equal(X, Const(1)), Equal(Y, X), Equal(Z, Y), Equal(X, Times(2, X)), Differ(X, Const(2)),
                  Equal(Plus(Y, Z), Const(3))}]

MCClients == {Replacing, Solving, Script}

\* Substitution and elimination are both on, as by default; the other clients have
\* one of them.
MCBoth == {[Solving EXCEPT !.subst_enabled = TRUE, !.steps = 3,
                           !.formulas = {Equal(Plus(X, Y), Const(3)), Equal(X, Y)}]}

--------------------------------------------------------------------------------
(***************************************************************************)
(* Queries over two bits, hence four assignments, about the terms high, low *)
(* and the negation of high.                                                *)
(***************************************************************************)
Bits == 0..3
High == {2, 3}
Low == {1, 3}

\* Few calls of every kind.
Broad == [
    terms |-> {High, Low}, queries |-> {<<>>, <<High>>, <<Low, High>>, <<Bits \ High>>},
    batches |-> {<<>>, <<High, Low>>}, limits |-> {1, 2}, budgeted |-> TRUE, calls |-> 3]

\* More calls, so that a banked model goes stale in several ways.
Long == [
    terms |-> {Low}, queries |-> {<<High>>, <<Bits \ High>>},
    batches |-> {<<Low, Bits \ Low>>}, limits |-> {}, budgeted |-> FALSE, calls |-> 5]

MCAskers == {Broad, Long}

Q == INSTANCE Session WITH
    Worlds <- Bits, XBits <- <<High, Low>>, Clients <- Askers, client <- asker, steps <- asked

--------------------------------------------------------------------------------
NoQueries ==
    /\ asker = "none" /\ s = Q!NewSession /\ scopes = << Bits >> /\ reply = Q!NoReply /\ asked = 0

NoEquations ==
    /\ client = "none" /\ u = NewSession(FALSE, FALSE) /\ symbols = <<>> /\ declared = {}
    /\ asserted = <<>> /\ steps = 0

MCInit ==
    \/ part = "equations" /\ Init /\ NoQueries
    \/ part = "queries" /\ NoEquations /\ Q!Init

MCNext ==
    \/ part = "equations" /\ Next /\ UNCHANGED <<queryVars, part>>
    \/ part = "queries" /\ Q!Next /\ UNCHANGED <<frontVars, part>>

MCSpec == MCInit /\ [][MCNext]_<<frontVars, queryVars, part>>

--------------------------------------------------------------------------------
\* What can be read in the models is what is asserted, whichever way equations
\* were used up, and a variable that was replaced has no bits of its own.
EquationsKept == part = "equations" => SolutionsKept /\ ReplacedHaveNoBits

\* Every answer is what the assertions in force and the assumptions say.
AnswersRight == Q!AnswersRight

\* What a caller vouches for is what the solver has installed.
HintHolds == Q!HintHolds

\* What a valid banked model says is true.
BankedIsModel == Q!BankedIsModel
==============================================================================
