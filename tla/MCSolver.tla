-------------------------------- MODULE MCSolver --------------------------------
EXTENDS Solver

MCVars == 1..4

\* Two clauses that teach {1, 2, 3}, over three levels: one that is deleted when
\* it is not locked.
Deep == {{1, 2, 3, 4}, {1, 2, 3, -4}}

\* Clauses that decide most of three variables, or are refuted.
Small == {{1, 2, 3}, {1, -2}, {-1, 3}, {-3}}

MCInputClauses == Small \cup Deep

MCDecisionLits == {-1, 2, -3, 4}

\* Two share a prefix; one contradicts itself.
MCAssumptionLists == {<<>>, <<-1>>, <<-1, -3>>, <<2, -1, -2>>, <<-1, -2>>}

\* The action constraint of the run: of clients, what they add and when they call.
OneFamily ==
    \/ formula' \subseteq Small
    \/ /\ formula' \subseteq Deep
       /\ calls' > calls => query' = <<-1, -2>> /\ formula = Deep
================================================================================
