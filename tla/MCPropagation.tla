------------------------------ MODULE MCPropagation ------------------------------
EXTENDS PropagationClient

MCVars == 1..4

MCInputClauses == {{1, 2, 3, 4}, {1, 2, -3}, {1, -2}, {-4}}

MCDecisionLits == {-1, -4, 3}
================================================================================
