--------------------------------- MODULE MCCdcl ---------------------------------
EXTENDS Cdcl

MCVars == 1..3

\* Unsatisfiable together; any three of them are satisfiable.  Depending on
\* the order they are added in, {-3} is a root unit, shortens {1, 2, 3} to a
\* binary clause, empties {-1, 3}, or is itself emptied by a learned unit.
MCInputClauses == {{1, 2, 3}, {1, -2}, {-1, 3}, {-3}}

\* The lists share a prefix, so a call can reuse the trail of the call before.
MCAssumptionLists == {<<>>, <<-1>>, <<-1, -3>>}
================================================================================
