---------------------------------- MODULE Cnf ----------------------------------
(***************************************************************************)
(* Literals, clauses and what they mean (lit.rs).  A variable is a positive *)
(* integer and its two literals are v and -v; the code packs the same pair  *)
(* into 2v and 2v+1.  A clause is the set of its literals.  An assignment M *)
(* is the set of the variables it makes true.                               *)
(***************************************************************************)
EXTENDS Integers

CONSTANT Vars

ASSUME VarsAssumption == Vars \subseteq Nat \ {0}

Lits == Vars \cup {-v : v \in Vars}

Clauses == SUBSET Lits

Assignments == SUBSET Vars

VarOf(l) == IF l > 0 THEN l ELSE -l

Negated(c) == {-l : l \in c}

Tautology(c) == \E l \in c : -l \in c

Holds(M, l) == IF l > 0 THEN l \in M ELSE -l \notin M

Satisfies(M, c) == \E l \in c : Holds(M, l)

Models(F) == {M \in Assignments : \A c \in F : Satisfies(M, c)}

\* The clause c follows from the clauses F: adding it changes no model.
Entails(F, c) == \A M \in Models(F) : Satisfies(M, c)

\* F together with the literals K, taken as units, has no model.
Refuted(F, K) == \A M \in Models(F) : \E k \in K : ~Holds(M, k)
================================================================================
