------------------------------- MODULE CnfTheorems -------------------------------
(***************************************************************************)
(* Facts about clauses and models (module Cnf) that the proofs about the    *)
(* solver cite: literals and their negations, and what follows from a       *)
(* formula.                                                                 *)
(***************************************************************************)
EXTENDS Cnf, WellFoundedInduction, TLAPS

\* A literal is a nonzero integer; it shares its variable with its negation only.
LEMMA LitFacts ==
    ASSUME NEW l \in Lits
    PROVE  /\ l \in Int /\ l # 0 /\ -l \in Lits /\ -(-l) = l /\ l # -l
           /\ VarOf(l) \in Vars /\ VarOf(-l) = VarOf(l)
           /\ \A k \in Lits : VarOf(k) = VarOf(l) <=> k = l \/ k = -l
  BY VarsAssumption DEF Lits, VarOf

\* An assignment makes exactly one of a literal and its negation true.
LEMMA HoldsNegation ==
    ASSUME NEW l \in Lits, NEW M \in Assignments
    PROVE  Holds(M, -l) <=> ~Holds(M, l)
<1>1. l \in Int /\ l # 0
  BY LitFacts
<1>2. CASE l > 0
  <2>1. Holds(M, l) <=> l \in M
    BY <1>2 DEF Holds
  <2>2. ~(-l > 0) /\ -(-l) = l
    BY <1>1, <1>2
  <2>3. Holds(M, -l) <=> l \notin M
    BY <2>2 DEF Holds
  <2> QED
    BY <2>1, <2>3
<1>3. CASE l < 0
  <2>1. Holds(M, l) <=> -l \notin M
    BY <1>1, <1>3 DEF Holds
  <2>2. -l > 0
    BY <1>1, <1>3
  <2>3. Holds(M, -l) <=> -l \in M
    BY <2>2 DEF Holds
  <2> QED
    BY <2>1, <2>3
<1> QED
  BY <1>1, <1>2, <1>3

\* What follows from a formula follows from a larger one.
LEMMA EntailsMonotone ==
    ASSUME NEW F, NEW G, F \subseteq G, NEW c, Entails(F, c)
    PROVE  Entails(G, c)
  BY DEF Entails, Models

\* What refutes a formula refutes a larger one, with more assumptions.
LEMMA RefutedMonotone ==
    ASSUME NEW F, NEW G, F \subseteq G, NEW K, NEW L, K \subseteq L, Refuted(F, K)
    PROVE  Refuted(G, L)
  BY DEF Refuted, Models

\* A clause follows from the formula it is in.
LEMMA EntailsMember ==
    ASSUME NEW F, NEW c \in F
    PROVE  Entails(F, c)
  BY DEF Entails, Models

\* The resolvent of two clauses that follow from a formula follows from it.
LEMMA Resolution ==
    ASSUME NEW F, NEW c \in Clauses, NEW d \in Clauses, NEW l \in Lits,
           Entails(F, c), Entails(F, d)
    PROVE  Entails(F, (c \ {-l}) \cup (d \ {l}))
<1> SUFFICES ASSUME NEW M \in Models(F)
             PROVE  \E k \in (c \ {-l}) \cup (d \ {l}) : Holds(M, k)
  BY DEF Entails, Satisfies
<1>1. PICK k1 \in c : Holds(M, k1)
  BY DEF Entails, Satisfies
<1>2. PICK k2 \in d : Holds(M, k2)
  BY DEF Entails, Satisfies
<1>3. ~(k1 = -l /\ k2 = l)
  BY <1>1, <1>2, HoldsNegation DEF Models
<1> QED
  BY <1>1, <1>2, <1>3

\* A formula with an empty consequence has no model.
LEMMA EmptyRefutes ==
    ASSUME NEW F, Entails(F, {})
    PROVE  Models(F) = {}
  BY DEF Entails, Satisfies

\* A formula without models refutes any assumptions.
LEMMA NoModelRefutes ==
    ASSUME NEW F, Models(F) = {}, NEW K
    PROVE  Refuted(F, K)
  BY DEF Refuted

\* A nonempty set of natural numbers has a least element.
LEMMA LeastPosition ==
    ASSUME NEW T, T \subseteq Nat, T # {}
    PROVE  \E x \in T : \A y \in T : x <= y
<1>1. PICK x \in T : \A y \in T : ~(<<y, x>> \in OpToRel(<, Nat))
  BY WFMin, NatLessThanWellFounded
<1>2. \A y \in T : ~(y < x)
  BY <1>1 DEF OpToRel
<1> QED
  BY <1>2
================================================================================
