-------------------------------- MODULE Preprocess --------------------------------
(***************************************************************************)
(* The simplification of one batch of clauses before the solver sees them   *)
(* (preprocess.rs): units are propagated, clauses subsume and strengthen    *)
(* one another, and variables that are not frozen are resolved away.        *)
(*                                                                          *)
(* p is the Preprocessor: clauses[i] keeps its literals after it is deleted, *)
(* occ[l] lists the clauses l was put in and may be stale, n_occ[l] counts   *)
(* the live ones, assign holds the literals that are true.                  *)
(***************************************************************************)
EXTENDS Cnf, Sequences, SequencesExt, FiniteSetsExt

CONSTANTS
    Batches,            \* the lists of clauses a flush may hand over
    FrozenSets,         \* the variables that must survive it
    CLAUSE_LIM, VE_PRODUCT_LIM, VE_SUB_PAIR_LIM, SUB_OCC_LIM,
    GateSubst           \* whether gates may be substituted

VARIABLES
    batch, frozen, p, at,
    queue, queued,      \* clauses yet to subsume with, and those in the list
    heap, failCost,     \* candidates by cost, and the cost at the last failure
    result

vars == <<batch, frozen, p, at, queue, queued, heap, failCost, result>>

Live(q) == {i \in DOMAIN q.clauses : ~q.deleted[i]}
Vacant(q, i) == q.deleted[i]

\* Op along a sequence, from its first member.  CHOOSE names the one value of
\* what each step starts from.
Along(Op(_, _), base, seq) ==
    LET run(b, q) ==
            LET f[n \in 0..Len(q)] ==
                    IF n = 0 THEN b ELSE CHOOSE r \in {Op(a, q[n]) : a \in {f[n - 1]}} : TRUE
            IN  f[Len(q)]
    IN  CHOOSE r \in {run(b, q) : b \in {base}, q \in {seq}} : TRUE

Ranked(S, Before(_, _)) ==
    [n \in 1..Cardinality(S) |->
        CHOOSE x \in S : Cardinality({y \in S : Before(y, x)}) = n - 1]

\* The order of the literals, 2v before 2v + 1.
Code(l) == 2 * VarOf(l) + (IF l > 0 THEN 0 ELSE 1)
InOrder(ls) == Ranked(ls, LAMBDA a, b : Code(a) < Code(b))

\* The function f with Op applied to what it gives for the members of S.
Applied(f, S, Op(_)) == FoldSet(LAMBDA x, g : [g EXCEPT ![x] = Op(@)], f, S)

Less1(n) == IF n = 0 THEN 0 ELSE n - 1

--------------------------------------------------------------------------------
(***************************************************************************)
(* Clauses and their occurrences.                                           *)
(***************************************************************************)
Added(q, c) ==
    LET i == Len(q.clauses) + 1
    IN  [q EXCEPT !.clauses = Append(@, c), !.deleted = Append(@, FALSE),
                  !.occ = Applied(@, c, LAMBDA is : Append(is, i)),
                  !.n_occ = Applied(@, c, LAMBDA n : n + 1)]

delete_clause(q, i) ==
    IF Vacant(q, i) THEN q
    ELSE [q EXCEPT !.deleted[i] = TRUE,
                   !.n_occ = Applied(@, q.clauses[i], Less1),
                   !.touched = @ \cup {VarOf(l) : l \in q.clauses[i]}]

Stripped(q, i, l) == [q EXCEPT !.clauses[i] = @ \ {l}, !.n_occ[l] = Less1(@)]

\* A clause that lost a literal: the last one becomes a unit.
Dissolved(q, i) ==
    LET c == q.clauses[i]
    IN  IF c = {} THEN [q EXCEPT !.unsat = TRUE]
        ELSE IF Cardinality(c) = 1
             THEN delete_clause([q EXCEPT !.units = @ \o InOrder(c)], i)
        ELSE q

\* from_flat, one clause of the input.
Intake(q, c) ==
    IF Tautology(c) THEN q
    ELSE IF c = {} THEN [q EXCEPT !.unsat = TRUE]
    ELSE Added([q EXCEPT !.units = IF Cardinality(c) = 1 THEN @ \o InOrder(c) ELSE @], c)

Empty == [clauses |-> <<>>, deleted |-> <<>>, occ |-> [l \in Lits |-> <<>>],
          n_occ |-> [l \in Lits |-> 0], assign |-> {}, eliminated |-> {}, units |-> <<>>,
          touched |-> {}, unsat |-> FALSE]

from_flat(b) == Along(Intake, Empty, b)

--------------------------------------------------------------------------------
(***************************************************************************)
(* Units.                                                                   *)
(***************************************************************************)
StripUnit(q, i, l) ==
    IF q.unsat \/ Vacant(q, i) \/ l \notin q.clauses[i] THEN q
    ELSE Dissolved(Stripped(q, i, l), i)

Assigned(q, u) ==
    LET sat == Along(delete_clause, [q EXCEPT !.assign = @ \cup {u}], q.occ[u])
        cut == Along(LAMBDA s, i : StripUnit(s, i, -u), [sat EXCEPT !.occ[u] = <<>>],
                        q.occ[-u])
    IN  [cut EXCEPT !.occ[-u] = <<>>]

\* The last unit of the queue is taken.
PopUnit(q) ==
    LET u == Last(q.units)
        rest == [q EXCEPT !.units = Front(@)]
    IN  IF u \in q.assign THEN rest
        ELSE IF -u \in q.assign THEN [rest EXCEPT !.unsat = TRUE]
        ELSE Assigned(rest, u)

RECURSIVE propagate_units(_)
propagate_units(q) ==
    CHOOSE r \in {IF s.units = <<>> \/ s.unsat THEN s ELSE propagate_units(PopUnit(s)) : s \in {q}} :
        TRUE

--------------------------------------------------------------------------------
(***************************************************************************)
(* Subsumption.                                                             *)
(***************************************************************************)

\* The one literal of c whose negation d has, when d has all the others.
Flips(c, d) == {l \in c : -l \in d /\ c \ {l} \subseteq d}

\* The list that is scanned for what clause i may subsume: both polarities of
\* its variable that occurs least.
Least(q, i) ==
    LET cost(l) == q.n_occ[l] + q.n_occ[-l]
        low == Min({cost(l) : l \in q.clauses[i]})
    IN  InOrder({l \in q.clauses[i] : cost(l) = low})[1]

Scan(q, i) ==
    LET l == Least(q, i)
    IN  IF q.n_occ[l] + q.n_occ[-l] > SUB_OCC_LIM THEN <<>> ELSE q.occ[l] \o q.occ[-l]

\* s is the Preprocessor with its queue: clause i meets candidate j.
Meet(s, i, j) ==
    LET c == s.p.clauses[i]
        d == s.p.clauses[j]
        l == CHOOSE x \in Flips(c, d) : TRUE
        cut == Dissolved(Stripped(s.p, j, -l), j)
    IN  IF j = i \/ s.p.unsat \/ Vacant(s.p, i) \/ Vacant(s.p, j) THEN s
        ELSE IF c \subseteq d THEN [s EXCEPT !.p = delete_clause(s.p, j)]
        ELSE IF Flips(c, d) = {} THEN s
        ELSE IF Cardinality(d) <= 2 THEN [s EXCEPT !.p = propagate_units(cut)]
        ELSE [s EXCEPT !.p = cut, !.queued = @ \cup {j},
                       !.queue = IF j \in s.queued THEN @ ELSE Append(@, j)]

--------------------------------------------------------------------------------
(***************************************************************************)
(* Elimination of a variable by resolution.                                 *)
(***************************************************************************)
live_occ(q, l) == SelectSeq(q.occ[l], LAMBDA i : ~q.deleted[i] /\ l \in q.clauses[i])

PutBack(q, v, pos, neg) == [q EXCEPT !.occ[v] = pos, !.occ[-v] = neg]

Resolvent(c, d, v) == (c \cup d) \ {v, -v}

\* The first clause D of xs, of three literals or more, whose other literals
\* each have their binary clause in nxs; D and the binaries define v.
find_and_gate(q, x, xs, nxs) ==
    LET binary(l) == SelectSeq(nxs, LAMBDA i : q.clauses[i] = {-x, -l})
        gates == SelectSeq(xs, LAMBDA i : /\ Cardinality(q.clauses[i]) >= 3
                                          /\ \A l \in q.clauses[i] \ {x} : binary(l) # <<>>)
    IN  IF gates = <<>> THEN {}
        ELSE {gates[1]} \cup {binary(l)[1] : l \in q.clauses[gates[1]] \ {x}}

find_gate(q, v, pos, neg) ==
    LET g == find_and_gate(q, v, pos, neg)
    IN  IF g # {} THEN g ELSE find_and_gate(q, -v, neg, pos)

\* A bug Allowed must not have: pairs of two definition clauses only.
AllowedBoth(def, i, j) == i \in def /\ j \in def

Allowed(def, i, j) == i \in def \/ j \in def

count_resolvents(q, v, pos, neg, def) ==
    LET pairs == {<<i, j>> \in ToSet(pos) \X ToSet(neg) :
                     Allowed(def, i, j) /\ ~Tautology(Resolvent(q.clauses[i], q.clauses[j], v))}
    IN  /\ \A r \in pairs :
              Cardinality(Resolvent(q.clauses[r[1]], q.clauses[r[2]], v)) <= CLAUSE_LIM
        /\ Cardinality(pairs) <= Len(pos) + Len(neg)

add_clause_from_scratch(q, c) ==
    IF q.unsat THEN q
    ELSE IF c = {} THEN [q EXCEPT !.unsat = TRUE]
    ELSE IF Cardinality(c) = 1 THEN [q EXCEPT !.units = @ \o InOrder(c)]
    ELSE Added([q EXCEPT !.touched = @ \cup {VarOf(l) : l \in c}], c)

commit_elimination(q, v, pos, neg, def) ==
    LET gone == [Along(delete_clause, q, pos \o neg) EXCEPT !.eliminated = @ \cup {v}]
        pair(s, i, j) ==
            LET c == Resolvent(q.clauses[i], q.clauses[j], v)
            IN  IF ~Allowed(def, i, j) \/ Tautology(c) THEN s ELSE add_clause_from_scratch(s, c)
        all == Along(LAMBDA s, i : Along(LAMBDA t, j : pair(t, i, j), s, neg), gone, pos)
    IN  propagate_units(PutBack(all, v, <<>>, <<>>))

Pure(pos, neg) == Len(pos) = 0 \/ Len(neg) = 0

\* What try_eliminate does: nothing, drop a pure variable's clauses, resolve
\* every pair, or only pairs with a clause of the definition of v.
try_eliminate(q, v) ==
    LET pos == live_occ(q, v)
        neg == live_occ(q, -v)
        all == ToSet(pos \o neg)
        gate == find_gate(q, v, pos, neg)
        taken == [q EXCEPT !.occ[v] = <<>>, !.occ[-v] = <<>>]
        fail == [p |-> PutBack(taken, v, pos, neg), done |-> FALSE]
    IN  IF all = {} THEN fail
        ELSE IF Pure(pos, neg)
        THEN [p |-> [Along(delete_clause, taken, pos \o neg) EXCEPT !.eliminated = @ \cup {v}],
              done |-> TRUE]
        ELSE IF Len(pos) * Len(neg) <= VE_PRODUCT_LIM /\ count_resolvents(q, v, pos, neg, all)
        THEN [p |-> commit_elimination(taken, v, pos, neg, all), done |-> TRUE]
        ELSE IF /\ GateSubst /\ Len(pos) + Len(neg) <= VE_SUB_PAIR_LIM /\ gate # {}
                /\ Cardinality(gate \cap ToSet(pos)) * Len(neg)
                      + Len(pos) * Cardinality(gate \cap ToSet(neg)) <= VE_SUB_PAIR_LIM
                /\ count_resolvents(q, v, pos, neg, gate)
        THEN [p |-> commit_elimination(taken, v, pos, neg, gate), done |-> TRUE]
        ELSE fail

--------------------------------------------------------------------------------
(***************************************************************************)
(* The passes, in their order (run).                                        *)
(***************************************************************************)
Cost(q, v) == q.n_occ[v] + q.n_occ[-v]
NeverFailed == 1000000

Init ==
    /\ batch \in Batches /\ frozen \in FrozenSets
    /\ p = from_flat(batch)
    /\ at = "units"
    /\ queue = <<>> /\ queued = {} /\ heap = {}
    /\ failCost = [v \in Vars |-> NeverFailed]
    /\ result = <<>>

\* Short clauses first, ties by their index.
ByLength(q) ==
    Ranked(Live(q), LAMBDA i, j :
        \/ Cardinality(q.clauses[i]) < Cardinality(q.clauses[j])
        \/ Cardinality(q.clauses[i]) = Cardinality(q.clauses[j]) /\ i < j)

PropagateUnits ==
    /\ at = "units"
    /\ LET q == propagate_units(p)
       IN  /\ p' = q
           /\ at' = IF q.unsat THEN "emit" ELSE "subsume"
           /\ queue' = IF q.unsat THEN <<>> ELSE ByLength(q)
           /\ queued' = DOMAIN q.clauses
    /\ UNCHANGED <<batch, frozen, heap, failCost, result>>

Subsume ==
    /\ at = "subsume" /\ queue # <<>>
    /\ LET i == Head(queue)
           s == [p |-> p, queue |-> Tail(queue), queued |-> queued \ {i}]
           t == IF Vacant(p, i) THEN s
                ELSE Along(LAMBDA a, j : Meet(a, i, j), s, Scan(p, i))
       IN  /\ p' = t.p /\ queue' = t.queue /\ queued' = t.queued
           /\ at' = IF t.p.unsat THEN "emit" ELSE at
    /\ UNCHANGED <<batch, frozen, heap, failCost, result>>

SeedHeap ==
    /\ at = "subsume" /\ queue = <<>>
    /\ heap' = {<<Cost(p, v), v>> : v \in {u \in Vars \ frozen : Cost(p, u) > 0}}
    /\ p' = [p EXCEPT !.touched = {}]
    /\ at' = "eliminate"
    /\ UNCHANGED <<batch, frozen, queue, queued, failCost, result>>

\* The cheapest candidate, the smaller variable among equals.
Cheapest == CHOOSE e \in heap : \A f \in heap : e[1] < f[1] \/ (e[1] = f[1] /\ e[2] <= f[2])

\* A bug Repriced must not have: it is put back at the cost it was popped at.
RepricedStale(v) == <<Cheapest[1], v>>

Repriced(v) == <<Cost(p, v), v>>

\* Popped: without an occurrence it is dropped, at a stale cost it is put
\* back, and at no lower cost than when it last failed it is not tried.
SkipCandidate ==
    /\ at = "eliminate" /\ heap # {}
    /\ LET v == Cheapest[2]
           rest == heap \ {Cheapest}
           stale == Cost(p, v) > 0 /\ Cost(p, v) # Cheapest[1] /\ v \notin p.eliminated
       IN  /\ v \in p.eliminated \/ Cost(p, v) # Cheapest[1] \/ Cost(p, v) >= failCost[v]
           /\ heap' = IF stale THEN rest \cup {Repriced(v)} ELSE rest
    /\ UNCHANGED <<batch, frozen, p, at, queue, queued, failCost, result>>

\* The neighbours that are tried again after an elimination.
Requeued(q, rest) ==
    {<<Cost(q, u), u>> : u \in {w \in q.touched \ (frozen \cup q.eliminated \cup {e[2] : e \in rest}) :
                                  Cost(q, w) > 0 /\ Cost(q, w) < failCost[w]}}

Try ==
    /\ at = "eliminate" /\ heap # {}
    /\ LET v == Cheapest[2]
           rest == heap \ {Cheapest}
           t == try_eliminate(p, v)
       IN  /\ v \notin p.eliminated /\ Cost(p, v) = Cheapest[1] /\ Cost(p, v) < failCost[v]
           /\ p' = [t.p EXCEPT !.touched = {}]
           /\ failCost' = IF t.done THEN failCost ELSE [failCost EXCEPT ![v] = Cost(p, v)]
           /\ heap' = IF t.done THEN rest \cup Requeued(t.p, rest) ELSE rest
           /\ at' = IF t.p.unsat THEN "emit" ELSE at
    /\ UNCHANGED <<batch, frozen, queue, queued, result>>

ExhaustHeap ==
    /\ at = "eliminate" /\ heap = {}
    /\ at' = "emit"
    /\ UNCHANGED <<batch, frozen, p, queue, queued, heap, failCost, result>>

Kept(q) == LET ids == Ranked(Live(q), <) IN [n \in DOMAIN ids |-> q.clauses[ids[n]]]

Survivors(q) ==
    LET units == InOrder(q.assign)
    IN  IF q.unsat THEN <<{}>> ELSE Kept(q) \o [n \in DOMAIN units |-> {units[n]}]

Emit ==
    /\ at = "emit"
    /\ result' = Survivors(p)
    /\ at' = "done"
    /\ UNCHANGED <<batch, frozen, p, queue, queued, heap, failCost>>

Next ==
    \/ PropagateUnits \/ Subsume \/ SeedHeap \/ SkipCandidate \/ Try \/ ExhaustHeap \/ Emit

Spec == Init /\ [][Next]_vars /\ WF_vars(Next)

--------------------------------------------------------------------------------
Present == {p.clauses[i] : i \in Live(p)} \cup {{l} : l \in p.assign \cup ToSet(p.units)}
               \cup (IF p.unsat THEN {{}} ELSE {})

Without(ms) == {M \ p.eliminated : M \in ms}

\* At every point of the passes, and in what they emit, the assignments of the
\* variables that were not eliminated are those that extend to a model of the
\* batch (module doc of preprocess.rs).
ProjectionKept ==
    Without(Models(ToSet(batch)))
        = Without(Models(IF at = "done" THEN ToSet(result) ELSE Present))

\* A frozen variable is never eliminated, and no clause or unit that is left
\* mentions an eliminated one.
EliminatedGone ==
    /\ p.eliminated \cap frozen = {}
    /\ ~p.unsat => \A c \in Present : \A l \in c : VarOf(l) \notin p.eliminated

\* The counts of the occurrences are exact, and the lists, stale as they may
\* be, miss no live clause (occ, n_occ).
OccurrencesFound ==
    p.unsat \/
    \A l \in Lits :
        LET own == {i \in Live(p) : l \in p.clauses[i]}
        IN  p.n_occ[l] = Cardinality(own) /\ own \subseteq ToSet(p.occ[l])
================================================================================
