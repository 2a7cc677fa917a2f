------------------------------ MODULE ParityRows ------------------------------
(***************************************************************************)
(* Parity rows inside the solver (solver.rs: set_xor_rows, xor_propagate,   *)
(* xor_conflict_clause, and the reasons that are rows).  A row watches its   *)
(* first two variables; each variable keeps the chain of the watches on it. *)
(* The search around it is that of module Solver with clause propagation    *)
(* taken one unit at a time, in any order.                                  *)
(***************************************************************************)
EXTENDS Cnf, Sequences, SequencesExt, FiniteSetsExt

CONSTANTS
    Formulas,         \* the clauses, one set of them for each session
    RowSets,          \* what a flush may install: sequences of rows
    AssumptionLists,
    DecisionLits,     \* the literals the heuristic may decide
    MaxSolves,
    Installing,       \* "any": on whatever trail stands; "root": only without one
    Retired,          \* the variables that are purged and used again
    Redefined         \* the clauses of their new life

VARIABLES
    formula,
    learnts,
    trail,            \* literals with their level and reason
    level,            \* decision_level
    xvars, xrhs,      \* the variables of each row, and its parity
    chains,           \* of each variable: watches, a row and a slot each
    xqhead,
    pc, conflict, learned,
    assumptions, reusable, answer, core, solves

searchVars == <<formula, learnts, trail, level, pc, conflict, learned, assumptions, reusable, answer, core, solves>>
rowVars == <<xvars, xrhs, chains, xqhead>>
vars == <<searchVars, rowVars>>

--------------------------------------------------------------------------------
(***************************************************************************)
(* The trail.                                                               *)
(***************************************************************************)
Decision == [by |-> "decision", clause |-> {}, row |-> 0]
ByClause(c) == [by |-> "clause", clause |-> c, row |-> 0]
ByRow(r) == [by |-> "row", clause |-> {}, row |-> r]

On(t) == {t[i].lit : i \in DOMAIN t}
True(t, l) == l \in On(t)
False(t, l) == -l \in On(t)
Undef(t, l) == ~True(t, l) /\ ~False(t, l)
EntryOf(t, v) == t[CHOOSE i \in DOMAIN t : VarOf(t[i].lit) = v]
LevelOf(t, l) == EntryOf(t, VarOf(l)).level
Enqueued(t, l, n, why) == IF Undef(t, l) THEN Append(t, [lit |-> l, level |-> n, reason |-> why]) ELSE t

\* A bug Cancelled must not have: the first level that goes keeps its literals.
CancelledBeyond(t, n) == SelectSeq(t, LAMBDA e : e.level <= n + 1)

Cancelled(t, n) == SelectSeq(t, LAMBDA e : e.level <= n)

\* A bug Cursor must not have: the literals that replace the cancelled ones count as seen.
CursorKept(t) == xqhead

\* The first trail entry the rows have not seen, once the trail is cut to t.
Cursor(t) == Min({xqhead, Len(t)})

--------------------------------------------------------------------------------
(***************************************************************************)
(* The rows.                                                                *)
(***************************************************************************)
\* The literal of a variable that is false.
FalseLit(t, v) == IF True(t, v) THEN -v ELSE v

\* The parity of the variables that are true.
Parity(t, vs) == Cardinality({v \in vs : True(t, v)}) % 2 = 1

\* set_xor_rows: rows shorter than three are not taken.  Nothing else is touched.
set_xor_rows(rs) ==
    LET taken == SelectSeq(rs, LAMBDA r : Len(r.vars) >= 3)
        Watching(v) == {<<i, k>> \in (DOMAIN taken) \X {1, 2} : taken[i].vars[k] = v}
        later(e, f) == e[1] > f[1]
    IN  /\ xvars' = [i \in DOMAIN taken |-> taken[i].vars]
        /\ xrhs' = [i \in DOMAIN taken |-> taken[i].rhs]
        /\ chains' = [v \in Vars |-> SetToSortSeq(Watching(v), later)]
        /\ xqhead' = 0

\* The watch moves to the variable at position k of its row.
Rewatched(a, e, v, k) ==
    [a EXCEPT !.xv = [@ EXCEPT ![e[1]] = [@ EXCEPT ![e[2]] = a.xv[e[1]][k], ![k] = v]],
              !.chains = [@ EXCEPT ![a.xv[e[1]][k]] = <<e>> \o @]]

Kept(a, e, v) == [a EXCEPT !.chains = [@ EXCEPT ![v] = Append(@, e)]]

\* The value that gives the row its parity.
Forced(t, vs, rhs, other) == IF Parity(t, vs \ {other}) # rhs THEN other ELSE -other

\* One watch on the variable v, which was just assigned.
Visited(a, e, v) ==
    LET row == a.xv[e[1]]
        free == {k \in 3..Len(row) : Undef(a.t, row[k])}
        other == row[3 - e[2]]
        rhs == xrhs[e[1]]
    IN  IF a.conflict # {} THEN Kept(a, e, v)
        ELSE IF free # {} THEN Rewatched(a, e, v, Min(free))
        ELSE IF Undef(a.t, other)
        THEN [Kept(a, e, v) EXCEPT !.t = Enqueued(@, Forced(@, ToSet(row), rhs, other), level, ByRow(e[1]))]
        ELSE IF Parity(a.t, ToSet(row)) # rhs
        THEN [Kept(a, e, v) EXCEPT !.conflict = {FalseLit(a.t, w) : w \in ToSet(row)}]
        ELSE Kept(a, e, v)

\* The chain of a variable, from its head.
Walked(v) ==
    FoldLeft(LAMBDA a, e : Visited(a, e, v),
             [t |-> trail, xv |-> xvars, chains |-> [chains EXCEPT ![v] = <<>>], conflict |-> {}],
             chains[v])

--------------------------------------------------------------------------------
(***************************************************************************)
(* Conflict analysis.                                                       *)
(***************************************************************************)

\* The literals that force l: those of a clause, or the false ones of a row.
ReasonLits(l) ==
    LET why == EntryOf(trail, VarOf(l)).reason
    IN  IF why.by = "row" THEN {FalseLit(trail, v) : v \in ToSet(xvars[why.row]) \ {VarOf(l)}}
        ELSE why.clause \ {l}

Decided(l) == EntryOf(trail, VarOf(l)).reason.by = "decision"

\* analyze: the walk back over the trail.  A literal that is not of the level is
\* learned; a marked one is resolved until it is the last of the level.
RECURSIVE Resolved(_, _, _, _)
Resolved(cur, s, n, i) ==
    LET new == {q \in cur : VarOf(q) \notin s.seen /\ LevelOf(trail, q) > 0}
        seen == s.seen \cup {VarOf(q) : q \in new}
        paths == n + Cardinality({q \in new : LevelOf(trail, q) >= level})
        below == s.below \cup {q \in new : LevelOf(trail, q) < level}
        at == Max({k \in 0..i : k = 0 \/ VarOf(trail[k].lit) \in seen})
        p == trail[at].lit
    IN  IF at = 0 THEN [seen |-> seen, below |-> below, uip |-> 0]
        ELSE IF paths <= 1 THEN [seen |-> seen \ {VarOf(p)}, below |-> below, uip |-> p]
        ELSE Resolved(ReasonLits(p), [seen |-> seen \ {VarOf(p)}, below |-> below], paths - 1, at - 1)

\* lit_redundant: every reason leads to literals that are learned.
RECURSIVE Redundant(_, _)
Redundant(q, s) ==
    /\ ~Decided(q)
    /\ \A k \in ReasonLits(-q) :
          \/ VarOf(k) \in s.seen \/ LevelOf(trail, k) = 0
          \/ LevelOf(trail, k) \in {LevelOf(trail, b) : b \in s.below} /\ Redundant(k, s)

analyze(c) ==
    LET s == Resolved(c, [seen |-> {}, below |-> {}], 0, Len(trail))
    IN  [uip |-> s.uip, rest |-> {q \in s.below : ~Redundant(q, s)}]

\* analyze_final: the assumptions that force l.
RECURSIVE Blamed(_, _, _)
Blamed(seen, found, i) ==
    IF i = 0 \/ trail[i].level = 0 THEN found
    ELSE LET l == trail[i].lit
         IN  IF VarOf(l) \notin seen THEN Blamed(seen, found, i - 1)
             ELSE IF Decided(l) THEN Blamed(seen, found \cup {l}, i - 1)
             ELSE Blamed(seen \cup {VarOf(k) : k \in ReasonLits(l)}, found, i - 1)

analyze_final(p) == {-p} \cup (IF level = 0 THEN {} ELSE Blamed({VarOf(p)}, {}, Len(trail)))

--------------------------------------------------------------------------------
(***************************************************************************)
(* The calls.                                                               *)
(***************************************************************************)
Init ==
    /\ formula \in Formulas /\ learnts = {}
    /\ trail = <<>> /\ level = 0
    /\ xvars = <<>> /\ xrhs = <<>> /\ chains = [v \in Vars |-> <<>>] /\ xqhead = 0
    /\ pc = "idle" /\ conflict = {} /\ learned = [uip |-> 0, rest |-> {}]
    /\ assumptions = <<>> /\ reusable = FALSE /\ answer = "none" /\ core = {} /\ solves = 0

Stored == formula \cup learnts

MayCall == pc = "idle" /\ answer # "refuted"

\* A flush installs rows and leaves the trail as it is.
Install(rs) ==
    /\ MayCall /\ (Installing = "any" \/ level = 0)
    /\ set_xor_rows(rs)
    /\ answer' = "none"
    /\ UNCHANGED <<formula, learnts, trail, level, pc, conflict, learned, assumptions, reusable, core, solves>>

\* purge_vars, and the new life of the variables.
Recycle ==
    /\ MayCall /\ Retired # {} /\ formula \in Formulas
    /\ trail' = Cancelled(trail, 0) /\ level' = 0 /\ xqhead' = Cursor(trail')
    /\ formula' = {c \in formula : \A l \in c : VarOf(l) \notin Retired} \cup Redefined
    /\ learnts' = {c \in learnts : \A l \in c : VarOf(l) \notin Retired}
    /\ reusable' = FALSE /\ answer' = "none"
    /\ UNCHANGED <<xvars, xrhs, chains, pc, conflict, learned, assumptions, core, solves>>

Rewound(n) ==
    /\ trail' = Cancelled(trail, n)
    /\ level' = Min({level, n})
    /\ xqhead' = Cursor(trail')

Shared(as) == Max({n \in 0..Min({Len(as), Len(assumptions)}) : SubSeq(as, 1, n) = SubSeq(assumptions, 1, n)})

Solve(as) ==
    /\ MayCall /\ solves < MaxSolves
    /\ Rewound(IF ~reusable THEN 0 ELSE IF as = assumptions THEN level ELSE Min({Shared(as), level}))
    /\ assumptions' = as /\ reusable' = FALSE /\ answer' = "none" /\ core' = {}
    /\ pc' = "entry" /\ solves' = solves + 1
    /\ UNCHANGED <<formula, learnts, xvars, xrhs, chains, conflict, learned>>

--------------------------------------------------------------------------------
Falsified(c) == \A l \in c : False(trail, l)
UnitOf(c, l) == l \in c /\ Undef(trail, l) /\ \A k \in c \ {l} : False(trail, k)
Units == {m \in Stored \X Lits : UnitOf(m[1], m[2])}
Quiet == conflict = {} /\ Units = {} /\ \A c \in Stored : ~Falsified(c)

\* propagate
UnitClause ==
    /\ pc \in {"entry", "search"} /\ conflict = {}
    /\ \E m \in Units : trail' = Enqueued(trail, m[2], level, ByClause(m[1]))
    /\ UNCHANGED <<formula, learnts, level, pc, conflict, learned, assumptions, reusable, answer, core, solves, rowVars>>

ClauseConflict ==
    /\ pc \in {"entry", "search"} /\ conflict = {}
    /\ \E c \in Stored : Falsified(c) /\ conflict' = c
    /\ UNCHANGED <<formula, learnts, trail, level, pc, learned, assumptions, reusable, answer, core, solves, rowVars>>

\* The entry of a solve knows no rows.  The kept levels are at a fixpoint of the
\* clauses, of which none is added here, so that it meets no conflict above the root.
Enter ==
    /\ pc = "entry" /\ Quiet
    /\ pc' = "search"
    /\ UNCHANGED <<formula, learnts, trail, level, conflict, learned, assumptions, reusable, answer, core, solves, rowVars>>

RootConflict ==
    /\ pc \in {"entry", "search"} /\ conflict # {} /\ level = 0
    /\ pc' = "idle" /\ answer' = "refuted" /\ conflict' = {}
    /\ UNCHANGED <<formula, learnts, trail, level, learned, assumptions, reusable, core, solves, rowVars>>

\* xor_propagate runs to the end of the trail.
RowsDone == xvars = <<>> \/ xqhead >= Len(trail)

XorVisit ==
    /\ \/ pc = "search" /\ Quiet /\ ~RowsDone
       \/ pc = "rows" /\ conflict = {} /\ ~RowsDone
    /\ \E a \in {Walked(VarOf(trail[xqhead + 1].lit))} :
          /\ trail' = a.t /\ xvars' = a.xv /\ chains' = a.chains
          /\ conflict' = a.conflict
          /\ learnts' = learnts \cup (IF a.conflict = {} THEN {} ELSE {a.conflict})
          /\ pc' = IF a.conflict = {} THEN "rows" ELSE "search"
    /\ xqhead' = xqhead + 1
    /\ UNCHANGED <<formula, level, xrhs, learned, assumptions, reusable, answer, core, solves>>

XorDone ==
    /\ pc = "rows" /\ RowsDone
    /\ pc' = "search"
    /\ UNCHANGED <<formula, learnts, trail, level, conflict, learned, assumptions, reusable, answer, core, solves, rowVars>>

Conflict ==
    /\ pc = "search" /\ conflict # {} /\ level > 0
    /\ learned' = analyze(conflict)
    /\ pc' = "learn"
    /\ UNCHANGED <<formula, learnts, trail, level, conflict, assumptions, reusable, answer, core, solves, rowVars>>

Backjump == Max({0} \cup {LevelOf(trail, q) : q \in learned.rest})

Learn ==
    LET c == {-learned.uip} \cup learned.rest
        cut == Cancelled(trail, Backjump)
        why == IF learned.rest = {} THEN Decision ELSE ByClause(c)
    IN  /\ pc = "learn"
        /\ trail' = Enqueued(cut, -learned.uip, Backjump, why)
        /\ level' = Backjump /\ xqhead' = Cursor(cut)
        /\ learnts' = IF learned.rest = {} THEN learnts ELSE learnts \cup {c}
        /\ conflict' = {} /\ pc' = "search"
        /\ UNCHANGED <<formula, learned, assumptions, reusable, answer, core, solves, xvars, xrhs, chains>>

--------------------------------------------------------------------------------
Ready == pc = "search" /\ Quiet /\ RowsDone
ToInstall == level < Len(assumptions)
NextAssumption == assumptions[level + 1]

AlreadyTrue ==
    /\ Ready /\ ToInstall /\ True(trail, NextAssumption)
    /\ level' = level + 1
    /\ UNCHANGED <<formula, learnts, trail, pc, conflict, learned, assumptions, reusable, answer, core, solves, rowVars>>

Clash ==
    /\ Ready /\ ToInstall /\ False(trail, NextAssumption)
    /\ core' = analyze_final(-NextAssumption)
    /\ reusable' = TRUE /\ pc' = "idle" /\ answer' = "unsat"
    /\ UNCHANGED <<formula, learnts, trail, level, conflict, learned, assumptions, solves, rowVars>>

Decide(l) ==
    /\ Ready /\ Undef(trail, l)
    /\ IF ToInstall THEN l = NextAssumption ELSE l \in DecisionLits
    /\ level' = level + 1
    /\ trail' = Enqueued(trail, l, level + 1, Decision)
    /\ UNCHANGED <<formula, learnts, pc, conflict, learned, assumptions, reusable, answer, core, solves, rowVars>>

FoundModel ==
    /\ Ready /\ ~ToInstall /\ \A v \in Vars : ~Undef(trail, v)
    /\ reusable' = TRUE /\ pc' = "idle" /\ answer' = "sat"
    /\ UNCHANGED <<formula, learnts, trail, level, conflict, learned, assumptions, core, solves, rowVars>>

Next ==
    \/ \E rs \in RowSets : Install(rs)
    \/ \E as \in AssumptionLists : Solve(as)
    \/ Recycle
    \/ UnitClause \/ ClauseConflict \/ Enter \/ RootConflict
    \/ XorVisit \/ XorDone \/ Conflict \/ Learn
    \/ AlreadyTrue \/ Clash \/ FoundModel
    \/ \E l \in Lits : Decide(l)

Spec == Init /\ [][Next]_vars

--------------------------------------------------------------------------------
\* What a solve answers is right for the formula and its assumptions, whether
\* clauses or rows propagated, and an Unsat blames assumptions of that solve.
AnswersRight ==
    /\ answer = "sat" => {v \in Vars : True(trail, v)} \in Models(formula)
    /\ answer = "unsat" => core \subseteq ToSet(assumptions) /\ Refuted(formula, core)
    /\ answer = "refuted" => Models(formula) = {}

\* What is learned from a conflict, also from one of a row or through the reasons
\* that are rows, follows from the formula (analyze, xor_conflict_clause).
LearnedIsImplied ==
    /\ \A c \in learnts : Entails(formula, c)
    /\ pc = "learn" => Entails(formula, {-learned.uip} \cup learned.rest)

\* The learned clause is asserting: its first literal is of the level of the
\* conflict and no other is, so that it is unit after the backjump (analyze).
LearnedIsAsserting ==
    pc = "learn" =>
        /\ learned.uip # 0 /\ LevelOf(trail, learned.uip) = level
        /\ \A q \in learned.rest : LevelOf(trail, q) < level

\* A row that is given as the reason of a literal forces it, from variables that
\* were assigned before (xor_propagate, set_xor_rows).
RowReasonsForce ==
    \A i \in DOMAIN trail :
        (trail[i].reason.by = "row" /\ trail[i].level > 0) =>
            LET r == trail[i].reason.row
                before == {VarOf(trail[k].lit) : k \in 1..(i - 1)}
            IN  /\ r \in DOMAIN xvars
                /\ ToSet(xvars[r]) \ before = {VarOf(trail[i].lit)}
                /\ Parity(trail, ToSet(xvars[r])) = xrhs[r]

\* When propagation has come to rest, no row is broken and none has a single
\* variable left: moving the watches loses none (xor_propagate).
RowsPropagated ==
    (Ready /\ xvars # <<>>) =>
        \A r \in DOMAIN xvars :
            LET free == {v \in ToSet(xvars[r]) : Undef(trail, v)}
            IN  /\ Cardinality(free) # 1
                /\ free = {} => Parity(trail, ToSet(xvars[r])) = xrhs[r]

\* Each row is on the chains of its first two variables, once, and on no other:
\* rows and chains are changed together while a chain is walked (xor_propagate).
ChainsMatch ==
    \A v \in Vars :
        /\ ToSet(chains[v]) = {e \in (DOMAIN xvars) \X {1, 2} : xvars[e[1]][e[2]] = v}
        /\ \A i, j \in DOMAIN chains[v] : chains[v][i] = chains[v][j] => i = j
================================================================================
