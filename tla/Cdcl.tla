---------------------------------- MODULE Cdcl ----------------------------------
(***************************************************************************)
(* What the incremental CDCL solver promises (solver.rs), at the level of   *)
(* clauses as sets.  The formula grows by AddClause; a solve or a probe     *)
(* runs under a list of assumptions, one decision level per assumption; the *)
(* trail left by one call may be kept for the next.  Watch lists, the seen  *)
(* marks of conflict analysis and every heuristic are left to module        *)
(* Solver, which implements this one.                                       *)
(***************************************************************************)
EXTENDS Cnf, Sequences

CONSTANTS
    InputClauses,     \* the clauses a client may add
    AssumptionLists   \* the assumption lists it may solve or probe with

ASSUME InputAssumption ==
    /\ InputClauses \subseteq Clauses
    /\ AssumptionLists \subseteq Seq(Lits)

VARIABLES
    formula,      \* every clause ever given to AddClause
    originals,    \* what the solver stores of it
    learnts,      \* the learned clauses
    trail,        \* the assigned literals, oldest first, with level and reason
    lim,          \* lim[k]: the length of the trail when level k was opened
    assumptions,  \* the list of the last solve
    query,        \* the list of the solve or probe whose answer stands
    base,         \* the levels of the standing trail a running probe restores
    resolvent,    \* the clause conflict analysis works on
    core,         \* the assumptions blamed by the last assumption clash
    forced,       \* the literals a probe that returned read as assigned
    dead,         \* AddClause found the formula unsatisfiable
    answer,       \* what the last operation returned
    phase         \* where the solver is

dbVars == <<formula, originals, learnts, dead>>
trailVars == <<trail, lim>>
callVars == <<assumptions, query, base>>
resultVars == <<core, forced, answer>>
vars == <<dbVars, trailVars, callVars, resultVars, resolvent, phase>>

Entry == [lit : Lits, level : Nat, reason : Clauses]

Answers == {"none", "sat", "unsat", "stopped", "refuted", "forced"}

Phases == {"idle", "search", "conflict", "probe"}

TypeOK ==
    /\ formula \subseteq Clauses
    /\ originals \subseteq Clauses
    /\ learnts \subseteq Clauses
    /\ trail \in Seq(Entry)
    /\ lim \in Seq(Nat)
    /\ assumptions \in Seq(Lits)
    /\ query \in Seq(Lits)
    /\ base \in Nat
    /\ resolvent \in Clauses
    /\ core \subseteq Lits
    /\ forced \subseteq Lits
    /\ dead \in BOOLEAN
    /\ answer \in Answers
    /\ phase \in Phases

(***************************************************************************)
(* The trail.                                                               *)
(***************************************************************************)
Level == Len(lim)

True(l) == \E i \in DOMAIN trail : trail[i].lit = l

TrueBy(l, n) == \E i \in DOMAIN trail : trail[i].lit = l /\ trail[i].level <= n

TrueAt(l, n) == \E i \in DOMAIN trail : trail[i].lit = l /\ trail[i].level = n

False(l) == True(-l)

Undef(l) == ~True(l) /\ ~False(l)

\* value_fixed: root facts only.
RootTrue(l) == TrueBy(l, 0)

RootFalse(l) == RootTrue(-l)

\* The length of the trail after cancel_until(n).
Cut(n) == IF n < Level THEN lim[n + 1] ELSE Len(trail)

Kept(n) == SubSeq(trail, 1, Cut(n))

KeptLim(n) == SubSeq(lim, 1, IF n < Level THEN n ELSE Level)

CancelUntil(n) ==
    /\ trail' = Kept(n)
    /\ lim' = KeptLim(n)

\* cancel_until(n), n at most the current level, and enqueue l there.
Assert(n, l, r) ==
    /\ trail' = Append(Kept(n), [lit |-> l, level |-> n, reason |-> r])
    /\ lim' = KeptLim(n)

Decide(l) ==
    /\ trail' = Append(trail, [lit |-> l, level |-> Level + 1, reason |-> {}])
    /\ lim' = Append(lim, Len(trail))

(***************************************************************************)
(* Unit propagation.                                                        *)
(***************************************************************************)
Db == originals \cup learnts

Falsified(c) == \A l \in c : False(l)

UnitWith(c, l) == l \in c /\ Undef(l) /\ \A q \in c \ {l} : False(q)

\* propagate returned None: nothing is falsified and nothing is unit.
Fixpoint == \A c \in Db : ~Falsified(c) /\ \A l \in c : ~UnitWith(c, l)

\* A bug Strip must not have: literals false under the standing trail go.
StripFalse(c) == {l \in c : ~False(l)}

Strip(c) == {l \in c : ~RootFalse(l)}

\* A bug Follows must not have: a decision is taken for a consequence.
FollowsAny(l, S, K) == True(l)

\* Reason clauses above the root, the literals K and the root facts account
\* for every trail literal at a position of S.
Follows(l, S, K) == RootTrue(l) \/ l \in K \/ \E i \in S : trail[i].lit = l

Supported(S, K) ==
    \A i \in S :
        /\ trail[i].reason # {}
        /\ \A q \in trail[i].reason \ {trail[i].lit} : Follows(-q, S, K)

--------------------------------------------------------------------------------
Init ==
    /\ formula = {} /\ originals = {} /\ learnts = {}
    /\ trail = <<>> /\ lim = <<>>
    /\ assumptions = <<>> /\ query = <<>> /\ base = 0
    /\ resolvent = {} /\ core = {} /\ forced = {}
    /\ dead = FALSE
    /\ answer = "none"
    /\ phase = "idle"

(***************************************************************************)
(* add_clause, between solves.  The standing trail is kept as far as the    *)
(* new clause allows.                                                       *)
(***************************************************************************)
AddIgnored(c) ==
    /\ dead \/ Tautology(c) \/ \E l \in c : RootTrue(l)
    /\ UNCHANGED <<originals, trailVars, dead>>

AddEmpty(c) ==
    /\ ~dead /\ ~Tautology(c) /\ Strip(c) = {}
    /\ ~\E l \in c : RootTrue(l)
    /\ dead' = TRUE
    /\ CancelUntil(0)
    /\ UNCHANGED originals

AddUnit(c, u) ==
    /\ ~dead /\ ~Tautology(c) /\ Strip(c) = {u}
    /\ ~RootTrue(u)
    /\ Assert(0, u, {})
    /\ UNCHANGED <<originals, dead>>

\* At least two literals survive: the clause is stored, and the trail is cut
\* back to a level n where it is not falsified; if it is unit there, its
\* last literal is enqueued at that level.
AddStored(c, n) ==
    LET s == Strip(c)
        FalseAtN(q) == TrueBy(-q, n)
    IN  /\ ~dead /\ ~Tautology(c) /\ ~\E l \in c : RootTrue(l)
        /\ \E l, k \in s : l # k
        /\ originals' = originals \cup {s}
        /\ \/ /\ \/ \E l, k \in s : l # k /\ ~FalseAtN(l) /\ ~FalseAtN(k)
                 \/ \E u \in s : TrueBy(u, n)
              /\ CancelUntil(n)
           \/ \E u \in s :
                 /\ ~TrueBy(u, n) /\ ~FalseAtN(u)
                 /\ \A q \in s \ {u} : FalseAtN(q)
                 /\ Assert(n, u, s)
        /\ UNCHANGED dead

AddClause(c) ==
    /\ phase = "idle"
    /\ formula' = formula \cup {c}
    /\ answer' = "none" /\ query' = <<>> /\ forced' = {}
    /\ \/ AddIgnored(c)
       \/ AddEmpty(c)
       \/ \E u \in Lits : AddUnit(c, u)
       \/ \E n \in 0..Level : AddStored(c, n)
    /\ UNCHANGED <<learnts, assumptions, base, resolvent, core, phase>>

(***************************************************************************)
(* A solve starts from the levels its assumptions share with those of the   *)
(* solve before; a full match keeps the search levels too.                  *)
(***************************************************************************)
\* A bug Shared must not have: the lists are not compared.
SharedAll(as, n) == TRUE

Shared(as, n) ==
    /\ n <= Len(as) /\ n <= Len(assumptions)
    /\ \A k \in 1..n : as[k] = assumptions[k]

Solve(as) ==
    /\ phase = "idle" /\ ~dead
    /\ \E n \in 0..Level : (Shared(as, n) \/ as = assumptions) /\ CancelUntil(n)
    /\ assumptions' = as
    /\ query' = as
    /\ core' = {}
    /\ answer' = "none" /\ forced' = {}
    /\ phase' = "search"
    /\ UNCHANGED <<dbVars, base, resolvent>>

SolveDead(as) ==
    /\ phase = "idle" /\ dead
    /\ query' = as
    /\ answer' = "unsat" /\ forced' = {}
    /\ UNCHANGED <<dbVars, trailVars, assumptions, base, core, resolvent, phase>>

Propagate(c, l) ==
    /\ phase \in {"search", "probe"}
    /\ UnitWith(c, l)
    /\ Assert(Level, l, c)
    /\ UNCHANGED <<dbVars, callVars, resultVars, resolvent, phase>>

\* A bug RootConflict must not have: any conflict ends the search.
AnyConflict(c) ==
    /\ phase = "search"
    /\ Falsified(c)
    /\ answer' = "unsat"
    /\ phase' = "idle"
    /\ UNCHANGED <<dbVars, trailVars, callVars, core, forced, resolvent>>

RootConflict(c) ==
    /\ phase = "search" /\ Level = 0
    /\ Falsified(c)
    /\ answer' = "unsat"
    /\ phase' = "idle"
    /\ UNCHANGED <<dbVars, trailVars, callVars, core, forced, resolvent>>

\* analyze: the conflicting clause, root literals dropped, is the first
\* resolvent.
Conflict(c) ==
    /\ phase = "search" /\ Level > 0
    /\ Falsified(c)
    /\ resolvent' = Strip(c)
    /\ phase' = "conflict"
    /\ UNCHANGED <<dbVars, trailVars, callVars, resultVars>>

\* The trail walk of analyze: the most recent literal of the resolvent is
\* resolved with its reason while another literal of the level remains.
Explain(i) ==
    LET e == trail[i]
    IN  /\ phase = "conflict"
        /\ -e.lit \in resolvent
        /\ e.reason # {}
        /\ \A j \in DOMAIN trail : j > i => -trail[j].lit \notin resolvent
        /\ \E l \in resolvent : l # -e.lit /\ TrueAt(-l, Level)
        /\ resolvent' = Strip((resolvent \ {-e.lit}) \cup (e.reason \ {e.lit}))
        /\ UNCHANGED <<dbVars, trailVars, callVars, resultVars, phase>>

\* One literal u of the level is left.  Minimization drops literals that
\* follow from the rest of d; the solver backjumps and asserts u.
Learn(u, d, bt) ==
    /\ phase = "conflict"
    /\ u \in d /\ d \subseteq resolvent
    /\ TrueAt(-u, Level) /\ \A q \in resolvent \ {u} : ~TrueAt(-q, Level)
    /\ \E S \in SUBSET DOMAIN trail :
          /\ Supported(S, Negated(d))
          /\ \A q \in resolvent \ d : Follows(-q, S, Negated(d))
    /\ IF d = {u} THEN bt = 0
                  ELSE /\ \A q \in d \ {u} : TrueBy(-q, bt)
                       /\ \E q \in d \ {u} : TrueAt(-q, bt)
    /\ Assert(bt, u, IF d = {u} THEN {} ELSE d)
    /\ learnts' = IF d = {u} THEN learnts ELSE learnts \cup {d}
    /\ resolvent' = {}
    /\ phase' = "search"
    /\ UNCHANGED <<formula, originals, dead, callVars, resultVars>>

\* A restart, with or without reuse of a prefix of the trail; also the one
\* rebuild a solve does when its kept prefix is refuted by new clauses.
Restart(n) ==
    /\ phase = "search"
    /\ CancelUntil(n)
    /\ UNCHANGED <<dbVars, callVars, resultVars, resolvent, phase>>

\* Deletes learned clauses. A reason stays: either it is not deleted, or the
\* deleted clause only has the literals of an original one that is the reason.
ReduceDb(gone) ==
    /\ phase = "search"
    /\ gone \subseteq learnts
    /\ \A i \in DOMAIN trail : trail[i].reason \notin gone \ originals
    /\ learnts' = learnts \ gone
    /\ UNCHANGED <<formula, originals, dead, trailVars, callVars, resultVars, resolvent, phase>>

Stop ==
    /\ phase = "search"
    /\ CancelUntil(0)
    /\ answer' = "stopped"
    /\ phase' = "idle"
    /\ UNCHANGED <<dbVars, callVars, core, forced, resolvent>>

(***************************************************************************)
(* Decisions: the assumptions first, one level each, then any variable.     *)
(***************************************************************************)
Pending == phase = "search" /\ Level < Len(assumptions)

NextAssumption == assumptions[Level + 1]

Assume ==
    /\ Pending /\ Fixpoint
    /\ Undef(NextAssumption)
    /\ Decide(NextAssumption)
    /\ UNCHANGED <<dbVars, callVars, resultVars, resolvent, phase>>

AlreadyTrue ==
    /\ Pending /\ Fixpoint
    /\ True(NextAssumption)
    /\ lim' = Append(lim, Len(trail))
    /\ UNCHANGED <<dbVars, trail, callVars, resultVars, resolvent, phase>>

\* A bug Clash must not have: the assumption that clashed is not blamed.
ClashShort(S, K) ==
    /\ Pending /\ Fixpoint
    /\ False(NextAssumption)
    /\ \A l \in K : \E i \in DOMAIN trail :
          trail[i].lit = l /\ trail[i].reason = {} /\ trail[i].level > 0
    /\ Supported(S, K)
    /\ Follows(-NextAssumption, S, K)
    /\ core' = K
    /\ answer' = "unsat"
    /\ phase' = "idle"
    /\ UNCHANGED <<dbVars, trailVars, callVars, forced, resolvent>>

\* analyze_final: the clash is blamed on the decisions it follows from.
Clash(S, K) ==
    /\ Pending /\ Fixpoint
    /\ False(NextAssumption)
    /\ \A l \in K : \E i \in DOMAIN trail :
          trail[i].lit = l /\ trail[i].reason = {} /\ trail[i].level > 0
    /\ Supported(S, K)
    /\ Follows(-NextAssumption, S, K)
    /\ core' = K \cup {NextAssumption}
    /\ answer' = "unsat"
    /\ phase' = "idle"
    /\ UNCHANGED <<dbVars, trailVars, callVars, forced, resolvent>>

Branch(l) ==
    /\ phase = "search" /\ Level >= Len(assumptions) /\ Fixpoint
    /\ Undef(l)
    /\ Decide(l)
    /\ UNCHANGED <<dbVars, callVars, resultVars, resolvent, phase>>

\* A bug FoundModel must not have: assumptions may be left.
FoundEarly ==
    /\ phase = "search" /\ Fixpoint
    /\ \A v \in Vars : ~Undef(v)
    /\ answer' = "sat"
    /\ phase' = "idle"
    /\ UNCHANGED <<dbVars, trailVars, callVars, core, forced, resolvent>>

FoundModel ==
    /\ phase = "search" /\ Level >= Len(assumptions) /\ Fixpoint
    /\ \A v \in Vars : ~Undef(v)
    /\ answer' = "sat"
    /\ phase' = "idle"
    /\ UNCHANGED <<dbVars, trailVars, callVars, core, forced, resolvent>>

(***************************************************************************)
(* probe_under_assumptions: propagation alone, from the assumption levels   *)
(* shared with the last solve, which the probe restores when it returns.    *)
(***************************************************************************)
Probe(as) ==
    /\ phase = "idle" /\ ~dead
    /\ \E n \in 0..Level : Shared(as, n) /\ CancelUntil(n) /\ base' = n
    /\ query' = as
    /\ answer' = "none" /\ forced' = {}
    /\ phase' = "probe"
    /\ UNCHANGED <<dbVars, assumptions, core, resolvent>>

ProbeDead(as) ==
    /\ phase = "idle" /\ dead
    /\ query' = as
    /\ answer' = "refuted" /\ forced' = {}
    /\ UNCHANGED <<dbVars, trailVars, assumptions, base, core, resolvent, phase>>

ProbeAssume(k) ==
    /\ phase = "probe" /\ Fixpoint
    /\ Undef(query[k])
    /\ Decide(query[k])
    /\ UNCHANGED <<dbVars, callVars, resultVars, resolvent, phase>>

ProbeRefuted(n) ==
    /\ phase = "probe"
    /\ (\E c \in Db : Falsified(c)) \/ (\E k \in DOMAIN query : False(query[k]))
    /\ n <= base
    /\ CancelUntil(n)
    /\ answer' = "refuted"
    /\ phase' = "idle" /\ base' = 0
    /\ UNCHANGED <<dbVars, assumptions, query, core, forced, resolvent>>

ProbeRead ==
    /\ phase = "probe" /\ Fixpoint
    /\ \A k \in DOMAIN query : True(query[k])
    /\ forced' = {trail[i].lit : i \in DOMAIN trail}
    /\ CancelUntil(base)
    /\ answer' = "forced"
    /\ phase' = "idle" /\ base' = 0
    /\ UNCHANGED <<dbVars, assumptions, query, core, resolvent>>

--------------------------------------------------------------------------------
Call ==
    \/ \E c \in InputClauses : AddClause(c)
    \/ \E as \in AssumptionLists :
          Solve(as) \/ SolveDead(as) \/ Probe(as) \/ ProbeDead(as)

Deduce ==
    \/ \E c \in Db : \E l \in c : Propagate(c, l)
    \/ \E c \in Db : RootConflict(c) \/ Conflict(c)
    \/ \E i \in DOMAIN trail : Explain(i)
    \/ \E d \in SUBSET resolvent : \E u \in d : \E bt \in 0..(Level - 1) : Learn(u, d, bt)

Manage ==
    \/ \E n \in 0..Level : Restart(n)
    \/ \E gone \in SUBSET learnts : ReduceDb(gone)
    \/ Stop

Search ==
    \/ Assume \/ AlreadyTrue \/ FoundModel
    \/ \E S \in SUBSET DOMAIN trail : \E K \in SUBSET {trail[i].lit : i \in DOMAIN trail} : Clash(S, K)
    \/ \E l \in Lits : Branch(l)

ProbeStep ==
    \/ \E k \in DOMAIN query : ProbeAssume(k)
    \/ \E n \in 0..Level : ProbeRefuted(n)
    \/ ProbeRead

Next == Call \/ Deduce \/ Manage \/ Search \/ ProbeStep

Spec == Init /\ [][Next]_vars
--------------------------------------------------------------------------------
QueryLits == {query[k] : k \in DOMAIN query}

Model == {v \in Vars : True(v)}

\* "Unsat" is a proof: no model of the formula satisfies the assumptions the
\* call was made with, whatever was learned, kept or forgotten on the way.
UnsatIsProof == answer = "unsat" => Refuted(formula, QueryLits)

\* "Sat" is a model: the standing trail satisfies every clause ever added,
\* also those add_clause dropped or shortened, and every assumption.
SatIsModel ==
    answer = "sat" => Model \in Models(formula) /\ \A l \in QueryLits : Holds(Model, l)

\* A probe that returns None is a refutation of formula and assumptions.
RefutedIsProof == answer = "refuted" => Refuted(formula, QueryLits)

\* Every literal a probe reads as assigned holds in each model of the
\* formula and the probe's assumptions.
ForcedIsImplied ==
    answer = "forced" => \A l \in forced : Refuted(formula, QueryLits \cup {-l})

\* The core is unsatisfiable with the formula, for as long as it can be read.
CoreIsUnsat == core # {} => Refuted(formula, core)

\* The core of an assumption clash blames assumptions of that very solve.
CoreFromQuery == answer = "unsat" /\ ~dead => core \subseteq QueryLits

\* probe_under_assumptions never says more than the formula and the probe's
\* assumptions do, whatever trail it starts from and however it ends.
ProbeRight == RefutedIsProof /\ ForcedIsImplied

\* unsat_core is unsatisfiable with the formula for as long as it can be read,
\* and made of assumptions of the call it answers (analyze_final).
CoreRight == CoreIsUnsat /\ CoreFromQuery

\* What is learned, clause or root fact, follows from the clauses added so
\* far, and not from the assumptions under which it was learned.
LearntsImplied ==
    /\ \A c \in learnts : Entails(formula, c)
    /\ \A l \in Lits : RootTrue(l) => Entails(formula, {l})

(***************************************************************************)
(* The parts of the inductive invariant behind them (module CdclProofs).    *)
(***************************************************************************)
\* The trail's levels are what lim says, and no variable is assigned twice.
TrailShape ==
    /\ \A k \in DOMAIN lim : lim[k] <= Len(trail)
    /\ \A i \in DOMAIN trail :
          /\ trail[i].level <= Level
          /\ \A k \in DOMAIN lim : trail[i].level < k <=> i <= lim[k]
    /\ \A i, j \in DOMAIN trail : VarOf(trail[i].lit) = VarOf(trail[j].lit) => i = j

\* What is stored follows from what was added, and covers it.
DbImplied == \A c \in Db : Entails(formula, c)

FormulaCovered ==
    \A c \in formula : \/ dead
                       \/ Tautology(c)
                       \/ \E l \in c : RootTrue(l)
                       \/ \E d \in originals : d \subseteq c

\* A reason is an implied clause whose other literals were falsified earlier.
ReasonsHold ==
    \A i \in DOMAIN trail :
        trail[i].reason # {} =>
            /\ trail[i].lit \in trail[i].reason
            /\ Entails(formula, trail[i].reason)
            /\ \A q \in trail[i].reason \ {trail[i].lit} : \E j \in 1..(i - 1) : trail[j].lit = -q

RootImplied == \A i \in DOMAIN trail : trail[i].level = 0 => Entails(formula, {trail[i].lit})

ResolventHolds ==
    phase = "conflict" =>
        /\ Level > 0
        /\ Entails(formula, resolvent)
        /\ \A q \in resolvent : False(q)

\* One level per assumption: the decision of level k, if it has one, is
\* assumption k, and assumption k holds at level k already.  While a probe
\* runs this is so for the levels it will restore.
Owned == IF phase = "probe" THEN base ELSE Level

AssumptionLevels ==
    /\ \A i \in DOMAIN trail :
          /\ trail[i].reason = {}
          /\ trail[i].level \in 1..Owned
          /\ trail[i].level <= Len(assumptions)
          => trail[i].lit = assumptions[trail[i].level]
    /\ \A k \in 1..Owned : k <= Len(assumptions) => TrueBy(assumptions[k], k)

ProbeLevels ==
    phase = "probe" =>
        /\ base <= Level
        /\ Shared(query, base)
        /\ \A i \in DOMAIN trail :
              trail[i].reason = {} /\ trail[i].level > 0 => trail[i].lit \in QueryLits

CallShape ==
    /\ phase # "idle" => answer = "none" /\ ~dead
    /\ phase \in {"search", "conflict"} => query = assumptions /\ core = {}
    /\ dead => Models(formula) = {}

IInv ==
    /\ TypeOK
    /\ TrailShape
    /\ DbImplied /\ FormulaCovered
    /\ ReasonsHold /\ RootImplied /\ ResolventHolds
    /\ AssumptionLevels /\ ProbeLevels /\ CallShape
    /\ UnsatIsProof /\ SatIsModel /\ RefutedIsProof /\ ForcedIsImplied
    /\ CoreIsUnsat /\ CoreFromQuery
================================================================================
