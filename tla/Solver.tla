---------------------------------- MODULE Solver ----------------------------------
(***************************************************************************)
(* The incremental SAT solver (solver.rs): add_clause, the solve loop with  *)
(* assumptions and trail reuse, the propagation-only probe.  Propagation    *)
(* and conflict analysis are those of modules Propagation and Analyze.  The *)
(* decision heuristic, the restart policy and clause activities are         *)
(* nondeterministic.                                                        *)
(***************************************************************************)
EXTENDS Analyze

CONSTANTS
    AssumptionLists,  \* the lists a client may solve or probe with
    MaxCalls,         \* bound: the solves and probes
    RESTART_REUSE,    \* whether a restart may keep a prefix of the trail
    AskAgain          \* whether the client calls on after a root conflict

ASSUME SolverAssumption ==
    /\ AssumptionLists \subseteq Seq(Lits)
    /\ MaxCalls \in Nat /\ RESTART_REUSE \in BOOLEAN /\ AskAgain \in BOOLEAN
    /\ {VarOf(l) : l \in DecisionLits} = Vars

VARIABLES
    pc,              \* where the running call is
    assumptions,     \* the list of the last solve
    query,           \* the list of the solve or probe whose answer stands
    trail_reusable,  \* the standing trail may be kept by the next call
    conflict_core,
    answer,          \* what the last call returned; "sat" is has_model
    forced,          \* the literals a probe that returned read as assigned
    base, at,        \* a probe: the levels it restores, its next assumption
    armed,           \* a conflict since the last restart
    refuted,         \* a call ended in a conflict at level 0
    calls

callVars == <<assumptions, query, trail_reusable, conflict_core, answer, forced, base, at,
              armed, refuted, calls>>
vars == <<propVars, clientVars, analyzeVars, pc, callVars>>

TypeOK ==
    /\ PropTypeOK /\ AnalyzeTypeOK
    /\ pc \in {"idle", "entry", "rebuild", "search", "boundary", "analyze", "learned", "blame",
              "probe"}
    /\ assumptions \in Seq(Lits) /\ query \in Seq(Lits)
    /\ trail_reusable \in BOOLEAN
    /\ conflict_core \subseteq Lits /\ forced \subseteq Lits
    /\ answer \in {"none", "sat", "unsat", "stopped", "refuted", "forced"}
    /\ base \in Nat /\ at \in Nat
    /\ armed \in BOOLEAN /\ refuted \in BOOLEAN
    /\ calls \in 0..MaxCalls

Init ==
    /\ PropInit /\ AnalyzeInit
    /\ pc = "idle"
    /\ assumptions = <<>> /\ query = <<>>
    /\ trail_reusable = FALSE
    /\ conflict_core = {} /\ answer = "none" /\ forced = {}
    /\ base = 0 /\ at = 0
    /\ armed = FALSE /\ refuted = FALSE
    /\ calls = 0

Return(result) == pc' = "idle" /\ answer' = result

\* The root conflict itself stays unrecorded in the solver; refuted tells the
\* client.
ReturnRefuted(result) == Return(result) /\ refuted' = TRUE

--------------------------------------------------------------------------------
(***************************************************************************)
(* The client's calls.                                                      *)
(***************************************************************************)
MayCall == pc = "idle" /\ (AskAgain \/ ~refuted)

AddClause(c) ==
    /\ MayCall /\ c \notin formula
    /\ add_clause(c)
    /\ answer' = "none" /\ query' = <<>> /\ forced' = {}
    /\ UNCHANGED <<analyzeVars, pc, assumptions, trail_reusable, conflict_core, base, at,
                   armed, refuted, calls>>

\* The length of the longest common prefix of two lists.
SharedLen(s, t) ==
    Max({n \in 0..Min({Len(s), Len(t)}) : \A k \in 1..n : s[k] = t[k]})

MayAsk == MayCall /\ calls < MaxCalls

Ask(as) ==
    /\ query' = as /\ forced' = {}
    /\ calls' = calls + 1

\* A dead solver answers at once; the previous core stays in place.
AskDead(as) ==
    /\ MayAsk /\ dead
    /\ Ask(as)
    /\ \E result \in {"unsat", "refuted"} : Return(result)
    /\ UNCHANGED <<propVars, clientVars, analyzeVars, assumptions, trail_reusable,
                   conflict_core, base, at, armed, refuted>>

\* A bug KeptLevel must not have: the assumptions are not compared.
KeptLevelAll(as) == IF trail_reusable THEN LevelOf(trail) ELSE 0

\* The entry of solve: the levels of the shared assumption prefix are kept,
\* and the search levels too if the list is the same.
KeptLevel(as) ==
    IF ~trail_reusable THEN 0
    ELSE IF as = assumptions THEN LevelOf(trail)
    ELSE Min({SharedLen(as, assumptions), LevelOf(trail)})

Solve(as) ==
    /\ MayAsk /\ ~dead
    /\ Ask(as)
    /\ trail' = Cancelled(trail, KeptLevel(as))
    /\ assumptions' = as
    /\ trail_reusable' = FALSE
    /\ conflict_core' = {}
    /\ answer' = "none"
    /\ armed' = FALSE
    /\ pc' = "entry"
    /\ UNCHANGED <<dbVars, visit, conflict, clientVars, analyzeVars, base, at, refuted>>

Probe(as) ==
    LET keep == IF trail_reusable
                THEN Min({SharedLen(as, assumptions), LevelOf(trail)})
                ELSE 0
    IN  /\ MayAsk /\ ~dead
        /\ Ask(as)
        /\ trail' = Cancelled(trail, keep)
        /\ base' = keep /\ at' = keep + 1
        /\ answer' = "none"
        /\ pc' = "probe"
        /\ UNCHANGED <<dbVars, visit, conflict, clientVars, analyzeVars, assumptions,
                       trail_reusable, conflict_core, armed, refuted>>

--------------------------------------------------------------------------------
(***************************************************************************)
(* Propagation runs inside every call.                                      *)
(***************************************************************************)
Propagate ==
    /\ pc \in {"entry", "rebuild", "search", "probe"}
    /\ propagate
    /\ UNCHANGED <<analyzeVars, pc, callVars>>

\* A conflict at the root refutes the formula whatever the assumptions.
RootConflict ==
    /\ pc \in {"entry", "rebuild", "search"} /\ conflict # <<>>
    /\ LevelOf(trail) = 0
    /\ ReturnRefuted("unsat")
    /\ conflict' = <<>>
    /\ UNCHANGED <<trail, dbVars, visit, clientVars, analyzeVars, assumptions, query,
                   trail_reusable, conflict_core, forced, base, at, armed, calls>>

\* A bug Rebuild must not have: the kept prefix stays.
RebuildShort ==
    /\ pc = "entry" /\ conflict # <<>>
    /\ LevelOf(trail) > 0
    /\ conflict' = <<>>
    /\ pc' = "rebuild"
    /\ UNCHANGED <<trail, dbVars, visit, clientVars, analyzeVars, callVars>>

\* A conflict in the kept prefix only refutes that prefix: start over, once.
Rebuild ==
    /\ pc = "entry" /\ conflict # <<>>
    /\ LevelOf(trail) > 0
    /\ trail' = Cancelled(trail, 0)
    /\ conflict' = <<>>
    /\ pc' = "rebuild"
    /\ UNCHANGED <<dbVars, visit, clientVars, analyzeVars, callVars>>

EnterLoop ==
    /\ pc \in {"entry", "rebuild"} /\ Quiet
    /\ pc' = "search"
    /\ UNCHANGED <<propVars, clientVars, analyzeVars, callVars>>

Conflict ==
    /\ pc = "search" /\ conflict # <<>>
    /\ LevelOf(trail) > 0
    /\ BeginAnalyze
    /\ armed' = TRUE
    /\ pc' = "analyze"
    /\ UNCHANGED <<propVars, clientVars, assumptions, query, trail_reusable, conflict_core,
                   answer, forced, base, at, refuted, calls>>

Analyse ==
    /\ pc = "analyze"
    /\ analyze
    /\ UNCHANGED <<propVars, clientVars, pc, callVars>>

Learn ==
    /\ pc = "analyze" /\ step = "learn"
    /\ Learnt(LearnedClause, Lbd(LearnedClause))
    /\ conflict' = <<>>
    /\ step' = "none" /\ work' = NoWork
    /\ pc' = "learned"
    /\ UNCHANGED <<visit, clientVars, seen, toclear, callVars>>

\* should_stop is asked only after a learned clause is in place.
Continue ==
    /\ pc = "learned"
    /\ pc' = "search"
    /\ UNCHANGED <<propVars, clientVars, analyzeVars, callVars>>

Stop ==
    /\ pc = "learned"
    /\ trail' = Cancelled(trail, 0)
    /\ Return("stopped")
    /\ UNCHANGED <<dbVars, visit, conflict, clientVars, analyzeVars, assumptions, query,
                   trail_reusable, conflict_core, forced, base, at, armed, refuted, calls>>

--------------------------------------------------------------------------------
(***************************************************************************)
(* The loop when propagation found no conflict.                             *)
(***************************************************************************)
Ready == pc = "search" /\ Quiet

\* Is the clause the reason of its first literal?
locked(c) ==
    /\ IsTrue(trail, Body(c)[1])
    /\ ReasonOf(trail, Body(c)[1]) = ByClause(c)

Rank(K, i) == Cardinality({j \in K : j <= i})

\* watches.retain on one list: the watchers that stay, in their order.
Retained(s, gone) ==
    LET kept == {i \in DOMAIN s : Binary(s[i]) \/ s[i].cref \notin gone}
    IN  [k \in 1..Cardinality(kept) |-> s[CHOOSE i \in kept : Rank(kept, i) = k]]

Purged(gone) == [l \in Lits |-> Retained(watches[l], gone)]

\* reduce_db: of the worse half by LBD, what is neither glue nor locked goes.
ReduceDb ==
    /\ Ready
    /\ \E good \in SUBSET Learnts :
          LET gone == {c \in Learnts \ good : arena[c].lbd > 2 /\ ~locked(c)}
          IN  /\ Cardinality(good) = Cardinality(Learnts) \div 2
              /\ \A g \in good, b \in Learnts \ good : arena[g].lbd <= arena[b].lbd
              /\ gone # {}
              /\ arena' = [c \in Crefs |-> IF c \in gone THEN [arena[c] EXCEPT !.lits = <<>>]
                                           ELSE arena[c]]
              /\ watches' = Purged(gone)
    /\ UNCHANGED <<trail, binaries, learntBins, visit, conflict, clientVars, analyzeVars, pc,
                   callVars>>

\* A bug AfterRestart must not have: the restart condition stays true.
StillArmed == UNCHANGED armed

AfterRestart == armed' = FALSE

\* A restart keeps nothing, or the assumption levels and some search levels.
Restart ==
    LET first == Min({Len(assumptions), LevelOf(trail)})
    IN  /\ Ready /\ armed
        /\ \E n \in {0} \cup (IF RESTART_REUSE THEN first..LevelOf(trail) ELSE {}) :
              trail' = Cancelled(trail, n)
        /\ AfterRestart
        /\ pc' = "boundary"
        /\ UNCHANGED <<dbVars, visit, conflict, clientVars, analyzeVars, assumptions, query,
                       trail_reusable, conflict_core, answer, forced, base, at, refuted, calls>>

\* A decision follows propagation, or a restart at once.
Deciding == Ready \/ pc = "boundary"

Installing == Deciding /\ LevelOf(trail) < Len(assumptions)

NextAssumption == assumptions[LevelOf(trail) + 1]

\* An assumption that holds already gets an empty level.
AlreadyTrue ==
    /\ Installing /\ IsTrue(trail, NextAssumption)
    /\ trail' = Opened(trail)
    /\ UNCHANGED <<dbVars, visit, conflict, clientVars, analyzeVars, pc, callVars>>

Clashing == Installing /\ IsFalse(trail, NextAssumption)

\* Nothing to trace: the assumption is the core.
Clash ==
    /\ Clashing /\ (LevelOf(trail) = 0 \/ ~CORE_ON)
    /\ conflict_core' = {NextAssumption}
    /\ trail_reusable' = TRUE
    /\ Return("unsat")
    /\ UNCHANGED <<propVars, clientVars, analyzeVars, assumptions, query, forced, base, at,
                   armed, refuted, calls>>

TraceClash ==
    /\ Clashing /\ LevelOf(trail) > 0 /\ CORE_ON
    /\ conflict_core' = {NextAssumption}
    /\ BeginBlame(-NextAssumption)
    /\ pc' = "blame"
    /\ UNCHANGED <<propVars, clientVars, assumptions, query, trail_reusable, answer, forced,
                   base, at, armed, refuted, calls>>

Trace ==
    /\ pc = "blame"
    /\ Blame
    /\ conflict_core' = conflict_core \cup Blamed
    /\ UNCHANGED <<propVars, clientVars, pc, assumptions, query, trail_reusable, answer, forced,
                   base, at, armed, refuted, calls>>

EndTrace ==
    /\ pc = "blame"
    /\ EndBlame
    /\ trail_reusable' = TRUE
    /\ Return("unsat")
    /\ UNCHANGED <<propVars, clientVars, assumptions, query, conflict_core, forced, base, at,
                   armed, refuted, calls>>

Decide(l) ==
    /\ trail' = Enqueued(Opened(trail), l, Decision)
    /\ pc' = "search"
    /\ UNCHANGED <<dbVars, visit, conflict, clientVars, analyzeVars, callVars>>

Assume ==
    /\ Installing /\ IsUndef(trail, NextAssumption)
    /\ Decide(NextAssumption)

Branch(l) ==
    /\ Deciding /\ LevelOf(trail) >= Len(assumptions)
    /\ IsUndef(trail, l)
    /\ Decide(l)

FoundModel ==
    /\ Deciding /\ LevelOf(trail) >= Len(assumptions)
    /\ \A v \in Vars : ~IsUndef(trail, v)
    /\ trail_reusable' = TRUE
    /\ Return("sat")
    /\ UNCHANGED <<propVars, clientVars, analyzeVars, assumptions, query, conflict_core, forced,
                   base, at, armed, refuted, calls>>

--------------------------------------------------------------------------------
(***************************************************************************)
(* probe_under_assumptions.                                                 *)
(***************************************************************************)
EndProbe(n, result) ==
    /\ trail' = Cancelled(trail, n)
    /\ Return(result)
    /\ base' = 0 /\ at' = 0

\* With no level of its own open, the conflict refutes the kept prefix, which
\* is given up.
ProbePrefixConflict ==
    /\ pc = "probe" /\ conflict # <<>> /\ LevelOf(trail) = base
    /\ EndProbe(0, "refuted")
    /\ refuted' = (refuted \/ base = 0)
    /\ trail_reusable' = FALSE
    /\ conflict' = <<>>
    /\ UNCHANGED <<dbVars, visit, clientVars, analyzeVars, assumptions, query, conflict_core,
                   forced, armed, calls>>

ProbeConflict ==
    /\ pc = "probe" /\ conflict # <<>> /\ LevelOf(trail) > base
    /\ EndProbe(base, "refuted")
    /\ conflict' = <<>>
    /\ UNCHANGED <<dbVars, visit, clientVars, analyzeVars, assumptions, query, trail_reusable,
                   conflict_core, forced, armed, refuted, calls>>

Probing == pc = "probe" /\ Quiet /\ at <= Len(query)

ProbeSkip ==
    /\ Probing /\ IsTrue(trail, query[at])
    /\ at' = at + 1
    /\ UNCHANGED <<propVars, clientVars, analyzeVars, pc, assumptions, query, trail_reusable,
                   conflict_core, answer, forced, base, armed, refuted, calls>>

ProbeFalse ==
    /\ Probing /\ IsFalse(trail, query[at])
    /\ EndProbe(base, "refuted")
    /\ UNCHANGED <<dbVars, visit, conflict, clientVars, analyzeVars, assumptions, query,
                   trail_reusable, conflict_core, forced, armed, refuted, calls>>

ProbeAssume ==
    /\ Probing /\ IsUndef(trail, query[at])
    /\ trail' = Enqueued(Opened(trail), query[at], Decision)
    /\ at' = at + 1
    /\ UNCHANGED <<dbVars, visit, conflict, clientVars, analyzeVars, pc, assumptions, query,
                   trail_reusable, conflict_core, answer, forced, base, armed, refuted, calls>>

ProbeRead ==
    /\ pc = "probe" /\ Quiet /\ at > Len(query)
    /\ forced' = ToSet(trail.lits)
    /\ EndProbe(base, "forced")
    /\ UNCHANGED <<dbVars, visit, conflict, clientVars, analyzeVars, assumptions, query,
                   trail_reusable, conflict_core, armed, refuted, calls>>

--------------------------------------------------------------------------------
\* The client may also stop calling.
Rest == pc = "idle" /\ UNCHANGED vars

Call ==
    \/ \E c \in InputClauses : AddClause(c)
    \/ \E as \in AssumptionLists : AskDead(as) \/ Solve(as) \/ Probe(as)

Run ==
    \/ Propagate
    \/ RootConflict \/ Rebuild \/ EnterLoop
    \/ Conflict \/ Analyse \/ Learn \/ Continue \/ Stop
    \/ ReduceDb \/ Restart
    \/ AlreadyTrue \/ Clash \/ TraceClash \/ Trace \/ EndTrace
    \/ Assume \/ FoundModel
    \/ \E l \in DecisionLits : Branch(l)
    \/ ProbePrefixConflict \/ ProbeConflict
    \/ ProbeSkip \/ ProbeFalse \/ ProbeAssume \/ ProbeRead

Next == Call \/ Run \/ Rest

Spec == Init /\ [][Next]_vars

\* A call, once made, runs: the solver is one thread that does not wait.
FairSpec == Spec /\ WF_vars(Run)

--------------------------------------------------------------------------------
\* Across trail reuse, probes, backjumps and restarts no call starts from a
\* trail on which a watcher was missed.  After a root conflict one is: the
\* cursor has passed it for good.
NothingMissedYet == ~refuted => NothingMissed

\* Whatever was kept of an earlier trail, each level above the assumptions
\* starts with the decision that opened it: restart_reuse_level indexes the
\* trail there, and an empty level is only in place for an assumption.
SearchLevelsDecide ==
    pc = "search" =>
        \A k \in (Len(assumptions) + 1)..LevelOf(trail) :
            /\ trail.lim[k] < Len(trail.lits)
            /\ LitLevel(trail, trail.lits[trail.lim[k] + 1]) = k
            /\ ReasonOf(trail, trail.lits[trail.lim[k] + 1]) = Decision

\* has_model: the standing trail is a model of every clause ever added.
HasModelIsModel ==
    answer = "sat" => {v \in Vars : IsTrue(trail, v)} \in Models(formula)

\* unsat_core: what an Unsat leaves to read blames assumptions of that solve.
CoreIsCurrent == answer = "unsat" => conflict_core \subseteq ToSet(query)

\* A deletion raises the limit that the next one waits for (max_learnts), and
\* there are finitely many clauses to learn.
DeletionsEnd == <>[][~ReduceDb]_vars

\* A solve or a probe returns, restarts or not.
CallsEnd == DeletionsEnd => (pc # "idle" ~> pc = "idle")

--------------------------------------------------------------------------------
(***************************************************************************)
(* The solver implements Cdcl.                                              *)
(***************************************************************************)
AbsTrail ==
    [i \in DOMAIN trail.lits |->
        LET l == trail.lits[i]
        IN  [lit |-> l, level |-> LitLevel(trail, l),
             reason |-> IF ReasonOf(trail, l) = Decision THEN {}
                        ELSE {l} \cup ToSet(ReasonTail(trail, l))]]

Above(s) == {l \in s : LitLevel(trail, l) > 0}

\* The literals learned so far, the marked ones of the level still to be
\* resolved, and those the walk has yet to touch.
AbsResolvent ==
    IF step = "walk"
    THEN Above(ToSet(work.learned) \cup ToSet(work.cur)
               \cup {-trail.lits[i] : i \in {k \in 1..work.idx :
                                                /\ VarOf(trail.lits[k]) \in seen
                                                /\ LitLevel(trail, trail.lits[k]) = LevelOf(trail)}})
    ELSE IF step \in {"minimize", "learn"} THEN {-work.uip} \cup ToSet(work.learned)
    ELSE {}

AbsPhase ==
    CASE pc = "idle" -> "idle"
      [] pc = "probe" -> "probe"
      [] pc = "analyze" -> "conflict"
      [] OTHER -> "search"

LongClauses(kind) == {ToSet(Body(c)) : c \in OfKind(kind)}

Abs == INSTANCE Cdcl WITH
    originals <- binaries \cup LongClauses("original"),
    learnts <- learntBins \cup LongClauses("learnt"),
    trail <- AbsTrail,
    lim <- trail.lim,
    resolvent <- AbsResolvent,
    core <- IF pc = "blame" THEN {} ELSE conflict_core,
    phase <- AbsPhase

Implements == Abs!Spec
================================================================================
