-------------------------------- MODULE Inprocess --------------------------------
(***************************************************************************)
(* What the solver does to its clauses at a restart that reached the root   *)
(* (solver.rs): it vivifies learned clauses (vivify_pass) and injects       *)
(* implied clauses a client has banked (inject_hot_augments), evicting      *)
(* others.  The next decision follows at once.                              *)
(***************************************************************************)
EXTENDS Solver

CONSTANTS
    Bank,          \* the clauses a client may bank, of two literals or more
    AugMax,        \* the capacity of the working set of injected clauses
    AUG_RECYCLE,   \* whether an evicted clause returns to the bank
    VIV_MAX_LBD    \* learned clauses above it are not vivified

ASSUME InprocessAssumption ==
    /\ \A c \in Bank : c \subseteq Lits /\ Cardinality(c) >= 2
    /\ AugMax \in Nat /\ VIV_MAX_LBD \in Nat
    /\ AUG_RECYCLE \in BOOLEAN

VARIABLES
    bank,       \* banked clauses not in the formula
    source,     \* for an injected clause what was banked
    vivified,   \* learned clauses that were probed
    viv         \* the clause being probed, and how far it is

inprocVars == <<bank, source, vivified, viv>>
allVars == <<vars, inprocVars>>

NoViv == [cref |-> 0, next |-> 0, kept |-> <<>>, dropped |-> FALSE]

InprocTypeOK ==
    /\ PropTypeOK /\ AnalyzeTypeOK
    /\ bank \subseteq Bank
    /\ DOMAIN source = OfKind("augment") /\ \A c \in DOMAIN source : source[c] \in Bank
    /\ vivified \subseteq Learnts
    /\ viv.cref \in Crefs \cup {0} /\ ToSet(viv.kept) \subseteq Lits
    /\ pc \in {"vivify", "unit"} => LevelOf(trail) = Len(viv.kept)

InprocInit == Init /\ bank = {} /\ source = <<>> /\ vivified = {} /\ viv = NoViv

\* A slot that reduce_db freed may hold another clause later.
Stays ==
    /\ vivified' = {c \in vivified : arena'[c].lits # <<>>}
    /\ UNCHANGED <<bank, source, viv>>

Consequences == {c \in Bank : Entails(formula, c)}

\* bank_implied_clause: the caller owes the implication.
BankClause(c) ==
    /\ MayCall /\ c \notin bank
    /\ c \notin {source[k] : k \in DOMAIN source}
    /\ c \in Consequences
    /\ bank' = bank \cup {c}
    /\ UNCHANGED <<vars, source, vivified, viv>>

ClearBank ==
    /\ MayCall /\ bank # {}
    /\ bank' = {}
    /\ UNCHANGED <<vars, source, vivified, viv>>

AtRoot == pc = "boundary" /\ LevelOf(trail) = 0

--------------------------------------------------------------------------------
(***************************************************************************)
(* Vivification.                                                            *)
(***************************************************************************)

\* detach_long, vivify_detach: its watchers go, its slot is free.
Detached(ws, c) == [l \in Lits |-> SelectSeq(ws[l], LAMBDA w : w.cref # c)]

Freed(c) == [arena EXCEPT ![c].lits = <<>>]

VivStart ==
    /\ AtRoot /\ Quiet
    /\ \E c \in Learnts \ vivified :
          /\ arena[c].lbd <= VIV_MAX_LBD /\ ~locked(c)
          /\ vivified' = vivified \cup {c}
          /\ viv' = [NoViv EXCEPT !.cref = c, !.next = 1]
    /\ pc' = "vivify"
    /\ UNCHANGED <<propVars, clientVars, analyzeVars, callVars, bank, source>>

\* The clause that is probed never propagates.
Ignored(w) == w.cref = viv.cref

\* One watcher seen by vivify_propagate: the state is the trail so far and
\* whether a conflict was met.  The watch lists are only read.
Seen(l, s, w) ==
    LET lits == IF Binary(w) THEN <<w.blocker>> ELSE Body(w.cref)
        open == SelectSeq(lits, LAMBDA q : IsUndef(s.trail, q))
        reason == IF Binary(w) THEN ByBinary(l) ELSE ByClause(w.cref)
    IN  IF s.refuted \/ Ignored(w) \/ IsTrue(s.trail, w.blocker)
           \/ (\E q \in ToSet(lits) : IsTrue(s.trail, q)) \/ Len(open) >= 2
        THEN s
        ELSE IF open = <<>> THEN [s EXCEPT !.refuted = TRUE]
        ELSE [s EXCEPT !.trail = Enqueued(@, open[1], reason)]

\* The watchers of the next trail literal.
Swept ==
    LET l == -trail.lits[trail.qhead + 1]
    IN  FoldLeft(LAMBDA s, w : Seen(l, s, w),
                 [trail |-> [trail EXCEPT !.qhead = @ + 1], refuted |-> FALSE], watches[l])

Probed == pc = "vivify" /\ viv.next > 0
VivQuiet == trail.qhead = Len(trail.lits)
VivLit == Body(viv.cref)[viv.next]

VivPropagate ==
    /\ Probed /\ ~VivQuiet /\ ~Swept.refuted
    /\ trail' = Swept.trail
    /\ UNCHANGED <<dbVars, visit, conflict, clientVars, analyzeVars, pc, callVars, inprocVars>>

VivDecide ==
    /\ Probed /\ VivQuiet /\ viv.next <= Len(Body(viv.cref))
    /\ IsUndef(trail, VivLit)
    /\ trail' = Enqueued(Opened(trail), -VivLit, Decision)
    /\ viv' = [viv EXCEPT !.next = @ + 1, !.kept = Append(@, VivLit)]
    /\ UNCHANGED <<dbVars, visit, conflict, clientVars, analyzeVars, pc, callVars, bank, source,
                   vivified>>

VivDrop ==
    /\ Probed /\ VivQuiet /\ viv.next <= Len(Body(viv.cref))
    /\ IsFalse(trail, VivLit)
    /\ viv' = [viv EXCEPT !.next = @ + 1, !.dropped = TRUE]
    /\ UNCHANGED <<vars, bank, source, vivified>>

\* A bug VivEnd must not have: the last decision of the probe stays.
VivEndShort(stage) ==
    /\ trail' = Cancelled(trail, IF LevelOf(trail) > 0 THEN 1 ELSE 0)
    /\ pc' = stage
    /\ viv' = NoViv
    /\ UNCHANGED <<visit, conflict, clientVars, analyzeVars, callVars, bank, source>>

\* Back to the restart, with the probed clause kept or removed.
VivEnd(stage) ==
    /\ trail' = Cancelled(trail, 0)
    /\ pc' = stage
    /\ viv' = NoViv
    /\ UNCHANGED <<visit, conflict, clientVars, analyzeVars, callVars, bank, source>>

\* A literal is true: the rest of the formula implies the clause.
VivImplied ==
    /\ Probed /\ VivQuiet /\ viv.next <= Len(Body(viv.cref))
    /\ IsTrue(trail, VivLit)
    /\ arena' = Freed(viv.cref)
    /\ watches' = Detached(watches, viv.cref)
    /\ vivified' = vivified \ {viv.cref}
    /\ UNCHANGED <<binaries, learntBins>>
    /\ VivEnd("boundary")

VivConflict == Probed /\ ~VivQuiet /\ Swept.refuted
VivExhausted == Probed /\ VivQuiet /\ viv.next > Len(Body(viv.cref))

\* A bug Kept must not have: a decision is recorded after its propagation.
KeptLate == IF VivConflict /\ Len(viv.kept) > 1 THEN Front(viv.kept) ELSE viv.kept

\* The literals decided so far, the one that led to a conflict included.
Kept == viv.kept

\* There is a shorter clause: a literal was dropped, or a conflict came early.
Shorter ==
    /\ VivConflict \/ (VivExhausted /\ viv.dropped)
    /\ Len(Kept) < Len(Body(viv.cref))

VivKept ==
    /\ (VivConflict \/ VivExhausted) /\ ~Shorter
    /\ UNCHANGED <<dbVars, vivified>>
    /\ VivEnd("boundary")

VivUnit ==
    /\ Shorter /\ Len(Kept) = 1
    /\ arena' = Freed(viv.cref)
    /\ watches' = Detached(watches, viv.cref)
    /\ vivified' = vivified \ {viv.cref}
    /\ trail' = Enqueued(Cancelled(trail, 0), Kept[1], Decision)
    /\ pc' = "unit"
    /\ viv' = NoViv
    /\ UNCHANGED <<binaries, learntBins, visit, conflict, clientVars, analyzeVars, callVars, bank,
                   source>>

\* The clause is replaced by a binary one, or by a learned one in its place.
VivReplaced ==
    LET s == Kept
        ws == Detached(watches, viv.cref)
        c == IF Len(s) = 2 THEN 0 ELSE viv.cref
    IN  /\ Shorter /\ Len(s) >= 2
        /\ arena' = IF Len(s) = 2 THEN Freed(viv.cref)
                    ELSE [arena EXCEPT ![viv.cref].lits = s,
                                       ![viv.cref].lbd = Min({@, Len(s)})]
        /\ watches' = [ws EXCEPT ![s[1]] = Append(@, Watcher(c, s[2])),
                                 ![s[2]] = Append(@, Watcher(c, s[1]))]
        /\ learntBins' = IF Len(s) = 2 THEN learntBins \cup {ToSet(s)} ELSE learntBins
        /\ vivified' = IF Len(s) = 2 THEN vivified \ {viv.cref} ELSE vivified
        /\ UNCHANGED binaries
        /\ VivEnd("boundary")

\* A unit is propagated for good; a conflict refutes the formula.
UnitPropagate ==
    /\ pc = "unit" /\ propagate
    /\ UNCHANGED <<analyzeVars, pc, callVars, inprocVars>>

UnitDone ==
    /\ pc = "unit" /\ Quiet
    /\ pc' = "boundary"
    /\ UNCHANGED <<propVars, clientVars, analyzeVars, callVars, inprocVars>>

UnitRefuted ==
    /\ pc = "unit" /\ conflict # <<>>
    /\ dead' = TRUE
    /\ conflict' = <<>>
    /\ Return("unsat")
    /\ UNCHANGED <<trail, dbVars, visit, formula, analyzeVars, assumptions, query, trail_reusable,
                   conflict_core, forced, base, at, armed, refuted, calls, inprocVars>>

--------------------------------------------------------------------------------
(***************************************************************************)
(* Injection.                                                               *)
(***************************************************************************)
\* The working set is full: one that is no reason goes.
Evict ==
    /\ AtRoot /\ Cardinality(OfKind("augment")) >= AugMax
    /\ \E c \in OfKind("augment") :
          /\ ~locked(c)
          /\ arena' = Freed(c)
          /\ watches' = Detached(watches, c)
          /\ source' = [k \in DOMAIN source \ {c} |-> source[k]]
          /\ bank' = IF AUG_RECYCLE THEN bank \cup {source[c]} ELSE bank
    /\ UNCHANGED <<trail, binaries, learntBins, visit, conflict, clientVars, analyzeVars, pc,
                   callVars, vivified, viv>>

Inject(c) ==
    /\ AtRoot /\ c \in bank
    /\ Cardinality(OfKind("augment")) < AugMax
    /\ bank' = bank \ {c}

\* A bug Falsified must not have: one false literal falsifies the clause.
FalsifiedSome(c) == \E l \in c : IsFalse(trail, l)

Falsified(c) == Filtered(c) = <<>>

\* inject_at_root takes the clause as add_clause does, by root facts alone.
InjectNothing(c) ==
    /\ Inject(c) /\ Satisfied(c)
    /\ UNCHANGED <<vars, source, vivified, viv>>

InjectEmpty(c) ==
    /\ Inject(c) /\ ~Satisfied(c) /\ Falsified(c)
    /\ dead' = TRUE
    /\ Return("unsat")
    /\ UNCHANGED <<propVars, formula, analyzeVars, assumptions, query, trail_reusable,
                   conflict_core, forced, base, at, armed, refuted, calls, source, vivified, viv>>

\* A unit is enqueued, and propagated only after the next decision.
InjectUnit(c) ==
    /\ Inject(c) /\ ~Satisfied(c) /\ Len(Filtered(c)) = 1
    /\ trail' = Enqueued(trail, Filtered(c)[1], Decision)
    /\ UNCHANGED <<dbVars, visit, conflict, clientVars, analyzeVars, pc, callVars, source,
                   vivified, viv>>

InjectClause(c) ==
    LET s == Filtered(c)
    IN  /\ Inject(c) /\ ~Satisfied(c) /\ Len(s) >= 2
        /\ Attach(s, "augment", Len(s))
        /\ source' = IF Len(s) = 2 THEN source ELSE (FreeSlot :> c) @@ source
        /\ UNCHANGED <<trail, visit, conflict, clientVars, analyzeVars, pc, callVars, vivified, viv>>

--------------------------------------------------------------------------------
Vivify ==
    \/ VivStart \/ VivPropagate \/ VivDecide \/ VivDrop \/ VivImplied
    \/ VivKept \/ VivUnit \/ VivReplaced
    \/ UnitPropagate \/ UnitDone \/ UnitRefuted

Augment ==
    \/ Evict
    \/ \E c \in Bank :
          InjectNothing(c) \/ InjectEmpty(c) \/ InjectUnit(c) \/ InjectClause(c)

InprocNext ==
    \/ Next /\ Stays
    \/ ClearBank \/ \E c \in Bank : BankClause(c)
    \/ Vivify \/ Augment

InprocSpec == InprocInit /\ [][InprocNext]_allVars

--------------------------------------------------------------------------------
\* Every clause the solver holds, vivified, injected or learned, follows from
\* the clauses it was given.
StoredFollow ==
    LET models == Models(formula)
    IN  \A c \in StoredClauses : \A M \in models : Satisfies(M, c)

\* An Unsat, also one found while vivifying or injecting, is a proof.
UnsatIsRight ==
    /\ dead => Models(formula) = {}
    /\ answer = "unsat" => Refuted(formula, ToSet(query))

\* Probing leaves no trace of its decisions: outside of it the levels below the
\* assumptions are those of the search, and no watcher was missed.
ProbesLeaveNothing ==
    /\ pc = "boundary" =>
          /\ NothingMissed
          /\ trail.qhead = Len(trail.lits) \/ LevelOf(trail) = 0
          /\ LevelOf(trail) = 0 => \A l \in ToSet(trail.lits) : Entails(formula, {l})
    /\ pc # "vivify" => viv = NoViv
================================================================================
