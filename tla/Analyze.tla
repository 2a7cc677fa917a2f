---------------------------------- MODULE Analyze ----------------------------------
(***************************************************************************)
(* Conflict analysis (analyze, lit_redundant, analyze_final in solver.rs):  *)
(* the first unique implication point, the minimization of the learned      *)
(* clause, and the assumptions an assumption clash is blamed on.  Each is   *)
(* taken a literal at a time, in the order of the code's loops.             *)
(***************************************************************************)
EXTENDS Propagation

CONSTANTS
    LEVEL_BITS,  \* the width of the level abstraction, 64 in the code
    CORE_ON      \* whether an assumption clash is traced to its causes

ASSUME AnalyzeAssumption == LEVEL_BITS \in Nat \ {0} /\ CORE_ON \in BOOLEAN

VARIABLES
    step,     \* what analysis does: "none", "walk", "minimize", "learn", "blame"
    seen,     \* the variables marked
    toclear,  \* the marks to reset at the end
    work      \* the state of the walk and of minimization

\* cur: the literals of a clause still to look at; idx: the trail positions
\* not walked yet; paths: how many marked literals of the level are left; uip:
\* the UIP, or the literal that is blamed; learned: the literals of lower
\* levels; kept and rest: those minimization has kept and has still to test;
\* testing, stack, marks: the literal under test, the literals whose reasons
\* are to be read, and the marks made for it.
NoWork ==
    [cur |-> <<>>, idx |-> 0, paths |-> 0, uip |-> 0, learned |-> <<>>,
     kept |-> <<>>, rest |-> <<>>, testing |-> 0, stack |-> <<>>, marks |-> {}]

WorkType ==
    [cur : Seq(Lits), idx : Nat, paths : Int, uip : Lits \cup {0}, learned : Seq(Lits),
     kept : Seq(Lits), rest : Seq(Lits), testing : Lits \cup {0}, stack : Seq(Lits),
     marks : SUBSET Vars]

analyzeVars == <<step, seen, toclear, work>>

AnalyzeTypeOK ==
    /\ step \in {"none", "walk", "minimize", "learn", "blame"}
    /\ seen \subseteq Vars /\ toclear \subseteq Vars
    /\ work \in WorkType

AnalyzeInit == step = "none" /\ seen = {} /\ toclear = {} /\ work = NoWork

BeginAnalyze ==
    /\ step' = "walk"
    /\ toclear' = {}
    /\ work' = [NoWork EXCEPT !.cur = conflict, !.idx = Len(trail.lits)]
    /\ UNCHANGED seen

--------------------------------------------------------------------------------
Unmarked(q) == VarOf(q) \notin seen /\ LitLevel(trail, q) > 0

Mark(q) ==
    /\ seen' = seen \cup {VarOf(q)}
    /\ toclear' = toclear \cup {VarOf(q)}

\* A bug OfLevel must not have: literals of lower levels are counted too.
OfAnyLevel(q) == TRUE

OfLevel(q) == LitLevel(trail, q) >= LevelOf(trail)

\* analyze_touch on the next literal: a root literal or a marked one is
\* skipped, one of the level is counted, and another is learned.
Touch ==
    /\ step = "walk" /\ work.cur # <<>>
    /\ \E q \in {Head(work.cur)} :
          \/ /\ ~Unmarked(q)
             /\ work' = [work EXCEPT !.cur = Tail(@)]
             /\ UNCHANGED <<seen, toclear>>
          \/ /\ Unmarked(q) /\ OfLevel(q)
             /\ Mark(q)
             /\ work' = [work EXCEPT !.cur = Tail(@), !.paths = @ + 1]
          \/ /\ Unmarked(q) /\ ~OfLevel(q)
             /\ Mark(q)
             /\ work' = [work EXCEPT !.cur = Tail(@), !.learned = Append(@, q)]
    /\ UNCHANGED step

\* The marked trail positions the walk has not passed.
Ahead == {i \in 1..work.idx : VarOf(trail.lits[i]) \in seen}

\* The walk goes down to the next marked literal; it is the UIP if no other
\* marked literal of the level is left, and is resolved with its reason
\* otherwise.
Walk ==
    /\ step = "walk" /\ work.cur = <<>> /\ Ahead # {}
    /\ \E i \in {Max(Ahead)} : \E p \in {trail.lits[i]} :
          /\ seen' = seen \ {VarOf(p)}
          /\ \/ /\ work.paths - 1 <= 0
                /\ step' = "minimize"
                /\ work' = [work EXCEPT !.idx = i - 1, !.paths = @ - 1, !.uip = p,
                                        !.rest = work.learned]
             \/ /\ work.paths - 1 > 0 /\ ReasonOf(trail, p) # Decision
                /\ work' = [work EXCEPT !.idx = i - 1, !.paths = @ - 1,
                                        !.cur = ReasonTail(trail, p)]
                /\ UNCHANGED step
    /\ UNCHANGED toclear

--------------------------------------------------------------------------------
\* abstract_levels: the levels of the learned clause, modulo the mask width.
MaybeLearnedLevel(n) ==
    \E l \in ToSet(work.learned) : LitLevel(trail, l) % LEVEL_BITS = n % LEVEL_BITS

AtNext == step = "minimize" /\ work.testing = 0 /\ work.rest # <<>>

KeepDecision ==
    /\ AtNext
    /\ ReasonOf(trail, Head(work.rest)) = Decision
    /\ work' = [work EXCEPT !.kept = Append(@, Head(work.rest)), !.rest = Tail(@)]
    /\ UNCHANGED <<step, seen, toclear>>

StartTest ==
    /\ AtNext
    /\ ReasonOf(trail, Head(work.rest)) # Decision
    /\ work' = [work EXCEPT !.testing = Head(work.rest), !.stack = <<Head(work.rest)>>,
                            !.marks = {}]
    /\ UNCHANGED <<step, seen, toclear>>

RollBack == toclear' = toclear \ work.marks /\ seen' = seen \ work.marks

Testing == step = "minimize" /\ work.testing # 0

\* lit_redundant takes an entry of its stack.
ReadReason ==
    /\ Testing /\ work.cur = <<>> /\ work.stack # <<>>
    /\ work' = [work EXCEPT !.stack = Front(@), !.cur = ReasonTail(trail, Last(work.stack))]
    /\ UNCHANGED <<step, seen, toclear>>

\* A literal of its reason: an unmarked one is marked and stacked, or cannot
\* be explained, and then the marks of this test are rolled back.
Explain ==
    /\ Testing /\ work.cur # <<>>
    /\ \E q \in {Head(work.cur)} :
          \E explained \in {ReasonOf(trail, q) # Decision /\ MaybeLearnedLevel(LitLevel(trail, q))} :
             \/ /\ ~Unmarked(q)
                /\ work' = [work EXCEPT !.cur = Tail(@)]
                /\ UNCHANGED <<seen, toclear>>
             \/ /\ Unmarked(q) /\ explained
                /\ Mark(q)
                /\ work' = [work EXCEPT !.cur = Tail(@), !.stack = Append(@, q),
                                        !.marks = @ \cup {VarOf(q)}]
             \/ /\ Unmarked(q) /\ ~explained
                /\ RollBack
                /\ work' = [work EXCEPT !.testing = 0, !.stack = <<>>, !.cur = <<>>,
                                        !.rest = Tail(@), !.kept = Append(@, work.testing)]
    /\ UNCHANGED step

DropRedundant ==
    /\ Testing /\ work.cur = <<>> /\ work.stack = <<>>
    /\ work' = [work EXCEPT !.testing = 0, !.rest = Tail(@)]
    /\ UNCHANGED <<step, seen, toclear>>

EndMinimize ==
    /\ step = "minimize" /\ work.testing = 0 /\ work.rest = <<>>
    /\ step' = "learn"
    /\ seen' = seen \ toclear
    /\ toclear' = {}
    /\ UNCHANGED work

analyze ==
    \/ Touch \/ Walk
    \/ KeepDecision \/ StartTest \/ ReadReason \/ Explain \/ DropRedundant \/ EndMinimize

\* A bug LearnedClause must not have: any literal is second.
LearnedInOrder == <<-work.uip>> \o work.kept

\* The clause returned: the negated UIP, then a literal of the deepest level.
LearnedClause ==
    LET s == <<-work.uip>> \o work.kept
        deepest == Max({LitLevel(trail, l) : l \in ToSet(work.kept)})
    IN  IF work.kept = <<>> THEN s
        ELSE Swapped(s, 2, Min({i \in 2..Len(s) : LitLevel(trail, s[i]) = deepest}))

\* compute_lbd
Lbd(s) == Cardinality({LitLevel(trail, l) : l \in ToSet(s)})

--------------------------------------------------------------------------------
\* analyze_final, p the negation of the assumption that clashed: the trail is
\* walked down to the first decision level and the decisions reached are the
\* core.
BeginBlame(p) ==
    /\ step' = "blame"
    /\ seen' = seen \cup {VarOf(p)}
    /\ work' = [NoWork EXCEPT !.idx = Len(trail.lits), !.uip = p]
    /\ UNCHANGED toclear

\* A bug Causes must not have: reasons are not followed.
CausesNone(x) == {}

\* The variables above the root that x was propagated from.
Causes(x) ==
    IF ReasonOf(trail, x) = Decision THEN {}
    ELSE {VarOf(q) : q \in {k \in ToSet(ReasonTail(trail, x)) : LitLevel(trail, k) > 0}}

Blaming == step = "blame" /\ work.idx > trail.lim[1]

\* One position of the trail; the decisions among the marked ones are blamed.
Blame ==
    /\ Blaming
    /\ \E x \in {trail.lits[work.idx]} :
          seen' = IF VarOf(x) \in seen THEN (seen \cup Causes(x)) \ {VarOf(x)} ELSE seen
    /\ work' = [work EXCEPT !.idx = @ - 1]
    /\ UNCHANGED <<step, toclear>>

Blamed ==
    LET x == trail.lits[work.idx]
    IN  IF VarOf(x) \in seen /\ ReasonOf(trail, x) = Decision THEN {x} ELSE {}

EndBlame ==
    /\ step = "blame" /\ work.idx <= trail.lim[1]
    /\ step' = "none" /\ work' = NoWork
    /\ seen' = seen \ {VarOf(work.uip)}
    /\ UNCHANGED toclear

--------------------------------------------------------------------------------
\* The walk always arrives at a UIP: it neither runs off the trail nor past a
\* decision (analyze panics in both cases).
UipExists ==
    (step = "walk" /\ work.cur = <<>>) =>
        /\ Ahead # {}
        /\ work.paths <= 1 \/ ReasonOf(trail, trail.lits[Max(Ahead)]) # Decision

\* The learned clause is false under the trail, its first literal is the
\* only one of the current level, and its second sits at the backjump level:
\* after the backjump it is unit.
LearnedIsAsserting ==
    step = "learn" =>
        LET s == LearnedClause
        IN  /\ \A l \in ToSet(s) : IsFalse(trail, l) /\ LitLevel(trail, l) > 0
            /\ \A i \in DOMAIN s : LitLevel(trail, s[i]) = LevelOf(trail) <=> i = 1
            /\ \A i \in 2..Len(s) : LitLevel(trail, s[i]) <= LitLevel(trail, s[2])

\* Each conflict teaches something: no stored clause is contained in the
\* learned one.  Search ends because of it, and it fails as soon as
\* propagation misses a unit at a level the trail keeps.
LearnedIsNew ==
    step = "learn" => \A c \in StoredClauses : ~(c \subseteq ToSet(LearnedClause))

\* Every analysis, also one that rolled marks back, leaves all marks clear
\* for the next: a stale mark would drop a literal from a later clause.
MarksCleared == step \in {"none", "learn"} => seen = {} /\ toclear = {}
================================================================================
