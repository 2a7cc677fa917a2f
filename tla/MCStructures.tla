------------------------------ MODULE MCStructures ------------------------------
(***************************************************************************)
(* The containers of the solver: the order heap, the memory of the clauses  *)
(* and that of the watchers.  None calls another, so a behaviour is one of  *)
(* a single container.                                                      *)
(***************************************************************************)
EXTENDS OrderHeap, TLC

CONSTANTS v1, v2, v3, v4, v5, EMPTY

VARIABLES
    clauses, learnts, aug_live, watches, binaries, trail, trail_lim, value, reason, free_vars,
    data, offs, lens, caps, wasted, dead, scan,
    part    \* the container the behaviour is about; it never changes

clauseVars == <<clauses, learnts, aug_live, watches, binaries, trail, trail_lim, value, reason,
                free_vars>>
watchVars == <<data, offs, lens, caps, wasted, dead, scan>>

\* Five variables, so that an entry sinks two levels; one of them is switched
\* off, purged and made again.  The others are alike.
MCVars == {v1, v2, v3, v4, v5}
MCOptional == {v5}

\* Two clause bodies over three variables, and room for three clauses; the
\* saved position and the LBD saturate at 3.
C == INSTANCE ClauseMemory WITH
    Vars <- 1..3, Bodies <- {<<3, 1, 2>>}, LearntBodies <- {<<-3, 1, 2>>},
    Retirable <- {{1}, {3}}, Pairs <- {<<1, 2>>}, DecisionLits <- {-1, -2}, RootLits <- {-1},
    MaxWords <- 21, HALF <- 4, MarkAssigned <- FALSE

\* Two literals, three watchers, lists of one slot at first.
W == INSTANCE WatchMemory WITH
    Watchers <- {v1, v2, v3}, SLOTS <- 1, MaxLits <- 2, MaxSlots <- 8

MCAlike == Permutations({v1, v2, v3, v4})

MCInit == Init /\ C!Init /\ W!Init /\ part \in {"heap", "clauses", "watchers"}

MCNext ==
    \/ part = "heap" /\ Next /\ UNCHANGED <<clauseVars, watchVars, part>>
    \/ part = "clauses" /\ C!Next /\ UNCHANGED <<vars, watchVars, part>>
    \/ part = "watchers" /\ W!Next /\ UNCHANGED <<vars, clauseVars, part>>

MCSpec == MCInit /\ [][MCNext]_<<vars, clauseVars, watchVars, part>>

\* Across deletion, collection, retirement and recycling every reference that is
\* held names a live clause, reasons imply their literals, each live clause is
\* watched twice, and nothing mentions a variable that can be made again.
NothingDangles == C!RefsLive /\ C!ReasonsLive /\ C!WatchedTwice /\ C!RecycledIsClean

\* What a collection moves reads the same through its new address.
CollectionIsMute == C!CollectionIsMute

\* The shared buffer is one sequence of watchers for each literal.
WatchListsKept == W!Implements
================================================================================
