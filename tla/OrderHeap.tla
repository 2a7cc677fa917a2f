------------------------------- MODULE OrderHeap -------------------------------
(***************************************************************************)
(* The order heap of the decision heuristic (solver.rs: OrderHeap, and the   *)
(* places that change activities, decision flags and values).  An entry      *)
(* carries a copy of its variable's activity.  Sifting holds one entry out   *)
(* of the heap and moves the hole a level at a time.                         *)
(***************************************************************************)
EXTENDS Integers, Sequences

CONSTANTS
    Vars,
    Optional,   \* those the preprocessor may switch off and on
    MaxAct      \* bound: from here on activities are rescaled

ASSUME HeapAssumption == Optional \subseteq Vars /\ MaxAct \in Nat

VARIABLES
    heap,       \* the entries, the root first
    pos,        \* of each variable its place in the heap, 0 without one
    activity,
    decision,   \* the variables that may be decided
    assigned,   \* the variables with a value
    free,       \* purged, or not made yet
    sift,       \* the entry that is held out, and where the hole is
    picking,    \* pick_branch_lit, or the peek of a restart, is popping
    recycled    \* an entry lost its activity and kept its place

heapVars == <<heap, pos, sift>>
searchVars == <<decision, assigned, free, picking>>
vars == <<heapVars, searchVars, activity, recycled>>

Entry == [act : Nat, var : Vars]
Nowhere == [dir |-> "none", at |-> 0, entry |-> 0]

TypeOK ==
    /\ heap \in Seq(Entry)
    /\ pos \in [Vars -> Nat]
    /\ activity \in [Vars -> Nat]
    /\ decision \subseteq Vars /\ assigned \subseteq Vars /\ free \subseteq Vars
    /\ sift = Nowhere \/ sift \in [dir : {"up", "down"}, at : DOMAIN heap, entry : Entry]
    /\ picking \in {"no", "pick", "peek"}
    /\ recycled \in BOOLEAN

--------------------------------------------------------------------------------
Still == sift = Nowhere
Contains(v) == pos[v] # 0
Holding(dir, i, e) == [dir |-> dir, at |-> i, entry |-> e]

\* insert, up to its sift; a variable that is in the heap stays where it is.
Inserted(v, act) ==
    IF Contains(v) THEN UNCHANGED heapVars
    ELSE /\ heap' = Append(heap, [act |-> act[v], var |-> v])
         /\ pos' = [pos EXCEPT ![v] = Len(heap) + 1]
         /\ sift' = Holding("up", Len(heap) + 1, [act |-> act[v], var |-> v])

\* decrease, on an increased activity.
Raised(v, h, act) ==
    IF Contains(v)
    THEN /\ heap' = [h EXCEPT ![pos[v]].act = act[v]]
         /\ sift' = Holding("up", pos[v], [act |-> act[v], var |-> v])
    ELSE heap' = h /\ sift' = Nowhere

\* A bug Refreshed must not have: the copies are left as they were.
RefreshedNone(act) == heap

\* refresh_all
Refreshed(act) == [i \in DOMAIN heap |-> [heap[i] EXCEPT !.act = act[heap[i].var]]]

\* The hole moves to i, and the entry that was there to where the hole was.
\* A bug Moved must not have: the entry that moves does not learn its place.
MovedUnseen(i) ==
    /\ heap' = [heap EXCEPT ![sift.at] = heap[i]]
    /\ sift' = Holding(sift.dir, i, sift.entry)
    /\ pos' = pos

Moved(i) ==
    /\ heap' = [heap EXCEPT ![sift.at] = heap[i]]
    /\ sift' = Holding(sift.dir, i, sift.entry)
    /\ pos' = [pos EXCEPT ![heap[i].var] = sift.at]

Settled ==
    /\ heap' = [heap EXCEPT ![sift.at] = sift.entry]
    /\ pos' = [pos EXCEPT ![sift.entry.var] = sift.at]
    /\ sift' = Nowhere

Parent(i) == i \div 2

\* A bug Child must not have: the right child is never looked at.
ChildLeft(i) == 2 * i

\* The child with the greater activity, the left one when they are equal.
Child(i) ==
    IF 2 * i + 1 <= Len(heap) /\ heap[2 * i + 1].act > heap[2 * i].act THEN 2 * i + 1 ELSE 2 * i

SiftUp ==
    /\ sift.dir = "up"
    /\ IF sift.at > 1 /\ heap[Parent(sift.at)].act < sift.entry.act
       THEN Moved(Parent(sift.at)) ELSE Settled
    /\ UNCHANGED <<searchVars, activity, recycled>>

SiftDown ==
    /\ sift.dir = "down"
    /\ IF 2 * sift.at <= Len(heap) /\ heap[Child(sift.at)].act > sift.entry.act
       THEN Moved(Child(sift.at)) ELSE Settled
    /\ UNCHANGED <<searchVars, activity, recycled>>

--------------------------------------------------------------------------------

\* pop, up to its sift: the last entry is held over the root.
Popped ==
    LET last == heap[Len(heap)]
        rest == SubSeq(heap, 1, Len(heap) - 1)
    IN  IF Len(heap) = 1
        THEN heap' = <<>> /\ pos' = [pos EXCEPT ![heap[1].var] = 0] /\ sift' = Nowhere
        ELSE /\ heap' = [rest EXCEPT ![1] = last]
             /\ pos' = [pos EXCEPT ![heap[1].var] = 0, ![last.var] = 1]
             /\ sift' = Holding("down", 1, last)

Eligible(v) == v \in decision /\ v \notin assigned

Quiet == Still /\ picking = "no"

\* pick_branch_lit pops until it finds a variable to decide, and decides it.
Start(what) ==
    /\ Quiet
    /\ picking' = what
    /\ UNCHANGED <<heapVars, decision, assigned, free, activity, recycled>>

Pick ==
    /\ Still /\ picking = "pick" /\ heap # <<>>
    /\ Popped
    /\ IF Eligible(heap[1].var)
       THEN assigned' = assigned \cup {heap[1].var} /\ picking' = "no"
       ELSE assigned' = assigned /\ picking' = "pick"
    /\ UNCHANGED <<decision, free, activity, recycled>>

\* restart_reuse_level only drops what cannot be decided.
PeekStale ==
    /\ Still /\ picking = "peek" /\ heap # <<>> /\ ~Eligible(heap[1].var)
    /\ Popped
    /\ UNCHANGED <<searchVars, activity, recycled>>

PeekDone ==
    /\ Still
    /\ \/ picking = "peek" /\ heap # <<>> /\ Eligible(heap[1].var)
       \/ heap = <<>> /\ picking # "no"
    /\ picking' = "no"
    /\ UNCHANGED <<heapVars, decision, assigned, free, activity, recycled>>

--------------------------------------------------------------------------------
\* Propagation gives a value and leaves the heap alone.
Assign(v) ==
    /\ Quiet /\ v \notin assigned \cup free
    /\ assigned' = assigned \cup {v}
    /\ UNCHANGED <<heapVars, decision, free, picking, activity, recycled>>

\* A bug Unassign must not have: a variable that was popped does not come back.
UnassignOnly(v) ==
    /\ Quiet /\ v \in assigned
    /\ assigned' = assigned \ {v}
    /\ UNCHANGED <<heapVars, decision, free, picking, activity, recycled>>

\* cancel_until, one variable of it.
Unassign(v) ==
    /\ Quiet /\ v \in assigned
    /\ assigned' = assigned \ {v}
    /\ IF v \in decision THEN Inserted(v, activity) ELSE UNCHANGED heapVars
    /\ UNCHANGED <<decision, free, picking, activity, recycled>>

Rescaled(act) == [v \in Vars |-> act[v] \div (MaxAct + 1)]

\* bump_var_activity, with the rescale it may cause.
Bump(v) ==
    LET act == [activity EXCEPT ![v] = @ + 1]
        big == act[v] > MaxAct
        new == IF big THEN Rescaled(act) ELSE act
    IN  /\ Quiet /\ v \notin free
        /\ activity' = new
        /\ Raised(v, IF big THEN Refreshed(new) ELSE heap, new)
        /\ UNCHANGED <<pos, searchVars, recycled>>

\* set_decision_var
SetDecision(v, on) ==
    /\ Quiet /\ v \notin free
    /\ decision' = IF on THEN decision \cup {v} ELSE decision \ {v}
    /\ IF on /\ v \notin assigned THEN Inserted(v, activity) ELSE UNCHANGED heapVars
    /\ UNCHANGED <<assigned, free, picking, activity, recycled>>

\* purge_vars, after it has cancelled the trail: the heap keeps its entries.
Purge(v) ==
    /\ Quiet /\ v \notin assigned \cup free
    /\ decision' = decision \ {v} /\ free' = free \cup {v}
    /\ UNCHANGED <<heapVars, assigned, picking, activity, recycled>>

\* new_var: an entry that is still in the heap keeps its place.
NewVar(v) ==
    LET act == [activity EXCEPT ![v] = 0]
    IN  /\ Quiet /\ v \in free
        /\ free' = free \ {v} /\ decision' = decision \cup {v}
        /\ activity' = act
        /\ IF Contains(v)
           THEN heap' = [heap EXCEPT ![pos[v]].act = 0] /\ UNCHANGED <<pos, sift>>
           ELSE Inserted(v, act)
        /\ recycled' = (recycled \/ Contains(v))
        /\ UNCHANGED <<assigned, picking>>

--------------------------------------------------------------------------------
Init ==
    /\ heap = <<>> /\ pos = [v \in Vars |-> 0] /\ sift = Nowhere
    /\ activity = [v \in Vars |-> 0]
    /\ decision = {} /\ assigned = {} /\ free = Vars
    /\ picking = "no" /\ recycled = FALSE

Next ==
    \/ SiftUp \/ SiftDown
    \/ Start("pick") \/ Start("peek") \/ Pick \/ PeekStale \/ PeekDone
    \/ \E v \in Vars : Assign(v) \/ Unassign(v) \/ Bump(v) \/ NewVar(v)
    \/ \E v \in Optional : Purge(v) \/ SetDecision(v, TRUE) \/ SetDecision(v, FALSE)

Spec == Init /\ [][Next]_vars

--------------------------------------------------------------------------------
\* The entry at place i, the one that is held out included.
EntryAt(i) == IF sift.dir # "none" /\ i = sift.at THEN sift.entry ELSE heap[i]

\* Heap and index agree and no variable is in the heap twice, also while an entry
\* is held out: the unchecked accesses of the sifts stay in bounds, and contains
\* never hides a variable that is not there (OrderHeap).
HeapIndexed ==
    /\ \A i, j \in DOMAIN heap : EntryAt(i).var = EntryAt(j).var => i = j
    /\ \A i \in DOMAIN heap :
          (sift.dir # "none" /\ i = sift.at) \/ pos[EntryAt(i).var] = i
    /\ \A v \in Vars : Contains(v) <=> \E i \in DOMAIN heap : EntryAt(i).var = v

\* A variable that can be decided is in the heap: an empty heap means a model, as
\* pick_branch_lit's caller takes it (cancel_until, set_decision_var, new_var).
UndecidedQueued == \A v \in Vars : Eligible(v) => Contains(v)

\* The copies in the heap are the activities, also after a rescale.
CopiesExact == \A i \in DOMAIN heap : EntryAt(i).act = activity[EntryAt(i).var]

\* What is decided is a variable of the greatest activity, as long as no entry
\* was recycled in its place (pop, sift_up, sift_down).
PickedIsMax ==
    [][(Pick /\ ~recycled) =>
          \A v \in assigned' \ assigned : \A u \in Vars : Eligible(u) => activity[u] <= activity[v]]_vars
================================================================================
