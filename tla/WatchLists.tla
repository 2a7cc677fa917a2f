------------------------------- MODULE WatchLists -------------------------------
(***************************************************************************)
(* What the watch arena (WatchArena, solver.rs) promises its users: one     *)
(* sequence of watchers for each literal, as the nested vectors it replaced *)
(* kept them, in the order they were pushed.                                *)
(***************************************************************************)
EXTENDS Integers, SequencesExt

CONSTANT Watchers

VARIABLES
    lists,   \* lists[l] for the literals 1..Len(lists)
    dead     \* the watchers of deleted clauses

Init == lists = <<>> /\ dead = {}

Delete == \E w \in Watchers : dead' = dead \cup {w} /\ UNCHANGED lists

AddLiteral == lists' = Append(lists, <<>>) /\ UNCHANGED dead

Push ==
    \E l \in DOMAIN lists, w \in Watchers :
        lists' = [lists EXCEPT ![l] = Append(@, w)] /\ UNCHANGED dead

Retain ==
    \E l \in DOMAIN lists :
        /\ lists' = [lists EXCEPT ![l] = SelectSeq(@, LAMBDA w : w \notin dead)]
        /\ UNCHANGED dead

\* A watcher leaves its list for the end of another one.
Move ==
    \E l, k \in DOMAIN lists :
        \E i \in DOMAIN lists[l] :
            /\ l # k
            /\ lists' = [lists EXCEPT ![l] = RemoveAt(@, i), ![k] = Append(@, lists[l][i])]
            /\ UNCHANGED dead

Next == Delete \/ AddLiteral \/ Push \/ Retain \/ Move

Spec == Init /\ [][Next]_<<lists, dead>>
================================================================================
