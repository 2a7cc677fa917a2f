------------------------------- MODULE WatchMemory -------------------------------
(***************************************************************************)
(* The watch arena (WatchArena, solver.rs): the watch lists of all literals *)
(* in one buffer.  List l lies in the region of caps[l] slots that starts   *)
(* after offs[l] slots and uses the first lens[l] of them.  A full list     *)
(* moves to the end of the buffer; now and then the buffer is rebuilt.      *)
(* propagate compacts one list in place while it pushes to others.          *)
(***************************************************************************)
EXTENDS Integers, SequencesExt

CONSTANTS
    Watchers,   \* the watchers, distinct ones
    EMPTY,      \* what a slot holds before its first use
    SLOTS,      \* the capacity a list starts with: 4 in the code
    MaxLits,    \* bound: the literals
    MaxSlots    \* bound: the slots of the buffer

VARIABLES
    data, offs, lens, caps, wasted,
    dead,   \* the watchers of deleted clauses
    scan    \* the traversal in progress: read slots i kept j of list lit; or lit = 0

vars == <<data, offs, lens, caps, wasted, dead, scan>>

Literals == DOMAIN offs
NoScan == [lit |-> 0, i |-> 0, j |-> 0]
Slots(n) == [k \in 1..n |-> EMPTY]
Region(l) == (offs[l] + 1)..(offs[l] + caps[l])
List(l) == SubSeq(data, offs[l] + 1, offs[l] + lens[l])

Init ==
    /\ data = <<>> /\ offs = <<>> /\ lens = <<>> /\ caps = <<>> /\ wasted = 0
    /\ dead = {} /\ scan = NoScan

add_literal ==
    /\ scan = NoScan /\ Len(offs) < MaxLits
    /\ data' = data \o Slots(SLOTS)
    /\ offs' = Append(offs, Len(data))
    /\ lens' = Append(lens, 0)
    /\ caps' = Append(caps, SLOTS)
    /\ UNCHANGED <<wasted, dead, scan>>

\* The buffer after list l was copied to its end, with twice the capacity.
Grown(l) == data \o List(l) \o Slots(2 * caps[l] - lens[l])

\* push, which may grow the list first.
Pushed(l, w) ==
    IF lens[l] = caps[l]
    THEN /\ data' = [Grown(l) EXCEPT ![Len(data) + lens[l] + 1] = w]
         /\ offs' = [offs EXCEPT ![l] = Len(data)]
         /\ caps' = [caps EXCEPT ![l] = 2 * @]
         /\ wasted' = wasted + caps[l]
         /\ Len(data) + 2 * caps[l] <= MaxSlots
    ELSE /\ data' = [data EXCEPT ![offs[l] + lens[l] + 1] = w]
         /\ UNCHANGED <<offs, caps, wasted>>

Listed(w) == \E l \in Literals : w \in ToSet(List(l))

push(l, w) ==
    /\ scan = NoScan /\ ~Listed(w) /\ w \notin dead
    /\ Pushed(l, w)
    /\ lens' = [lens EXCEPT ![l] = @ + 1]
    /\ UNCHANGED <<dead, scan>>

\* A clause is marked deleted in the clause arena.
Delete(w) ==
    /\ scan = NoScan /\ Listed(w)
    /\ dead' = dead \cup {w}
    /\ UNCHANGED <<data, offs, lens, caps, wasted, scan>>

\* retain with the filter of its callers.
retain(l) ==
    LET kept == SelectSeq(List(l), LAMBDA w : w \notin dead)
    IN  /\ scan = NoScan
        /\ data' = [k \in DOMAIN data |->
                      IF k \in Region(l) /\ k - offs[l] <= Len(kept)
                      THEN kept[k - offs[l]] ELSE data[k]]
        /\ lens' = [lens EXCEPT ![l] = Len(kept)]
        /\ UNCHANGED <<offs, caps, wasted, dead, scan>>

\* The capacity a rebuilt list gets: half as much again.
Slack(n) == IF n + n \div 2 < SLOTS THEN SLOTS ELSE n + n \div 2

maybe_defrag ==
    /\ scan = NoScan /\ wasted * 4 > Len(data)
    /\ data' = FlattenSeq([l \in Literals |-> List(l) \o Slots(Slack(lens[l]) - lens[l])])
    /\ offs' = [l \in Literals |->
                  FoldLeft(LAMBDA n, k : n + Slack(lens[k]), 0, [k \in 1..(l - 1) |-> k])]
    /\ caps' = [l \in Literals |-> Slack(lens[l])]
    /\ wasted' = 0
    /\ UNCHANGED <<lens, dead, scan>>

--------------------------------------------------------------------------------
(***************************************************************************)
(* The traversal of propagate.                                              *)
(***************************************************************************)
Begin(l) ==
    /\ scan = NoScan
    /\ scan' = [lit |-> l, i |-> 0, j |-> 0]
    /\ UNCHANGED <<data, offs, lens, caps, wasted, dead>>

Unread == scan.lit # 0 /\ scan.i < lens[scan.lit]
HeadW == data[offs[scan.lit] + scan.i + 1]

Keep ==
    /\ Unread
    /\ data' = [data EXCEPT ![offs[scan.lit] + scan.j + 1] = HeadW]
    /\ scan' = [scan EXCEPT !.i = @ + 1, !.j = @ + 1]
    /\ UNCHANGED <<offs, lens, caps, wasted, dead>>

\* The watcher found another literal to watch.
Migrate(k) ==
    /\ Unread /\ k # scan.lit
    /\ Pushed(k, HeadW)
    /\ lens' = [lens EXCEPT ![k] = @ + 1]
    /\ scan' = [scan EXCEPT !.i = @ + 1]
    /\ UNCHANGED dead

\* A bug End must not have: the unread watchers are dropped.
EndShort ==
    /\ scan.lit # 0
    /\ lens' = [lens EXCEPT ![scan.lit] = scan.j]
    /\ scan' = NoScan
    /\ UNCHANGED <<data, offs, caps, wasted, dead>>

\* The end of the list, or a conflict: the unread watchers move down.
End ==
    LET l == scan.lit
        tail == SubSeq(List(l), scan.i + 1, lens[l])
    IN  /\ l # 0
        /\ data' = [k \in DOMAIN data |->
                      IF k \in (offs[l] + scan.j + 1)..(offs[l] + scan.j + Len(tail))
                      THEN tail[k - offs[l] - scan.j] ELSE data[k]]
        /\ lens' = [lens EXCEPT ![l] = scan.j + Len(tail)]
        /\ scan' = NoScan
        /\ UNCHANGED <<offs, caps, wasted, dead>>

Next ==
    \/ add_literal \/ maybe_defrag \/ Keep \/ End
    \/ \E l \in Literals : Begin(l) \/ Migrate(l) \/ retain(l)
    \/ \E l \in Literals, w \in Watchers : push(l, w)
    \/ \E w \in Watchers : Delete(w)

Spec == Init /\ [][Next]_vars

--------------------------------------------------------------------------------
\* The state is a possible one.
TypeOK ==
    /\ data \in Seq(Watchers \cup {EMPTY}) /\ Len(data) <= MaxSlots + MaxLits * SLOTS
    /\ \A l \in Literals : lens[l] <= caps[l] /\ caps[l] >= SLOTS
    /\ scan.lit \in Literals \cup {0} /\ scan.j <= scan.i

\* A list during its traversal: what was kept, then what is unread.
Seen(l) ==
    IF l = scan.lit THEN SubSeq(List(l), 1, scan.j) \o SubSeq(List(l), scan.i + 1, lens[l])
    ELSE List(l)

Lists == INSTANCE WatchLists WITH lists <- [l \in Literals |-> Seen(l)]

\* The buffer behaves as one sequence for each literal: no operation reorders,
\* loses or doubles a watcher of any list, also while a list is compacted and
\* pushes make others move.
Implements == Lists!Spec
================================================================================
