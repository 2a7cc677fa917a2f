------------------------------ MODULE ClauseMemory ------------------------------
(***************************************************************************)
(* The memory of the clauses (clause.rs) and everything that holds a        *)
(* reference into it (solver.rs): watch lists, the learned clauses, the     *)
(* augmentation working set, the reasons on the trail.  Clauses are packed  *)
(* as words into one sequence, a reference is the offset of a header;       *)
(* garbage collection moves every clause, retirement (purge_vars) deletes   *)
(* the clauses of dead variables and new_var hands their ids out again.     *)
(* What propagation and conflict analysis decide is left open here.         *)
(***************************************************************************)
EXTENDS Integers, SequencesExt

CONSTANTS
    Vars,          \* positive integers; v and -v are the literals
    Bodies,        \* the long clauses that may be added
    LearntBodies,  \* the long clauses that may be learned or injected
    Retirable,     \* the sets of variables that may be purged together
    Pairs,         \* the binary clauses that may be added
    DecisionLits, RootLits,   \* what may be decided, and be a unit clause
    MaxWords,      \* bound: the words of the arena
    HALF,          \* 2^16: the range of the LBD and of the saved position
    MarkAssigned   \* whether the client retires variables assigned at the root

VARIABLES
    clauses,    \* the arena: its words and the count of wasted ones
    learnts, aug_live,   \* sequences of references
    watches,    \* for each literal a sequence of long watchers (references)
    binaries,   \* the binary clauses, each a set of two literals
    trail, trail_lim, value, reason,
    free_vars   \* ids to be recycled

vars == <<clauses, learnts, aug_live, watches, binaries, trail, trail_lim, value, reason,
          free_vars>>

Lits == Vars \cup {-v : v \in Vars}
VarOf(l) == IF l > 0 THEN l ELSE -l
ValueOf(l) == IF l > 0 THEN value[l] ELSE -value[-l]   \* 1, -1, or 0 for Undef

NoRef == -1

--------------------------------------------------------------------------------
(***************************************************************************)
(* The arena.  A header is four words: flags; saved position and LBD packed *)
(* into one word, which during a collection is the forwarding reference;    *)
(* activity; length.                                                        *)
(***************************************************************************)
HDR == 4

Empty == [data |-> <<>>, wasted |-> 0]

alloc(a, body, flags, word) ==
    [a EXCEPT !.data = @ \o <<flags, word, 0, Len(body)>> \o body]

Flags(a, c) == a.data[c + 1]
len(a, c) == a.data[c + 4]
lits(a, c) == SubSeq(a.data, c + HDR + 1, c + HDR + len(a, c))
lbd(a, c) == a.data[c + 2] % HALF
search_pos(a, c) == a.data[c + 2] \div HALF

Least(m, n) == IF m < n THEN m ELSE n

set_search_pos(a, c, pos) ==
    [a EXCEPT !.data[c + 2] = lbd(a, c) + Least(pos, HALF - 1) * HALF]

\* The offsets of the headers, in arena order.
Headers(a) ==
    LET Walk[pos \in 0..Len(a.data)] ==
            IF pos + HDR > Len(a.data) THEN <<>>
            ELSE <<pos>> \o Walk[pos + HDR + len(a, pos)]
    IN  Walk[0]

mark_deleted(a, c) ==
    IF "deleted" \in Flags(a, c) THEN a
    ELSE [data |-> [a.data EXCEPT ![c + 1] = @ \cup {"deleted"}],
          wasted |-> a.wasted + HDR + len(a, c)]

MarkAll(a, refs) == FoldLeft(mark_deleted, a, refs)

Live(a) == {c \in ToSet(Headers(a)) : "deleted" \notin Flags(a, c)}

--------------------------------------------------------------------------------
(***************************************************************************)
(* Garbage collection: g holds the old arena and the new one.  A clause     *)
(* already copied has its new reference in place of LBD and position.       *)
(***************************************************************************)
Copied(g, c) == "reloc" \in Flags(g.from, c)

\* A bug reloc must not have: the copy is made after the reference is left in
\* place of LBD and position.
RelocLate(g, c) ==
    IF Copied(g, c) THEN g
    ELSE [from |-> [g.from EXCEPT !.data[c + 1] = @ \cup {"reloc"},
                                  !.data[c + 2] = Len(g.to.data)],
          to |-> alloc(g.to, lits(g.from, c), Flags(g.from, c), Len(g.to.data))]

\* An offset that is no header is left alone here; the code would read
\* whatever words are there.
reloc(g, c) ==
    IF c \notin ToSet(Headers(g.from)) \/ Copied(g, c) THEN g
    ELSE [from |-> [g.from EXCEPT !.data[c + 1] = @ \cup {"reloc"},
                                  !.data[c + 2] = Len(g.to.data)],
          to |-> alloc(g.to, lits(g.from, c), Flags(g.from, c), g.from.data[c + 2])]

Forward(g, c) ==
    IF c \in ToSet(Headers(g.from)) /\ Copied(g, c) THEN g.from.data[c + 2] ELSE NoRef

RelocAll(g, refs) == FoldLeft(reloc, g, refs)

Originals(a) == SelectSeq(Headers(a), LAMBDA c : Flags(a, c) = {})

Remap(g, refs) == [i \in DOMAIN refs |-> Forward(g, refs[i])]

\* The reasons are remapped by a walk over the trail.
RemapReasons(g, rs, tr) ==
    FoldLeft(LAMBDA acc, l :
                LET c == acc.rs[VarOf(l)]
                    h == reloc(acc.g, c)
                IN  IF c = NoRef THEN acc
                    ELSE [g |-> h, rs |-> [acc.rs EXCEPT ![VarOf(l)] = Forward(h, c)]],
             [g |-> g, rs |-> rs], tr)

\* The learned clauses move in the order of learnts, then the working set.
Movable(ls, as) == ls \o as

\* garbage_collect, given the arena, lists and reasons left by its caller.
Collect(a, ls, as, ws, rs, tr) ==
    LET g0 == RelocAll([from |-> a, to |-> Empty], Originals(a) \o Movable(ls, as))
        g1 == FoldSet(LAMBDA l, g : RelocAll(g, ws[l]), g0, Lits)
        end == RemapReasons(g1, rs, tr)
    IN  /\ clauses' = end.g.to
        /\ learnts' = Remap(g0, ls)
        /\ aug_live' = Remap(g0, as)
        /\ watches' = [l \in Lits |-> Remap(g1, ws[l])]
        /\ reason' = end.rs

\* The collection is made when a fifth of the arena is dead.
MayCollect(a, ls, as, ws, rs, tr) ==
    IF a.wasted * 5 > Len(a.data)
    THEN Collect(a, ls, as, ws, rs, tr)
    ELSE /\ clauses' = a /\ learnts' = ls /\ aug_live' = as
         /\ watches' = ws /\ reason' = rs

--------------------------------------------------------------------------------
Init ==
    /\ clauses = Empty
    /\ learnts = <<>> /\ aug_live = <<>>
    /\ watches = [l \in Lits |-> <<>>]
    /\ binaries = {}
    /\ trail = <<>> /\ trail_lim = <<>>
    /\ value = [v \in Vars |-> 0]
    /\ reason = [v \in Vars |-> NoRef]
    /\ free_vars = <<>>

Watched(c, body) ==
    [l \in Lits |-> IF l \in {body[1], body[2]} THEN Append(watches[l], c) ELSE watches[l]]

\* A body may name only variables that are in use.
InUse(body) == \A l \in ToSet(body) : VarOf(l) \notin ToSet(free_vars)

\* Bound: a body is in the arena once.
New(body) == \A c \in Live(clauses) : ToSet(lits(clauses, c)) # ToSet(body)

Fits(body) == New(body) /\ Len(clauses.data) + HDR + Len(body) <= MaxWords

\* add_clause for three literals or more; propagation is not modelled, so the
\* clause is added at the root with its first literals unassigned.
AddClause(body) ==
    /\ trail_lim = <<>> /\ InUse(body) /\ Fits(body)
    /\ \A i \in {1, 2} : ValueOf(body[i]) = 0
    /\ clauses' = alloc(clauses, body, {}, 0)
    /\ watches' = Watched(Len(clauses.data), body)
    /\ UNCHANGED <<learnts, aug_live, binaries, trail, trail_lim, value, reason, free_vars>>

AddBinary(a, b) ==
    /\ trail_lim = <<>> /\ VarOf(a) # VarOf(b) /\ InUse(<<a, b>>)
    /\ ValueOf(a) = 0 /\ ValueOf(b) = 0 /\ binaries = {}
    /\ binaries' = {{a, b}}
    /\ UNCHANGED <<clauses, learnts, aug_live, watches, trail, trail_lim, value, reason, free_vars>>

Learn(body, n) ==
    /\ InUse(body) /\ Fits(body)
    /\ \A i \in {1, 2} : ValueOf(body[i]) = 0
    /\ clauses' = alloc(clauses, body, {"learned"}, Least(n, HALF - 1))
    /\ learnts' = Append(learnts, Len(clauses.data))
    /\ watches' = Watched(Len(clauses.data), body)
    /\ UNCHANGED <<aug_live, binaries, trail, trail_lim, value, reason, free_vars>>

\* inject_at_root: learned, but in the working set and not in learnts.
Inject(body) ==
    /\ trail_lim = <<>> /\ InUse(body) /\ Fits(body)
    /\ \A l \in ToSet(body) : ValueOf(l) = 0
    /\ clauses' = alloc(clauses, body, {"learned"}, Least(Len(body), HALF - 1))
    /\ aug_live' = Append(aug_live, Len(clauses.data))
    /\ watches' = Watched(Len(clauses.data), body)
    /\ UNCHANGED <<learnts, binaries, trail, trail_lim, value, reason, free_vars>>

\* propagate keeps its place in the clause's body, and moves its second watch.
Rewatch(c) ==
    \E k \in 3..len(clauses, c) :
        LET body == lits(clauses, c)
            old == body[2]
            new == body[k]
            swapped == [clauses EXCEPT !.data[c + HDR + 2] = new, !.data[c + HDR + k] = old]
        IN  /\ ValueOf(old) = -1 /\ ValueOf(new) # -1
            /\ clauses' = set_search_pos(swapped, c, k - 1)
            /\ watches' = [watches EXCEPT ![old] = SelectSeq(@, LAMBDA d : d # c),
                                          ![new] = Append(@, c)]
            /\ UNCHANGED <<learnts, aug_live, binaries, trail, trail_lim, value, reason, free_vars>>

Assigned(l, r) ==
    /\ trail' = Append(trail, l)
    /\ value' = [value EXCEPT ![VarOf(l)] = IF l > 0 THEN 1 ELSE -1]
    /\ reason' = [reason EXCEPT ![VarOf(l)] = r]

Imply(c) ==
    LET body == lits(clauses, c)
    IN  /\ ValueOf(body[1]) = 0
        /\ \A k \in 2..Len(body) : ValueOf(body[k]) = -1
        /\ Assigned(body[1], c)
        /\ UNCHANGED <<clauses, learnts, aug_live, watches, binaries, trail_lim, free_vars>>

Decide(l) ==
    /\ ValueOf(l) = 0 /\ InUse(<<l>>)
    /\ trail_lim' = Append(trail_lim, Len(trail))
    /\ Assigned(l, NoRef)
    /\ UNCHANGED <<clauses, learnts, aug_live, watches, binaries, free_vars>>

\* A unit clause.
RootUnit(l) ==
    /\ trail_lim = <<>> /\ ValueOf(l) = 0 /\ InUse(<<l>>)
    /\ Assigned(l, NoRef)
    /\ UNCHANGED <<clauses, learnts, aug_live, watches, binaries, trail_lim, free_vars>>

\* cancel_until(0): the root entries that remain, and the values they leave.
RootTrail == IF trail_lim = <<>> THEN trail ELSE SubSeq(trail, 1, trail_lim[1])
RootValue ==
    [v \in Vars |-> IF \E i \in DOMAIN trail : i > Len(RootTrail) /\ VarOf(trail[i]) = v
                    THEN 0 ELSE value[v]]

Backtrack ==
    /\ trail_lim # <<>>
    /\ trail' = RootTrail /\ trail_lim' = <<>> /\ value' = RootValue
    /\ UNCHANGED <<clauses, learnts, aug_live, watches, binaries, reason, free_vars>>

\* A bug locked must not have: nothing is locked.
NeverLocked(c) == FALSE

locked(c) ==
    LET first == clauses.data[c + HDR + 1]
    IN  ValueOf(first) = 1 /\ reason[VarOf(first)] = c

Without(ws, a) ==
    [l \in Lits |-> SelectSeq(ws[l], LAMBDA c : "deleted" \notin Flags(a, c))]

Better(c, d) == lbd(clauses, c) <= lbd(clauses, d)

\* reduce_db at some order by LBD: the worse half goes, but for glue and reasons.
ReduceDb ==
    \E order \in SetToSeqs(ToSet(learnts)) :
        LET n == Len(order)
            keep == SelectSeq(SubSeq(order, n \div 2 + 1, n),
                              LAMBDA c : lbd(clauses, c) <= 2 \/ locked(c))
            ls == SubSeq(order, 1, n \div 2) \o keep
            gone == SelectSeq(order, LAMBDA c : c \notin ToSet(ls))
            a == MarkAll(clauses, gone)
        IN  /\ \A i \in 1..(n - 1) : Better(order[i], order[i + 1])
            /\ gone # <<>>
            /\ MayCollect(a, ls, aug_live, Without(watches, a), reason, trail)
            /\ UNCHANGED <<binaries, trail, trail_lim, value, free_vars>>

\* detach_long: its two watched literals are the first two of its body.
Detached(c) ==
    [l \in Lits |-> IF l \in {clauses.data[c + HDR + 1], clauses.data[c + HDR + 2]}
                    THEN SelectSeq(watches[l], LAMBDA d : d # c) ELSE watches[l]]

\* The eviction of one injected clause, at a restart.
Evict(c) ==
    /\ trail_lim = <<>> /\ ~locked(c)
    /\ clauses' = mark_deleted(clauses, c)
    /\ aug_live' = SelectSeq(aug_live, LAMBDA d : d # c)
    /\ watches' = Detached(c)
    /\ UNCHANGED <<learnts, binaries, trail, trail_lim, value, reason, free_vars>>

\* Root facts whose reason was deleted keep their value and lose the reason.
Unbound(rs, a) ==
    FoldLeft(LAMBDA r, l : IF r[VarOf(l)] # NoRef /\ "deleted" \in Flags(a, r[VarOf(l)])
                           THEN [r EXCEPT ![VarOf(l)] = NoRef] ELSE r,
             rs, RootTrail)

Touches(body, marked) == \E l \in ToSet(body) : VarOf(l) \in marked

\* purge_vars: the trail is cancelled; every clause of a marked variable goes.
Purge(marked) ==
    LET dead == SelectSeq(Headers(clauses), LAMBDA c :
                    /\ \E l \in Lits : c \in ToSet(watches[l])
                    /\ "deleted" \notin Flags(clauses, c)
                    /\ Touches(lits(clauses, c), marked))
        a == MarkAll(clauses, dead)
        alive(refs) == SelectSeq(refs, LAMBDA c : "deleted" \notin Flags(a, c))
    IN  /\ marked \cap ToSet(free_vars) = {}
        /\ MarkAssigned \/ \A v \in marked : RootValue[v] = 0
        /\ trail' = RootTrail /\ trail_lim' = <<>> /\ value' = RootValue
        /\ binaries' = {b \in binaries : \A l \in b : VarOf(l) \notin marked}
        /\ free_vars' = free_vars \o SetToSortSeq(marked, <)
        /\ MayCollect(a, alive(learnts), alive(aug_live), Without(watches, a), Unbound(reason, a), RootTrail)

\* new_var takes a purged id first and resets what it finds there.
Recycle ==
    /\ free_vars # <<>>
    /\ free_vars' = Front(free_vars)
    /\ value' = [value EXCEPT ![Last(free_vars)] = 0]
    /\ reason' = [reason EXCEPT ![Last(free_vars)] = NoRef]
    /\ UNCHANGED <<clauses, learnts, aug_live, watches, binaries, trail, trail_lim>>

Next ==
    \/ \E body \in Bodies : AddClause(body)
    \/ \E body \in LearntBodies : Inject(body) \/ \E n \in {2, 3} : Learn(body, n)
    \/ \E p \in Pairs : AddBinary(p[1], p[2])
    \/ \E c \in Live(clauses) : Rewatch(c) \/ Imply(c)
    \/ \E l \in DecisionLits : Decide(l)
    \/ \E l \in RootLits : RootUnit(l)
    \/ Backtrack \/ ReduceDb \/ Recycle
    \/ \E c \in ToSet(aug_live) : Evict(c)
    \/ \E marked \in Retirable : Purge(marked)

Spec == Init /\ [][Next]_vars

--------------------------------------------------------------------------------
AllHeld == learnts \o aug_live
Refs(l) == ToSet(watches[l])

\* What the holder of a reference reads.
Read(a, c) == [lits |-> lits(a, c), lbd |-> lbd(a, c), pos |-> search_pos(a, c)]
ReadAll(a, refs) == [i \in DOMAIN refs |-> Read(a, refs[i])]

\* The state is a possible one.
TypeOK ==
    /\ clauses.wasted \in 0..MaxWords /\ Len(clauses.data) <= MaxWords
    /\ ToSet(learnts) \subseteq Nat /\ ToSet(aug_live) \subseteq Nat
    /\ \A l \in Lits : Refs(l) \subseteq Nat
    /\ ToSet(trail) \subseteq Lits /\ ToSet(free_vars) \subseteq Vars
    /\ value \in [Vars -> {-1, 0, 1}] /\ reason \in [Vars -> Nat \cup {NoRef}]

\* Every reference that is kept in a list names a clause that is in the arena
\* and not deleted: reduce_db, purge_vars, evictions and collections leave no
\* list behind.
RefsLive ==
    /\ ToSet(AllHeld) \subseteq Live(clauses)
    /\ \A l \in Lits : Refs(l) \subseteq Live(clauses)

\* The reason of an assigned variable is a clause in the arena whose first
\* literal it made true: deletion spares locked clauses, purge_vars unbinds
\* root facts, and a collection remaps what is on the trail, once.
ReasonsLive ==
    \A l \in ToSet(trail) :
        ValueOf(l) = 1 /\ reason[VarOf(l)] # NoRef =>
            /\ reason[VarOf(l)] \in Live(clauses)
            /\ lits(clauses, reason[VarOf(l)])[1] = l

\* Every clause is watched once in the lists of its first two literals and
\* nowhere else, and a deleted one nowhere, whatever was moved or recycled since.
WatchedTwice ==
    \A c \in ToSet(Headers(clauses)), l \in Lits :
        Cardinality({i \in DOMAIN watches[l] : watches[l][i] = c})
            = IF c \in Live(clauses) /\ l \in ToSet(SubSeq(lits(clauses, c), 1, 2))
              THEN 1 ELSE 0

\* A collection changes no clause as its holders see it: the watchers of each
\* literal keep their order, and clause bodies, LBD and saved positions stay.
CollectionIsMute ==
    [][Len(clauses'.data) < Len(clauses.data) =>
        /\ \A l \in Lits :
              LET kept == {Read(clauses', c) : c \in ToSet(watches'[l])}
              IN  ReadAll(clauses', watches'[l])
                    = SelectSeq(ReadAll(clauses, watches[l]), LAMBDA x : x \in kept)
        /\ {Read(clauses', c) : c \in ToSet(AllHeld')}
              \subseteq {Read(clauses, c) : c \in ToSet(AllHeld)}
        /\ \A l \in ToSet(trail') :
              reason'[VarOf(l)] # NoRef =>
                  Read(clauses', reason'[VarOf(l)]) = Read(clauses, reason[VarOf(l)])]_vars

\* What new_var says of an id it recycles: no clause, no watcher, unassigned.
RecycledIsClean ==
    \A v \in ToSet(free_vars) :
        /\ value[v] = 0
        /\ watches[v] = <<>> /\ watches[-v] = <<>>
        /\ \A c \in Live(clauses) : ~Touches(lits(clauses, c), {v})
        /\ \A b \in binaries : \A l \in b : VarOf(l) # v
================================================================================
