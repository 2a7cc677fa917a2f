---------------------------------- MODULE Trail ----------------------------------
(***************************************************************************)
(* The assignment of the SAT solver (solver.rs): the trail, its decision    *)
(* levels, the level and reason of each assigned variable and the           *)
(* propagation cursor.  The operators take a trail and return a trail, so   *)
(* that one handler can cancel and then enqueue.                            *)
(***************************************************************************)
EXTENDS Cnf, SequencesExt

\* enum Reason.  Both fields 0: a decision, or a root fact.
Decision == [cref |-> 0, other |-> 0]
ByClause(c) == [cref |-> c, other |-> 0]
ByBinary(l) == [cref |-> 0, other |-> l]

Reasons == [cref : Nat, other : Lits \cup {0}]

\* What cancel_until leaves of an unassigned variable.
Unassigned == [level |-> -1, reason |-> Decision]

EmptyTrail == [lits |-> <<>>, lim |-> <<>>, info |-> [v \in Vars |-> Unassigned], qhead |-> 0]

TrailType ==
    [lits : Seq(Lits), lim : Seq(Nat),
     info : [Vars -> [level : Nat \cup {-1}, reason : Reasons]], qhead : Nat]

LevelOf(t) == Len(t.lim)

IsTrue(t, l) == Contains(t.lits, l)
IsFalse(t, l) == Contains(t.lits, -l)
IsUndef(t, l) == ~IsTrue(t, l) /\ ~IsFalse(t, l)

LitLevel(t, l) == t.info[VarOf(l)].level

ReasonOf(t, l) == t.info[VarOf(l)].reason

\* value_fixed: only facts of level 0 count.
FixedTrue(t, l) == IsTrue(t, l) /\ LitLevel(t, l) = 0
FixedFalse(t, l) == FixedTrue(t, -l)

\* enqueue of an unassigned literal at the current level.
Enqueued(t, l, r) ==
    [t EXCEPT !.lits = Append(@, l),
              !.info = [@ EXCEPT ![VarOf(l)] = [level |-> LevelOf(t), reason |-> r]]]

\* A new decision level.
Opened(t) == [t EXCEPT !.lim = Append(@, Len(t.lits))]

\* The propagation cursor when the trail is cut.
Cursor(t, cut) == Min({t.qhead, cut})

Cancelled(t, n) ==
    IF LevelOf(t) <= n THEN t
    ELSE LET cut == t.lim[n + 1]
             gone == {VarOf(t.lits[i]) : i \in (cut + 1)..Len(t.lits)}
         IN  [lits |-> SubSeq(t.lits, 1, cut),
              lim |-> SubSeq(t.lim, 1, n),
              info |-> [v \in Vars |-> IF v \in gone THEN Unassigned ELSE t.info[v]],
              qhead |-> Cursor(t, cut)]

\* The deepest level at which a literal of s is false, 0 if none is.
DeepestFalse(t, s) == Max({0} \cup {LitLevel(t, l) : l \in {k \in ToSet(s) : IsFalse(t, k)}})

\* The order of the packed literals 2v and 2v+1, by which clauses are sorted.
Precedes(l, k) ==
    \/ VarOf(l) < VarOf(k)
    \/ VarOf(l) = VarOf(k) /\ l > k

\* The literals of c in that order.
Sorted(c) ==
    CHOOSE s \in SetToSeqs(c) : \A i, j \in DOMAIN s : i < j => Precedes(s[i], s[j])

Swapped(s, i, j) == [s EXCEPT ![i] = s[j], ![j] = s[i]]
================================================================================
