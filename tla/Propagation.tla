------------------------------- MODULE Propagation -------------------------------
(***************************************************************************)
(* The clause database, its watch lists and unit propagation (solver.rs,    *)
(* clause.rs).  propagate is taken one watcher at a time.  A clause of      *)
(* three or more literals lives in the arena and is named by its index; a   *)
(* binary clause lives only in the two watch lists that hold its partners,  *)
(* so the module keeps two sets that name the binary clauses.               *)
(***************************************************************************)
EXTENDS Trail

CONSTANTS
    InputClauses,        \* the clauses a client may add
    SEARCH_POS_MIN_LEN,  \* the length from which replacement scans resume
    DecisionLits,        \* the literals, one or both of a variable, decisions pick
    MaxSlots             \* bound: arena clauses

ASSUME PropagationAssumption ==
    /\ InputClauses \subseteq Clauses /\ DecisionLits \subseteq Lits
    /\ \A c \in InputClauses : IsFiniteSet(c)
    /\ SEARCH_POS_MIN_LEN \in Nat /\ MaxSlots \in Nat

VARIABLES
    trail,
    arena,       \* crefs to [lits, kind, lbd]; a deleted clause is empty
    watches,     \* literal to its watchers
    binaries,    \* the binary clauses added
    learntBins,  \* the binary clauses learned
    visit,       \* the watch list propagate is traversing
    conflict,    \* what propagate returned: the falsified clause, or <<>>
    formula,     \* every clause ever given to add_clause
    dead         \* add_clause found the formula unsatisfiable

dbVars == <<arena, watches, binaries, learntBins>>
propVars == <<trail, dbVars, visit, conflict>>
clientVars == <<formula, dead>>

Watcher(c, l) == [cref |-> c, blocker |-> l]
Binary(w) == w.cref = 0

NoVisit == [lit |-> 0, kept |-> <<>>, rest |-> <<>>]

Crefs == DOMAIN arena
Live(c) == arena[c].lits # <<>>
Body(c) == arena[c].lits

\* Injected clauses are learned ones that are not in learnts.
Kinds == {"original", "learnt", "augment"}

OfKind(k) == {c \in Crefs : Live(c) /\ arena[c].kind = k}
Learnts == OfKind("learnt")

Watchers == [cref : 0..MaxSlots, blocker : Lits]

PropTypeOK ==
    /\ trail \in TrailType
    /\ arena \in Seq([lits : Seq(Lits), kind : Kinds, lbd : Nat])
    /\ watches \in [Lits -> Seq(Watchers)]
    /\ binaries \subseteq Clauses /\ learntBins \subseteq Clauses
    /\ visit \in [lit : Lits \cup {0}, kept : Seq(Watchers), rest : Seq(Watchers)]
    /\ conflict \in Seq(Lits)
    /\ formula \subseteq InputClauses
    /\ dead \in BOOLEAN

PropInit ==
    /\ trail = EmptyTrail
    /\ arena = <<>>
    /\ watches = [l \in Lits |-> <<>>]
    /\ binaries = {} /\ learntBins = {}
    /\ visit = NoVisit
    /\ conflict = <<>>
    /\ formula = {}
    /\ dead = FALSE

\* propagate has nothing left to do and returned None.
Quiet == visit = NoVisit /\ conflict = <<>> /\ trail.qhead = Len(trail.lits)

\* The literals that falsify the assigned literal's negation: positions 1..
\* of a reason clause, or the partner of a binary one.
ReasonTail(t, l) ==
    LET r == ReasonOf(t, l)
    IN  IF r.cref # 0 THEN Tail(Body(r.cref)) ELSE <<r.other>>

--------------------------------------------------------------------------------
(***************************************************************************)
(* Attaching a clause: its first two literals are watched.  A deleted       *)
(* clause's slot is free again, as garbage collection renames crefs.        *)
(***************************************************************************)
FreeSlot ==
    IF \E c \in Crefs : ~Live(c) THEN Min({c \in Crefs : ~Live(c)}) ELSE Len(arena) + 1

Watched(c, s) ==
    LET a == s[1]
        b == s[2]
    IN  [watches EXCEPT ![a] = Append(@, Watcher(c, b)), ![b] = Append(@, Watcher(c, a))]

AttachBinary(s, kind) ==
    /\ watches' = Watched(0, s)
    /\ IF kind = "original"
       THEN binaries' = binaries \cup {ToSet(s)} /\ UNCHANGED learntBins
       ELSE learntBins' = learntBins \cup {ToSet(s)} /\ UNCHANGED binaries
    /\ UNCHANGED arena

AttachLong(s, kind, lbd) ==
    LET c == FreeSlot
        body == [lits |-> s, kind |-> kind, lbd |-> lbd]
    IN  /\ c <= MaxSlots
        /\ arena' = IF c \in Crefs THEN [arena EXCEPT ![c] = body] ELSE Append(arena, body)
        /\ watches' = Watched(c, s)
        /\ UNCHANGED <<binaries, learntBins>>

Attach(s, kind, lbd) ==
    IF Len(s) = 2 THEN AttachBinary(s, kind) ELSE AttachLong(s, kind, lbd)

\* The reason under which the first literal of an attached clause is
\* enqueued.
ReasonFrom(s) == IF Len(s) = 2 THEN ByBinary(s[2]) ELSE ByClause(FreeSlot)

--------------------------------------------------------------------------------
(***************************************************************************)
(* add_clause.  Root facts alone filter the clause; the standing trail is   *)
(* cut back only as far as the watches need.                                *)
(***************************************************************************)
Satisfied(c) == Tautology(c) \/ \E l \in c : FixedTrue(trail, l)

Filtered(c) == Sorted({l \in c : ~FixedFalse(trail, l)})

AddEmpty(s) ==
    /\ s = <<>>
    /\ trail' = Cancelled(trail, 0)
    /\ dead' = TRUE
    /\ UNCHANGED dbVars

AddUnit(s) ==
    /\ Len(s) = 1
    /\ trail' = Enqueued(Cancelled(trail, 0), s[1], Decision)
    /\ UNCHANGED <<dead, dbVars>>

\* A trail under which s is not falsified: the deepest false level goes.
Unfalsified(s) ==
    IF \A l \in ToSet(s) : IsFalse(trail, l)
    THEN Cancelled(trail, DeepestFalse(trail, s) - 1)
    ELSE trail

\* A bug ImpliedAt must not have: the literal is enqueued above its level.
ImpliedHere(t, s) == t

\* The trail under which the last open literal of s is implied.
ImpliedAt(t, s) == Cancelled(t, DeepestFalse(t, s))

\* The positions of s whose literals are not false.
OpenAt(t, s) == {i \in DOMAIN s : ~IsFalse(t, s[i])}

SecondWatch(t, s) ==
    Min({i \in 2..Len(s) : IsFalse(t, s[i]) /\ LitLevel(t, s[i]) = DeepestFalse(t, s)})

\* Exactly one literal of s is open.
IsUnit(t, s) == OpenAt(t, s) = {Min(OpenAt(t, s))}

\* s with an open literal in front, then another or else the deepest false one.
Arranged(t, s) ==
    LET first == Min(OpenAt(t, s))
        s1 == Swapped(s, 1, first)
        second == IF IsUnit(t, s) THEN SecondWatch(t, s1) ELSE Min(OpenAt(t, s) \ {first})
    IN  Swapped(s1, 2, second)

AddLong(s) ==
    /\ Len(s) >= 2
    /\ \E t \in {Unfalsified(s)} : \E r \in {Arranged(t, s)} :
          /\ Attach(r, "original", 0)
          /\ trail' = LET u == ImpliedAt(t, s)
                      IN  IF ~IsUnit(t, s) THEN t
                          ELSE IF IsUndef(u, r[1]) THEN Enqueued(u, r[1], ReasonFrom(r))
                          ELSE u
    /\ UNCHANGED dead

add_clause(c) ==
    /\ formula' = formula \cup {c}
    /\ IF dead \/ Satisfied(c)
       THEN UNCHANGED <<trail, dead, dbVars>>
       ELSE \E s \in {Filtered(c)} : AddEmpty(s) \/ AddUnit(s) \/ AddLong(s)
    /\ UNCHANGED <<visit, conflict>>

--------------------------------------------------------------------------------
(***************************************************************************)
(* propagate.                                                               *)
(***************************************************************************)
Busy == visit # NoVisit

\* The next trail literal: the watchers of its negation are to be visited.
Dequeue ==
    /\ ~Busy /\ conflict = <<>>
    /\ trail.qhead < Len(trail.lits)
    /\ LET p == trail.lits[trail.qhead + 1]
       IN  visit' = [lit |-> -p, kept |-> <<>>, rest |-> watches[-p]]
    /\ trail' = [trail EXCEPT !.qhead = @ + 1]
    /\ UNCHANGED <<dbVars, conflict, clientVars>>

EndVisit ==
    /\ Busy /\ visit.rest = <<>>
    /\ watches' = [watches EXCEPT ![visit.lit] = visit.kept]
    /\ visit' = NoVisit
    /\ UNCHANGED <<trail, arena, binaries, learntBins, conflict, clientVars>>

Current == Head(visit.rest)

Keep(w) == visit' = [visit EXCEPT !.kept = Append(@, w), !.rest = Tail(@)]

\* A bug Refute must not have: the entries not visited are lost.
RefuteShort(w, clause) ==
    /\ conflict' = clause
    /\ watches' = [watches EXCEPT ![visit.lit] = Append(visit.kept, w)]
    /\ visit' = NoVisit

\* A conflict ends the traversal; the entries not visited stay in the list.
Refute(w, clause) ==
    /\ conflict' = clause
    /\ watches' = [watches EXCEPT ![visit.lit] = Append(visit.kept, w) \o Tail(visit.rest)]
    /\ visit' = NoVisit

VisitBinary ==
    LET q == Current.blocker
    IN  /\ Busy /\ visit.rest # <<>> /\ Binary(Current)
        /\ IF IsFalse(trail, q)
           THEN Refute(Current, <<visit.lit, q>>) /\ UNCHANGED trail
           ELSE /\ Keep(Current)
                /\ trail' = IF IsTrue(trail, q) THEN trail
                            ELSE Enqueued(trail, q, ByBinary(visit.lit))
                /\ UNCHANGED <<watches, conflict>>
        /\ UNCHANGED <<arena, binaries, learntBins, clientVars>>

AtLong == Busy /\ visit.rest # <<>> /\ ~Binary(Current)

\* A bug VisitBlocked must not have: an open blocker is taken for a true one.
VisitOpen ==
    /\ AtLong /\ ~IsFalse(trail, Current.blocker)
    /\ Keep(Current)
    /\ UNCHANGED <<trail, dbVars, conflict, clientVars>>

VisitBlocked ==
    /\ AtLong /\ IsTrue(trail, Current.blocker)
    /\ Keep(Current)
    /\ UNCHANGED <<trail, dbVars, conflict, clientVars>>

\* The false literal is moved to the second watch position.
Oriented(c) == IF Body(c)[1] = visit.lit THEN Swapped(Body(c), 1, 2) ELSE Body(c)

\* An off-by-one of Replacements: the first candidate is never tried.
ReplacementsShort(s) == {k \in 4..Len(s) : ~IsFalse(trail, s[k])}

Replacements(s) ==
    LET free == {k \in 3..Len(s) : ~IsFalse(trail, s[k])}
    IN  IF Len(s) >= SEARCH_POS_MIN_LEN \/ free = {} THEN free ELSE {Min(free)}

\* A short clause is scanned from the front; from SEARCH_POS_MIN_LEN on, the
\* scan resumes anywhere.
VisitLong ==
    LET c == Current.cref
        s == Oriented(c)
        first == s[1]
        w == Watcher(c, first)
        Store(body) == arena' = [arena EXCEPT ![c].lits = body]
    IN  /\ AtLong /\ ~IsTrue(trail, Current.blocker)
        /\ \/ /\ IsTrue(trail, first)
              /\ Store(s) /\ Keep(w)
              /\ UNCHANGED <<trail, watches, conflict>>
           \/ /\ ~IsTrue(trail, first)
              /\ \E k \in Replacements(s) :
                    /\ Store(Swapped(s, 2, k))
                    /\ watches' = [watches EXCEPT ![s[k]] = Append(@, w)]
              /\ visit' = [visit EXCEPT !.rest = Tail(@)]
              /\ UNCHANGED <<trail, conflict>>
           \/ /\ IsUndef(trail, first) /\ Replacements(s) = {}
              /\ Store(s) /\ Keep(w)
              /\ trail' = Enqueued(trail, first, ByClause(c))
              /\ UNCHANGED <<watches, conflict>>
           \/ /\ IsFalse(trail, first) /\ Replacements(s) = {}
              /\ Store(s) /\ Refute(w, s)
              /\ UNCHANGED trail
        /\ UNCHANGED <<binaries, learntBins, clientVars>>

propagate == Dequeue \/ EndVisit \/ VisitBinary \/ VisitBlocked \/ VisitLong

--------------------------------------------------------------------------------
\* Backjump, attach the learned clause and enqueue its first literal.
Learnt(s, lbd) ==
    LET bt == IF Len(s) = 1 THEN 0 ELSE LitLevel(trail, s[2])
        reason == IF Len(s) = 1 THEN Decision ELSE ReasonFrom(s)
    IN  /\ trail' = Enqueued(Cancelled(trail, bt), s[1], reason)
        /\ IF Len(s) = 1 THEN UNCHANGED dbVars ELSE Attach(s, "learnt", lbd)

--------------------------------------------------------------------------------
\* The list of l as the traversal has left it so far.
List(l) == IF visit.lit = l THEN visit.kept \o visit.rest ELSE watches[l]

\* The clause c has one entry in the list s, or none.
Once(s, c) == \E i \in 1..Len(s) : \A j \in 1..Len(s) : s[j].cref = c <=> j = i
Never(s, c) == \A j \in 1..Len(s) : s[j].cref # c

\* The entries of s are those the list of l should hold.
Matches(l, s) ==
    /\ \A w \in ToSet(s) :
          IF Binary(w) THEN {l, w.blocker} \in binaries \cup learntBins
          ELSE w.cref \in Crefs /\ Live(w.cref) /\ w.blocker \in ToSet(Body(w.cref))
    /\ \A c \in {k \in Crefs : Live(k)} :
          IF l \in {Body(c)[1], Body(c)[2]} THEN Once(s, c) ELSE Never(s, c)
    /\ \A b \in binaries \cup learntBins :
          l \in b => \E w \in ToSet(s) : Binary(w) /\ {l, w.blocker} = b

\* A long clause is in exactly the lists of its first two literals, once
\* each, a binary clause in both of its lists, and nothing else is in a list:
\* migration, early exit from a conflict and deletion lose no watcher.
WatchListsMatch == \A l \in Lits : Matches(l, List(l))

\* The watcher w of l has been visited since l was falsified.
Visited(l, w) ==
    \E i \in 1..trail.qhead :
        /\ trail.lits[i] = -l
        /\ i = trail.qhead => conflict = <<>> /\ (visit.lit = l => ~Contains(visit.rest, w))

\* The literals one of which a visited watcher expects to be true.
Claimed(w) == IF Binary(w) THEN {w.blocker} ELSE ToSet(Body(w.cref))

\* One of c is true, and no backtracking unassigns it before -l.
Harmless(t, l, c) == \E q \in c : IsTrue(t, q) /\ LitLevel(t, q) <= LitLevel(t, l)

\* A visited watcher of a false literal is harmless.  Holds across clauses
\* added under a standing trail, backjumps and early conflict exits.
NothingMissed ==
    \A l \in Lits : \A w \in ToSet(List(l)) :
        Visited(l, w) => Harmless(trail, l, Claimed(w))

StoredClauses == binaries \cup learntBins \cup {ToSet(Body(c)) : c \in {k \in Crefs : Live(k)}}

\* propagate returned None: no stored clause is falsified and none is unit.
PropagationComplete ==
    Quiet => \A c \in StoredClauses :
        \/ \E l \in c : IsTrue(trail, l)
        \/ \E l, k \in c : l # k /\ IsUndef(trail, l) /\ IsUndef(trail, k)

\* Neither while a clause is under way nor when propagation is done is a unit or
\* a conflict overlooked.
PropagationRight == NothingMissed /\ PropagationComplete

\* An implied literal sits at the level of the deepest literal it follows
\* from, so a backjump never forgets an implication of the levels it keeps.
LevelsExact ==
    \A l \in ToSet(trail.lits) :
        ReasonOf(trail, l) # Decision =>
            LitLevel(trail, l) = Max({LitLevel(trail, q) : q \in ToSet(ReasonTail(trail, l))})

\* The reason of an assigned literal is a live clause that holds the literal
\* in position 0 and whose other literals were falsified before it, however
\* the clause's watches moved since: analyze and locked rely on it.
ReasonsOrdered ==
    \A i \in DOMAIN trail.lits :
        LET l == trail.lits[i]
            r == ReasonOf(trail, l)
        IN  r # Decision =>
              /\ r.cref # 0 => r.cref \in Crefs /\ Live(r.cref) /\ Body(r.cref)[1] = l
              /\ r.cref = 0 => {l, r.other} \in binaries \cup learntBins
              /\ \A q \in ToSet(ReasonTail(trail, l)) : \E j \in 1..(i - 1) : trail.lits[j] = -q
================================================================================
