------------------------------ MODULE AnalyzeTheorems ------------------------------
(***************************************************************************)
(* The steps of conflict analysis: what holds of the trail, the marks and   *)
(* the counters while the walk, the minimization and the tracing of a clash *)
(* are under way, and that every step keeps it.                             *)
(***************************************************************************)
EXTENDS Analyze, PropagationTheorems

(***************************************************************************)
(* The shape of a trail.                                                    *)
(***************************************************************************)
\* The decisions of a trail open their levels, and a reason is a clause or a
\* binary partner, never both.
Shaped(t) ==
    \A i \in 1..Len(t.lits) :
        /\ ReasonOf(t, t.lits[i]) = Decision /\ LitLevel(t, t.lits[i]) >= 1
              => i = t.lim[LitLevel(t, t.lits[i])] + 1
        /\ ReasonOf(t, t.lits[i]).cref = 0 \/ ReasonOf(t, t.lits[i]).other = 0

\* Level k starts with the decision that opened it.
OpensWith(t, k) ==
    /\ t.lim[k] < Len(t.lits)
    /\ LitLevel(t, t.lits[t.lim[k] + 1]) = k
    /\ ReasonOf(t, t.lits[t.lim[k] + 1]) = Decision

\* Each level above n does.
StartsDecide(t, n) == \A k \in (n + 1)..LevelOf(t) : OpensWith(t, k)

\* What is kept of the shape when t becomes u.
ShapeKept(t, u) ==
    /\ Shaped(t) => Shaped(u)
    /\ \A n \in Nat : StartsDecide(t, n) => StartsDecide(u, n)

\* A cut leaves the shape of the levels it keeps.
LEMMA CutShape ==
    ASSUME NEW t, WellFormed(t), NEW n \in Nat, NEW u, u = Cancelled(t, n)
    PROVE  /\ ShapeKept(t, u)
           /\ LevelOf(u) = IF LevelOf(t) <= n THEN LevelOf(t) ELSE n
<1>1. PICK m \in 0..Len(t.lits) : CutAt(t, u, n, m)
  BY CancelContinues
<1>2. /\ WellFormed(u) /\ Len(u.lits) = m /\ m \in Nat /\ Len(t.lits) \in Nat
      /\ LevelOf(t) \in Nat /\ LevelOf(u) \in Nat
      /\ \A i \in 1..m : u.lits[i] = t.lits[i] /\ u.info[VarOf(t.lits[i])] = t.info[VarOf(t.lits[i])]
      /\ \A i \in 1..Len(t.lits) : LitLevel(t, t.lits[i]) <= n <=> i <= m
      /\ LevelOf(u) = IF LevelOf(t) <= n THEN LevelOf(t) ELSE n
  BY <1>1, TrailParts DEF CutAt, Continues, WellFormed, LevelOf
<1>3. \A k \in 1..LevelOf(u) : u.lim[k] = t.lim[k]
  <2>1. CASE LevelOf(t) <= n
    BY <2>1 DEF Cancelled
  <2>2. CASE ~(LevelOf(t) <= n)
    <3>1. u.lim = SubSeq(t.lim, 1, n) /\ LevelOf(u) = n
      BY <2>2, <1>2 DEF Cancelled
    <3>2. t.lim \in Seq(Nat) /\ n <= Len(t.lim)
      BY <2>2, <1>2, TrailParts DEF LevelOf, WellFormed
    <3> QED
      BY <3>1, <3>2
  <2> QED
    BY <2>1, <2>2
<1>4. \A i \in 1..m : /\ LitLevel(u, u.lits[i]) = LitLevel(t, t.lits[i])
                      /\ ReasonOf(u, u.lits[i]) = ReasonOf(t, t.lits[i])
  BY <1>2 DEF LitLevel, ReasonOf
<1>5. Shaped(t) => Shaped(u)
  <2> SUFFICES ASSUME Shaped(t), NEW i \in 1..m
               PROVE  /\ ReasonOf(u, u.lits[i]) = Decision /\ LitLevel(u, u.lits[i]) >= 1
                            => i = u.lim[LitLevel(u, u.lits[i])] + 1
                      /\ ReasonOf(u, u.lits[i]).cref = 0 \/ ReasonOf(u, u.lits[i]).other = 0
    BY <1>2 DEF Shaped
  <2>1. i \in 1..Len(t.lits) /\ LitLevel(u, u.lits[i]) \in 0..LevelOf(u)
    BY <1>2 DEF WellFormed
  <2>2. LitLevel(u, u.lits[i]) >= 1 => u.lim[LitLevel(u, u.lits[i])] = t.lim[LitLevel(t, t.lits[i])]
    BY <2>1, <1>3, <1>4, <1>2
  <2> QED
    BY <2>1, <2>2, <1>4 DEF Shaped
<1>6. ASSUME NEW j \in Nat, StartsDecide(t, j)
      PROVE  StartsDecide(u, j)
  <2> SUFFICES ASSUME NEW k \in (j + 1)..LevelOf(u)
               PROVE  OpensWith(u, k)
    BY DEF StartsDecide
  <2>2. CASE LevelOf(t) <= n
    <3>1. u = t
      BY <2>2 DEF Cancelled
    <3> QED
      BY <3>1, <1>6 DEF StartsDecide
  <2>3. CASE ~(LevelOf(t) <= n)
    <3>0. k \in 1..LevelOf(u) /\ k \in (j + 1)..LevelOf(t) /\ k <= n
      BY <2>3, <1>2
    <3>1. OpensWith(t, k) /\ u.lim[k] = t.lim[k] /\ t.lim[k] \in Nat
      BY <3>0, <1>6, <1>3, <1>2, TrailParts DEF StartsDecide, LevelOf, WellFormed
    <3>2. t.lim[k] + 1 \in 1..Len(t.lits)
      BY <3>1, <1>2 DEF OpensWith
    <3>3. t.lim[k] + 1 \in 1..m
      BY <3>1, <3>2, <3>0, <1>2 DEF OpensWith
    <3>4. PICK x \in 1..m : x = t.lim[k] + 1
      BY <3>3
    <3>6. /\ LitLevel(u, u.lits[x]) = LitLevel(t, t.lits[x])
          /\ ReasonOf(u, u.lits[x]) = ReasonOf(t, t.lits[x])
      BY <1>4
    <3>7. LitLevel(t, t.lits[x]) = k /\ ReasonOf(t, t.lits[x]) = Decision
      BY <3>1, <3>4 DEF OpensWith
    <3>8. u.lim[k] < m
      BY <3>1, <3>4, <1>2
    <3>5. LitLevel(u, u.lits[x]) = k /\ ReasonOf(u, u.lits[x]) = Decision /\ u.lim[k] < m
      BY <3>6, <3>7, <3>8
    <3> QED
      BY <3>5, <3>4, <3>1, <1>2 DEF OpensWith
  <2> QED
    BY <2>2, <2>3
<1> QED
  BY <1>2, <1>5, <1>6 DEF ShapeKept

\* One more literal: with a reason, or a root fact.
LEMMA EnqueueShape ==
    ASSUME NEW t, WellFormed(t), NEW l \in Lits, IsUndef(t, l), NEW r \in Reasons,
           r.cref = 0 \/ r.other = 0, r # Decision \/ LevelOf(t) = 0,
           NEW u, u = Enqueued(t, l, r)
    PROVE  ShapeKept(t, u) /\ LevelOf(u) = LevelOf(t)
<1> PICK m \in Nat : m = Len(t.lits)
  BY TrailParts DEF WellFormed
<1>1. /\ u.lim = t.lim /\ Len(u.lits) = m + 1 /\ u.lits[m + 1] = l
      /\ \A i \in 1..m : u.lits[i] = t.lits[i]
      /\ \A v \in Vars : v # VarOf(l) => u.info[v] = t.info[v]
      /\ LitLevel(u, l) = LevelOf(t) /\ ReasonOf(u, l) = r
      /\ LevelOf(u) = LevelOf(t) /\ LevelOf(t) \in Nat
  <2>1. t \in TrailType
    BY DEF WellFormed
  <2>2. /\ u.lits = Append(t.lits, l) /\ u.lim = t.lim
        /\ Len(u.lits) = Len(t.lits) + 1 /\ u.lits[Len(t.lits) + 1] = l
        /\ \A i \in 1..Len(t.lits) : u.lits[i] = t.lits[i]
        /\ \A v \in Vars : v # VarOf(l) => u.info[v] = t.info[v]
        /\ LitLevel(u, l) = LevelOf(t) /\ ReasonOf(u, l) = r
    BY <2>1, EnqueuedFacts
  <2>3. LevelOf(u) = LevelOf(t) /\ LevelOf(t) \in Nat
    BY <2>1, <2>2, TrailParts DEF LevelOf
  <2> QED
    BY <2>2, <2>3
<1>2. \A i \in 1..m : /\ LitLevel(u, u.lits[i]) = LitLevel(t, t.lits[i])
                      /\ ReasonOf(u, u.lits[i]) = ReasonOf(t, t.lits[i])
  <2> TAKE i \in 1..m
  <2>1. t.lits[i] \in Lits /\ VarOf(t.lits[i]) \in Vars /\ VarOf(t.lits[i]) # VarOf(l)
    BY TrailParts, LitFacts, TruthFacts DEF WellFormed, IsUndef
  <2> QED
    BY <2>1, <1>1 DEF LitLevel, ReasonOf
<1>3. Shaped(t) => Shaped(u)
  <2> SUFFICES ASSUME Shaped(t), NEW i \in 1..(m + 1)
               PROVE  /\ ReasonOf(u, u.lits[i]) = Decision /\ LitLevel(u, u.lits[i]) >= 1
                            => i = u.lim[LitLevel(u, u.lits[i])] + 1
                      /\ ReasonOf(u, u.lits[i]).cref = 0 \/ ReasonOf(u, u.lits[i]).other = 0
    BY <1>1 DEF Shaped
  <2>1. CASE i = m + 1
    BY <2>1, <1>1
  <2>2. CASE i \in 1..m
    BY <2>2, <1>1, <1>2 DEF Shaped
  <2> QED
    BY <2>1, <2>2
<1>4. ASSUME NEW j \in Nat, StartsDecide(t, j), NEW k \in (j + 1)..LevelOf(u)
      PROVE  OpensWith(u, k)
  <2>1. OpensWith(t, k) /\ t.lim[k] \in Nat
    BY <1>4, <1>1, TrailParts DEF StartsDecide, LevelOf, WellFormed
  <2>2. t.lim[k] + 1 \in 1..m
    BY <2>1 DEF OpensWith
  <2> QED
    BY SMTT(60), <2>1, <2>2, <1>1, <1>2 DEF OpensWith
<1> QED
  BY <1>1, <1>3, <1>4 DEF ShapeKept, StartsDecide

\* A level that is opened for an assumption may stay empty.
LEMMA OpenShape ==
    ASSUME NEW t, WellFormed(t), Shaped(t), NEW n \in Nat, StartsDecide(t, n), LevelOf(t) < n,
           NEW u, u = Opened(t)
    PROVE  Shaped(u) /\ StartsDecide(u, n)
<1>1. /\ u.lits = t.lits /\ u.info = t.info /\ u.lim = Append(t.lim, Len(t.lits))
      /\ t.lim \in Seq(Nat) /\ LevelOf(t) \in Nat /\ Len(t.lits) \in Nat
  BY TrailParts DEF Opened, WellFormed, TrailType, LevelOf
<1>2. \A i \in 1..Len(t.lits) : /\ LitLevel(u, u.lits[i]) = LitLevel(t, t.lits[i])
                                /\ ReasonOf(u, u.lits[i]) = ReasonOf(t, t.lits[i])
                                /\ LitLevel(t, t.lits[i]) \in 0..LevelOf(t)
  BY <1>1 DEF LitLevel, ReasonOf, WellFormed
<1>3. \A k \in 1..LevelOf(t) : u.lim[k] = t.lim[k]
  BY <1>1 DEF LevelOf
<1>4. Shaped(u)
  <2> SUFFICES ASSUME NEW i \in 1..Len(t.lits)
               PROVE  /\ ReasonOf(u, u.lits[i]) = Decision /\ LitLevel(u, u.lits[i]) >= 1
                            => i = u.lim[LitLevel(u, u.lits[i])] + 1
                      /\ ReasonOf(u, u.lits[i]).cref = 0 \/ ReasonOf(u, u.lits[i]).other = 0
    BY <1>1 DEF Shaped
  <2>1. /\ ReasonOf(t, t.lits[i]) = Decision /\ LitLevel(t, t.lits[i]) >= 1
             => i = t.lim[LitLevel(t, t.lits[i])] + 1
        /\ ReasonOf(t, t.lits[i]).cref = 0 \/ ReasonOf(t, t.lits[i]).other = 0
    BY DEF Shaped
  <2>2. /\ LitLevel(u, u.lits[i]) = LitLevel(t, t.lits[i])
        /\ ReasonOf(u, u.lits[i]) = ReasonOf(t, t.lits[i])
        /\ LitLevel(t, t.lits[i]) \in 0..LevelOf(t)
    BY <1>2
  <2>3. LitLevel(t, t.lits[i]) >= 1 => u.lim[LitLevel(t, t.lits[i])] = t.lim[LitLevel(t, t.lits[i])]
    <3> SUFFICES ASSUME NEW k, k = LitLevel(t, t.lits[i]), k >= 1
                 PROVE  u.lim[k] = t.lim[k]
      OBVIOUS
    <3>1. LevelOf(t) \in Nat /\ k \in 0..LevelOf(t)
      BY <2>2, <1>1
    <3>2. k \in 1..LevelOf(t)
      BY <3>1
    <3> QED
      BY <3>2, <1>3
  <2> QED
    BY <2>1, <2>2, <2>3
<1>5. StartsDecide(u, n)
  BY <1>1 DEF StartsDecide, LevelOf
<1> QED
  BY <1>4, <1>5

\* A level that is opened with its decision.
LEMMA DecideShape ==
    ASSUME NEW t, WellFormed(t), Shaped(t), t.qhead = Len(t.lits),
           NEW l \in Lits, IsUndef(t, l), NEW u, u = Enqueued(Opened(t), l, Decision)
    PROVE  Shaped(u) /\ \A n \in Nat : StartsDecide(t, n) => StartsDecide(u, n)
<1> PICK m \in Nat : m = Len(t.lits)
  BY TrailParts DEF WellFormed
<1>1. /\ Len(u.lits) = m + 1 /\ u.lits[m + 1] = l /\ ReasonOf(u, l) = Decision
      /\ u.lim = Append(t.lim, m) /\ LitLevel(u, l) = LevelOf(t) + 1
      /\ \A i \in 1..m : u.lits[i] = t.lits[i] /\ u.info[VarOf(t.lits[i])] = t.info[VarOf(t.lits[i])]
      /\ t.lim \in Seq(Nat) /\ LevelOf(t) \in Nat
  <2>1. t \in TrailType
    BY DEF WellFormed
  <2>2. /\ Continues(t, u, m) /\ Len(u.lits) = m + 1 /\ u.lits[m + 1] = l
        /\ ReasonOf(u, l) = Decision
        /\ u.lim = Append(t.lim, m) /\ LitLevel(u, l) = LevelOf(t) + 1
    BY DecideContinues
  <2>3. t.lim \in Seq(Nat) /\ LevelOf(t) \in Nat
    BY <2>1, TrailParts DEF LevelOf
  <2> QED
    BY <2>2, <2>3 DEF Continues
<1>2. \A i \in 1..m : /\ LitLevel(u, u.lits[i]) = LitLevel(t, t.lits[i])
                      /\ ReasonOf(u, u.lits[i]) = ReasonOf(t, t.lits[i])
                      /\ LitLevel(t, t.lits[i]) \in 0..LevelOf(t)
  BY <1>1 DEF LitLevel, ReasonOf, WellFormed
<1>3. /\ \A k \in 1..LevelOf(t) : u.lim[k] = t.lim[k]
      /\ u.lim[LevelOf(t) + 1] = m /\ LevelOf(u) = LevelOf(t) + 1
  BY <1>1 DEF LevelOf
<1>4. Shaped(u)
  <2> SUFFICES ASSUME NEW i \in 1..(m + 1)
               PROVE  /\ ReasonOf(u, u.lits[i]) = Decision /\ LitLevel(u, u.lits[i]) >= 1
                            => i = u.lim[LitLevel(u, u.lits[i])] + 1
                      /\ ReasonOf(u, u.lits[i]).cref = 0 \/ ReasonOf(u, u.lits[i]).other = 0
    BY <1>1 DEF Shaped
  <2>1. CASE i = m + 1
    <3>1. u.lits[i] = l /\ ReasonOf(u, u.lits[i]) = Decision
      BY <2>1, <1>1
    <3>2. LitLevel(u, u.lits[i]) = LevelOf(t) + 1
      BY <3>1, <1>1
    <3>3. u.lim[LitLevel(u, u.lits[i])] + 1 = i
      BY <3>2, <2>1, <1>3
    <3> QED
      BY <3>1, <3>3 DEF Decision
  <2>2. CASE i \in 1..m
    BY <2>2, <1>2, <1>3 DEF Shaped
  <2> QED
    BY <2>1, <2>2
<1>5. ASSUME NEW j \in Nat, StartsDecide(t, j), NEW k \in (j + 1)..LevelOf(u)
      PROVE  OpensWith(u, k)
  <2>1. CASE k = LevelOf(t) + 1
    BY <2>1, <1>1, <1>3 DEF OpensWith
  <2>2. CASE k \in (j + 1)..LevelOf(t)
    <3>1. OpensWith(t, k) /\ t.lim[k] \in Nat /\ u.lim[k] = t.lim[k]
      BY SMTT(60), <2>2, <1>5, <1>1, <1>3, TrailParts DEF StartsDecide, LevelOf
    <3>2. t.lim[k] + 1 \in 1..m
      BY <3>1 DEF OpensWith
    <3>3. PICK x \in 1..m : x = t.lim[k] + 1
      BY <3>2
    <3>4. LitLevel(u, u.lits[x]) = k /\ ReasonOf(u, u.lits[x]) = Decision /\ u.lim[k] < m + 1
      BY <3>1, <3>3, <1>2 DEF OpensWith
    <3> QED
      BY <3>4, <3>3, <3>1, <1>1 DEF OpensWith
  <2> QED
    BY <2>1, <2>2, <1>3, <1>5, <1>1
<1> QED
  BY <1>4, <1>5 DEF StartsDecide

\* The shape tells nothing of the cursor.
LEMMA SameShape ==
    ASSUME NEW t, NEW u, u.lits = t.lits, u.lim = t.lim, u.info = t.info
    PROVE  ShapeKept(t, u) /\ LevelOf(u) = LevelOf(t)
BY DEF ShapeKept, Shaped, StartsDecide, OpensWith, LitLevel, ReasonOf, LevelOf

LEMMA ShapeTransitive ==
    ASSUME NEW t, NEW u, NEW w, ShapeKept(t, u), ShapeKept(u, w)
    PROVE  ShapeKept(t, w)
BY DEF ShapeKept

\* The reason an attached clause gives is no decision.
LEMMA BecauseShape ==
    ASSUME NEW s \in Seq(Lits), Len(s) >= 2, NEW c \in Nat, c = 0 <=> Len(s) = 2,
           NEW r, r = Because(s, c)
    PROVE  r \in Reasons /\ (r.cref = 0 \/ r.other = 0) /\ r # Decision
<1>1. s[2] \in Lits /\ s[2] # 0
  <2>1. 2 \in 1..Len(s)
    BY LenProperties
  <2> QED
    BY <2>1, ElementOfSeq, LitFacts
<1>2. CASE Len(s) = 2
  BY <1>1, <1>2 DEF Because, ByBinary, Reasons, Decision
<1>3. CASE Len(s) # 2
  BY <1>1, <1>3 DEF Because, ByClause, Reasons, Decision
<1> QED
  BY <1>2, <1>3

LEMMA SelfShape ==
    ASSUME NEW t
    PROVE  ShapeKept(t, t)
BY DEF ShapeKept

\* add_clause opens no level, and what it enqueues is a root fact or has a
\* reason.
LEMMA AddClauseShape ==
    ASSUME PropInv, ~Busy, conflict = <<>>, NEW c \in InputClauses, add_clause(c)
    PROVE  ShapeKept(trail, trail')
<1>1. WellFormed(trail) /\ visit = NoVisit /\ visit' = NoVisit /\ 0 \in Nat
  BY TypedDb DEF add_clause, Busy
<1>2. CASE dead \/ Satisfied(c)
  BY <1>2, SelfShape DEF add_clause
<1>3. CASE ~dead /\ ~Satisfied(c)
  <2>1. PICK s : s = Filtered(c) /\ (AddEmpty(s) \/ AddUnit(s) \/ AddLong(s))
    BY <1>3 DEF add_clause
  <2>2. /\ s \in Seq(Lits) /\ IsInjective(s)
        /\ \A l \in ToSet(s) : IsTrue(trail, l) \/ IsFalse(trail, l) => LitLevel(trail, l) > 0
    BY <1>3, <2>1, FilteredFacts
  <2>3. CASE AddEmpty(s)
    BY <2>3, <1>1, CutShape DEF AddEmpty
  <2>4. CASE AddUnit(s)
    <3>1. PICK u : u = Cancelled(trail, 0)
      OBVIOUS
    <3>2. trail' = Enqueued(u, s[1], Decision) /\ Len(s) = 1
      BY <3>1, <2>4 DEF AddUnit
    <3>3. s[1] \in Lits /\ s[1] \in ToSet(s)
      <4>1. 1 \in 1..Len(s)
        BY <3>2
      <4> QED
        BY <2>2, <4>1, ElementOfSeq, ToSetFacts
    <3>4. IsUndef(u, s[1])
      <4>1. LitLevel(trail, s[1]) \in Int
        BY <1>1, <3>3, LitFacts, TrailParts DEF WellFormed, LitLevel
      <4>2. LitLevel(trail, s[1]) > 0 => ~(LitLevel(trail, s[1]) <= 0)
        BY <4>1
      <4> QED
        BY <1>1, <2>2, <3>1, <3>3, <4>2, CancelledTruth DEF IsUndef
    <3>5. ShapeKept(trail, u) /\ LevelOf(u) = 0 /\ WellFormed(u)
      <4>1. LevelOf(trail) \in Nat
        BY <1>1, TrailParts DEF WellFormed, LevelOf
      <4>2. \E m \in 0..Len(trail.lits) : CutAt(trail, u, 0, m)
        BY <1>1, <3>1, CancelContinues
      <4> QED
        BY <1>1, <3>1, <4>1, <4>2, CutShape DEF CutAt, Continues
    <3>6. Decision \in Reasons /\ Decision.cref = 0
      BY DEF Decision, Reasons
    <3>7. ShapeKept(u, trail')
      BY <3>2, <3>3, <3>4, <3>5, <3>6, EnqueueShape
    <3> QED
      BY <3>5, <3>7, ShapeTransitive
  <2>5. CASE AddLong(s)
    <3>1. PICK t, r : /\ t = Unfalsified(s) /\ r = Arranged(t, s)
                      /\ Attach(r, "original", 0)
                      /\ trail' = LET u == ImpliedAt(t, s)
                                  IN  IF ~IsUnit(t, s) THEN t
                                      ELSE IF IsUndef(u, r[1]) THEN Enqueued(u, r[1], ReasonFrom(r))
                                      ELSE u
      BY <2>5 DEF AddLong
    <3>2. Len(s) >= 2
      BY <2>5 DEF AddLong
    <3>3. OpenAt(t, s) # {} /\ \E n \in Nat : t = Cancelled(trail, n)
      BY <1>1, <2>2, <3>1, <3>2, UnfalsifiedFacts
    <3>4. ShapeKept(trail, t) /\ WellFormed(t)
      <4>1. PICK n \in Nat : t = Cancelled(trail, n)
        BY <3>3
      <4>2. \E m \in 0..Len(trail.lits) : CutAt(trail, t, n, m)
        BY <1>1, <4>1, CancelContinues
      <4> QED
        BY <1>1, <4>1, <4>2, CutShape DEF CutAt, Continues
    <3>5. PICK d : d = DeepestFalse(t, s)
      OBVIOUS
    <3>6. d \in Nat
      <4>1. d \in 0..LevelOf(t)
        BY <2>2, <3>4, <3>5, DeepestFacts
      <4> QED
        BY <4>1
    <3>7. PICK u : u = Cancelled(t, d)
      OBVIOUS
    <3>8. ShapeKept(t, u) /\ WellFormed(u)
      <4>1. \E m \in 0..Len(t.lits) : CutAt(t, u, d, m)
        BY <3>4, <3>6, <3>7, CancelContinues
      <4> QED
        BY <3>4, <3>6, <3>7, <4>1, CutShape DEF CutAt, Continues
    <3>9. trail' = t \/ trail' = u \/ (IsUndef(u, r[1]) /\ trail' = Enqueued(u, r[1], ReasonFrom(r)))
      BY <3>1, <3>5, <3>7 DEF ImpliedAt
    <3>10. ShapeKept(trail, u)
      BY <3>4, <3>8, ShapeTransitive
    <3>11. CASE IsUndef(u, r[1]) /\ trail' = Enqueued(u, r[1], ReasonFrom(r))
      <4>1. r \in Seq(Lits) /\ Len(r) = Len(s) /\ IsInjective(r)
        BY <2>2, <3>1, <3>2, <3>3, <3>4, <3>5, ArrangedFacts
      <4>2. "original" \in Kinds
        BY DEF Kinds
      <4>3. PICK k \in Nat : Attaches(r, k) /\ (k = 0 <=> Len(r) = 2) /\ ReasonFrom(r) = Because(r, k)
        BY <1>1, <3>1, <3>2, <4>1, <4>2, AttachFacts
      <4>4. PICK e : e = Because(r, k)
        OBVIOUS
      <4>5. e \in Reasons /\ (e.cref = 0 \/ e.other = 0) /\ e # Decision
        BY <3>2, <4>1, <4>3, <4>4, BecauseShape
      <4>6. r[1] \in Lits
        <5>1. 1 \in 1..Len(r)
          BY <3>2, <4>1, LenProperties
        <5> QED
          BY <4>1, <5>1, ElementOfSeq
      <4>7. trail' = Enqueued(u, r[1], e)
        BY <3>11, <4>3, <4>4
      <4>8. ShapeKept(u, trail')
        BY <3>8, <3>11, <4>5, <4>6, <4>7, EnqueueShape
      <4> QED
        BY <3>10, <4>8, ShapeTransitive
    <3> QED
      BY <3>4, <3>9, <3>10, <3>11
  <2> QED
    BY <2>1, <2>3, <2>4, <2>5
<1> QED
  BY <1>2, <1>3

(***************************************************************************)
(* What a conflict tells.                                                   *)
(***************************************************************************)
\* The clause s is falsified, by a literal of the current level among others.
Falsified(t, s) ==
    /\ \A q \in ToSet(s) : IsFalse(t, q)
    /\ \E q \in ToSet(s) : LitLevel(t, q) = LevelOf(t)

ConflictRight == conflict # <<>> => Falsified(trail, conflict)

\* A step of propagation that leaves the conflict empty.
LEMMA NoConflict ==
    ASSUME conflict' = <<>>
    PROVE  ConflictRight'
BY DEF ConflictRight

\* A traversal enqueues literals with reasons, and returns a conflict that is
\* one.
LEMMA PropagateShape ==
    ASSUME PropInv, ConflictRight, propagate
    PROVE  ShapeKept(trail, trail') /\ LevelOf(trail') = LevelOf(trail) /\ ConflictRight'
<1>1. WellFormed(trail)
  BY TypedDb
<1>2. CASE Dequeue
  <2>1. PICK u : u = trail' /\ u.lits = trail.lits /\ u.lim = trail.lim /\ u.info = trail.info
    BY <1>1, <1>2, DequeueWellFormed DEF Dequeue
  <2>2. conflict' = <<>>
    BY <1>2 DEF Dequeue
  <2> QED
    BY <2>1, <2>2, SameShape, NoConflict
<1>3. CASE EndVisit
  <2>1. trail' = trail /\ conflict' = <<>>
    BY <1>3, BusyFacts DEF EndVisit
  <2> QED
    BY <2>1, SelfShape, NoConflict
<1>4. CASE VisitBlocked
  <2>1. trail' = trail /\ conflict' = <<>>
    BY <1>4, BusyFacts DEF VisitBlocked, AtLong
  <2> QED
    BY <2>1, SelfShape, NoConflict
<1>5. CASE VisitBinary
  <2>1. PICK w : w = Current
    OBVIOUS
  <2>2. PICK q : q = w.blocker
    OBVIOUS
  <2>3. PICK v : v = visit.lit
    OBVIOUS
  <2>4. Busy /\ visit.rest # <<>>
    BY <1>5 DEF VisitBinary
  <2>5. q \in Lits
    BY <2>1, <2>2, <2>4, CurrentFacts
  <2>6. v \in Lits /\ v # 0 /\ IsFalse(trail, v) /\ LitLevel(trail, v) = LevelOf(trail) /\ conflict = <<>>
    BY <2>3, <2>4, BusyFacts, LitFacts
  <2>7. \/ IsFalse(trail, q) /\ conflict' = <<v, q>> /\ trail' = trail
        \/ ~IsFalse(trail, q) /\ conflict' = conflict
           /\ trail' = IF IsTrue(trail, q) THEN trail ELSE Enqueued(trail, q, ByBinary(v))
    BY <1>5, <2>1, <2>2, <2>3 DEF VisitBinary, Refute
  <2>8. CASE IsFalse(trail, q) /\ conflict' = <<v, q>> /\ trail' = trail
    <3>1. ToSet(<<v, q>>) = {v, q}
      BY DEF ToSet
    <3>2. Falsified(trail, <<v, q>>)
      BY <2>6, <2>8, <3>1 DEF Falsified
    <3>3. ConflictRight'
      BY <2>8, <3>2 DEF ConflictRight
    <3> QED
      BY <2>8, <3>3, SelfShape
  <2>9. CASE trail' = trail /\ conflict' = conflict
    BY <2>6, <2>9, SelfShape, NoConflict
  <2>10. CASE /\ IsUndef(trail, q) /\ conflict' = conflict
              /\ trail' = Enqueued(trail, q, ByBinary(v))
    <3>1. PICK r : r = ByBinary(v)
      OBVIOUS
    <3>2. r \in Reasons /\ r.cref = 0 /\ r # Decision
      BY <2>6, <3>1 DEF ByBinary, Reasons, Decision
    <3>3. PICK u : u = trail' /\ u = Enqueued(trail, q, r)
      BY <2>10, <3>1
    <3>4. ShapeKept(trail, u) /\ LevelOf(u) = LevelOf(trail)
      BY <1>1, <2>5, <2>10, <3>2, <3>3, EnqueueShape
    <3> QED
      BY <2>6, <2>10, <3>3, <3>4, NoConflict
  <2> QED
    BY <2>7, <2>8, <2>9, <2>10 DEF IsUndef
<1>6. CASE VisitLong
  <2>1. PICK c : c = Current.cref
    OBVIOUS
  <2>2. PICK s : s = Oriented(c)
    OBVIOUS
  <2>3. Busy /\ visit.rest # <<>> /\ ~Binary(Current)
    BY <1>6 DEF VisitLong, AtLong
  <2>4. c \in Crefs /\ Live(c) /\ visit.lit \in {Body(c)[1], Body(c)[2]}
    BY <2>1, <2>3, CurrentFacts
  <2>5. c \in Nat /\ c # 0
    BY <2>4, BodyFacts DEF PropInv
  <2>6. PICK n \in Nat : /\ n = Len(s) /\ n >= 3 /\ s \in Seq(Lits) /\ s[1] \in Lits
                         /\ s[2] = visit.lit
    BY <2>2, <2>3, <2>4, OrientedFacts
  <2>7. IsFalse(trail, s[2]) /\ LitLevel(trail, s[2]) = LevelOf(trail) /\ conflict = <<>>
    BY <2>3, <2>6, BusyFacts
  <2>8. \/ trail' = trail /\ conflict' = conflict
        \/ /\ IsUndef(trail, s[1]) /\ trail' = Enqueued(trail, s[1], ByClause(c))
           /\ conflict' = conflict
        \/ /\ IsFalse(trail, s[1]) /\ Replacements(s) = {} /\ conflict' = s /\ trail' = trail
    BY <1>6, <2>1, <2>2 DEF VisitLong, Refute
  <2>9. CASE trail' = trail /\ conflict' = conflict
    BY <2>7, <2>9, SelfShape, NoConflict
  <2>10. CASE /\ IsUndef(trail, s[1]) /\ trail' = Enqueued(trail, s[1], ByClause(c))
              /\ conflict' = conflict
    <3>1. PICK r : r = ByClause(c)
      OBVIOUS
    <3>2. r \in Reasons /\ r.other = 0 /\ r # Decision
      BY <2>5, <3>1 DEF ByClause, Reasons, Decision
    <3>3. PICK u : u = trail' /\ u = Enqueued(trail, s[1], r)
      BY <2>10, <3>1
    <3>4. ShapeKept(trail, u) /\ LevelOf(u) = LevelOf(trail)
      BY <1>1, <2>6, <2>10, <3>2, <3>3, EnqueueShape
    <3> QED
      BY <2>7, <2>10, <3>3, <3>4, NoConflict
  <2>11. CASE /\ IsFalse(trail, s[1]) /\ Replacements(s) = {} /\ conflict' = s /\ trail' = trail
    <3>1. \A k \in 3..n : IsFalse(trail, s[k])
      BY <2>11, <2>6 DEF Replacements
    <3>2. \A k \in 1..n : IsFalse(trail, s[k])
      <4> TAKE k \in 1..n
      <4>1. k = 1 \/ k = 2 \/ k \in 3..n
        BY <2>6
      <4> QED
        BY <4>1, <3>1, <2>7, <2>11
    <3>3. 2 \in 1..n /\ s[2] \in ToSet(s)
      BY <2>6, ToSetFacts
    <3>4. \A q \in ToSet(s) : \E k \in 1..n : s[k] = q
      BY <2>6, ToSetFacts
    <3>5. Falsified(trail, s)
      BY <2>7, <3>2, <3>3, <3>4 DEF Falsified
    <3>6. ConflictRight'
      BY <2>11, <3>5 DEF ConflictRight
    <3> QED
      BY <2>11, <3>6, SelfShape
  <2> QED
    BY <2>8, <2>9, <2>10, <2>11
<1> QED
  BY <1>2, <1>3, <1>4, <1>5, <1>6 DEF propagate

LEMMA PropagateKeeps ==
    ASSUME PropInv, propagate
    PROVE  PropInv'
BY DequeueKeeps, EndVisitKeeps, VisitBinaryKeeps, VisitBlockedKeeps, VisitLongKeeps DEF propagate

\* The backjump keeps the shape, and the literal learned is a fact or has a
\* reason.
LEMMA LearntShape ==
    ASSUME PropInv, visit = NoVisit, visit' = visit, LevelOf(trail) > 0,
           NEW s \in Seq(Lits), IsInjective(s), Len(s) >= 1,
           \A i \in 1..Len(s) : IsFalse(trail, s[i]),
           \A i \in 1..Len(s) : LitLevel(trail, s[i]) = LevelOf(trail) <=> i = 1,
           \A i \in 2..Len(s) : LitLevel(trail, s[i]) <= LitLevel(trail, s[2]),
           NEW lbd \in Nat, Learnt(s, lbd)
    PROVE  ShapeKept(trail, trail')
<1>1. WellFormed(trail) /\ LevelOf(trail) \in Nat
  BY TypedDb, TrailParts DEF WellFormed, LevelOf
<1>2. /\ Len(s) \in Nat /\ 1 \in 1..Len(s) /\ s[1] \in Lits
      /\ Len(s) # 1 => Len(s) >= 2 /\ 2 \in 1..Len(s) /\ s[2] \in Lits
  <2>1. PICK n \in Nat : n = Len(s) /\ n >= 1
    BY LenProperties
  <2>2. 1 \in 1..n /\ (n # 1 => n >= 2 /\ 2 \in 1..n)
    BY <2>1
  <2> QED
    BY <2>1, <2>2, ElementOfSeq
<1>3. PICK bt : bt = IF Len(s) = 1 THEN 0 ELSE LitLevel(trail, s[2])
  OBVIOUS
<1>4. bt \in Nat /\ bt < LevelOf(trail)
  <2>1. CASE Len(s) = 1
    BY <1>1, <1>3, <2>1
  <2>2. CASE Len(s) # 1
    <3>1. 2 \in 1..Len(s) /\ s[2] \in Lits
      BY <1>2, <2>2
    <3>2. IsFalse(trail, s[2]) /\ LitLevel(trail, s[2]) # LevelOf(trail)
      BY <3>1
    <3>3. LitLevel(trail, s[2]) \in 0..LevelOf(trail)
      BY <1>1, <3>1, <3>2, TruthFacts
    <3> QED
      BY <1>1, <1>3, <2>2, <3>2, <3>3
  <2> QED
    BY <2>1, <2>2
<1>5. PICK u : u = Cancelled(trail, bt)
  OBVIOUS
<1>6. ShapeKept(trail, u) /\ LevelOf(u) = bt /\ WellFormed(u)
  <2>1. \E m \in 0..Len(trail.lits) : CutAt(trail, u, bt, m)
    BY <1>1, <1>4, <1>5, CancelContinues
  <2>2. ShapeKept(trail, u) /\ LevelOf(u) = IF LevelOf(trail) <= bt THEN LevelOf(trail) ELSE bt
    BY <1>1, <1>4, <1>5, CutShape
  <2> QED
    BY <1>1, <1>4, <2>1, <2>2 DEF CutAt, Continues
<1>7. IsUndef(u, s[1])
  <2>1. IsFalse(trail, s[1]) /\ LitLevel(trail, s[1]) = LevelOf(trail)
    BY <1>2
  <2>2. ~(LitLevel(trail, s[1]) <= bt)
    BY <1>1, <1>4, <2>1
  <2> QED
    BY <1>1, <1>2, <1>4, <1>5, <2>2, CancelledTruth DEF IsUndef
<1>8. CASE Len(s) = 1
  <2>1. trail' = Enqueued(u, s[1], Decision) /\ bt = 0
    BY <1>3, <1>5, <1>8 DEF Learnt
  <2>2. Decision \in Reasons /\ Decision.cref = 0
    BY DEF Decision, Reasons
  <2>3. ShapeKept(u, trail')
    BY <1>2, <1>6, <1>7, <2>1, <2>2, EnqueueShape
  <2> QED
    BY <1>6, <2>3, ShapeTransitive
<1>9. CASE Len(s) # 1
  <2>1. Len(s) >= 2
    BY <1>2, <1>9
  <2>2. trail' = Enqueued(u, s[1], ReasonFrom(s)) /\ Attach(s, "learnt", lbd)
    BY <1>3, <1>5, <1>9 DEF Learnt
  <2>3. "learnt" \in Kinds /\ visit' = NoVisit
    BY DEF Kinds
  <2>4. PICK d \in Nat : Attaches(s, d) /\ (d = 0 <=> Len(s) = 2) /\ ReasonFrom(s) = Because(s, d)
    BY <2>1, <2>2, <2>3, AttachFacts
  <2>5. PICK r : r = Because(s, d)
    OBVIOUS
  <2>6. r \in Reasons /\ (r.cref = 0 \/ r.other = 0) /\ r # Decision
    BY <2>1, <2>4, <2>5, BecauseShape
  <2>7. trail' = Enqueued(u, s[1], r)
    BY <2>2, <2>4, <2>5
  <2>8. ShapeKept(u, trail')
    BY <1>2, <1>6, <1>7, <2>6, <2>7, EnqueueShape
  <2> QED
    BY <1>6, <2>8, ShapeTransitive
<1> QED
  BY <1>8, <1>9

\* The other literals of a reason were falsified before.
LEMMA TailFacts ==
    ASSUME PropInv, NEW i \in 1..Len(trail.lits), NEW q \in Lits,
           VarOf(q) = VarOf(trail.lits[i]), ReasonOf(trail, q) # Decision,
           NEW s, s = ReasonTail(trail, q)
    PROVE  /\ s \in Seq(Lits)
           /\ \A k \in ToSet(s) : \E j \in 1..(i - 1) : trail.lits[j] = -k
<1>1. PICK p \in Lits : p = trail.lits[i]
  BY TypedDb, TrailParts DEF WellFormed
<1>2. PICK r : r = ReasonOf(trail, p) /\ r = ReasonOf(trail, q)
  BY <1>1 DEF ReasonOf
<1>3. s = ReasonTail(trail, p)
  BY <1>2 DEF ReasonTail
<1>4. ReasonRight(i)
  BY TypedDb, ReasonsEach DEF PropInv
<1>5. /\ r.cref # 0 => r.cref \in Crefs /\ Live(r.cref)
      /\ r.cref = 0 => {p, r.other} \in binaries \cup learntBins
      /\ \A k \in ToSet(s) : \E j \in 1..(i - 1) : trail.lits[j] = -k
  BY <1>1, <1>2, <1>3, <1>4 DEF ReasonRight
<1>6. CASE r.cref # 0
  <2>1. /\ Body(r.cref) \in Seq(Lits) /\ Len(Body(r.cref)) \in Nat /\ Len(Body(r.cref)) >= 3
    BY <1>5, <1>6, BodyFacts DEF PropInv
  <2>2. s = Tail(Body(r.cref)) /\ Body(r.cref) # <<>>
    BY <1>2, <1>3, <1>6, <2>1 DEF ReasonTail
  <2> QED
    BY <1>5, <2>1, <2>2
<1>7. CASE r.cref = 0
  <2>1. r.other \in Lits
    BY <1>5, <1>7, TypedDb DEF DbTyped, Clauses
  <2>2. s = <<r.other>>
    BY <1>2, <1>3, <1>7 DEF ReasonTail
  <2> QED
    BY <1>5, <2>1, <2>2
<1> QED
  BY <1>6, <1>7

(***************************************************************************)
(* Sequences of literals that are read from the front, or taken and put     *)
(* back at the end.                                                         *)
(***************************************************************************)
LEMMA HeadFacts ==
    ASSUME NEW s \in Seq(Lits), s # <<>>, NEW h, h = Head(s), NEW r, r = Tail(s)
    PROVE  /\ h \in Lits /\ h \in ToSet(s) /\ r \in Seq(Lits)
           /\ \A x : x \in ToSet(s) <=> x = h \/ x \in ToSet(r)
           /\ IsInjective(s) => IsInjective(r) /\ h \notin ToSet(r)
<1> PICK n \in Nat : n = Len(s) /\ n >= 1
  BY EmptySeq, LenProperties
<1>1. /\ h = s[1] /\ r \in Seq(Lits) /\ Len(r) = n - 1 /\ \A i \in 1..(n - 1) : r[i] = s[i + 1]
      /\ DOMAIN s = 1..n /\ DOMAIN r = 1..(n - 1) /\ \A i \in 1..n : s[i] \in Lits
  BY HeadTailProperties, LenProperties, ElementOfSeq
<1>2. \A x : x \in ToSet(s) <=> x = h \/ x \in ToSet(r)
  <2> TAKE x
  <2>1. x \in ToSet(s) <=> \E i \in 1..n : s[i] = x
    BY <1>1 DEF ToSet
  <2>2. x \in ToSet(r) <=> \E i \in 1..(n - 1) : s[i + 1] = x
    BY <1>1 DEF ToSet
  <2>3. ASSUME NEW i \in 1..n, s[i] = x, x # h
        PROVE  \E j \in 1..(n - 1) : s[j + 1] = x
    <3>1. i - 1 \in 1..(n - 1) /\ (i - 1) + 1 = i
      BY <2>3, <1>1
    <3> QED
      BY <3>1, <2>3
  <2>4. ASSUME NEW j \in 1..(n - 1), s[j + 1] = x
        PROVE  \E i \in 1..n : s[i] = x
    <3>1. j + 1 \in 1..n
      OBVIOUS
    <3> QED
      BY <3>1, <2>4
  <2>5. 1 \in 1..n
    OBVIOUS
  <2> QED
    BY <2>1, <2>2, <2>3, <2>4, <2>5, <1>1
<1>3. ASSUME IsInjective(s)
      PROVE  IsInjective(r) /\ h \notin ToSet(r)
  <2>1. \A i, j \in 1..n : s[i] = s[j] => i = j
    BY <1>1, <1>3 DEF IsInjective
  <2>2. ASSUME NEW i \in 1..(n - 1), NEW j \in 1..(n - 1), r[i] = r[j]
        PROVE  i = j
    <3>1. i + 1 \in 1..n /\ j + 1 \in 1..n /\ s[i + 1] = s[j + 1]
      BY <2>2, <1>1
    <3>2. i + 1 = j + 1
      BY <3>1, <2>1
    <3> QED
      BY <3>2
  <2>3. ASSUME NEW i \in 1..(n - 1), r[i] = h
        PROVE  FALSE
    <3>1. i + 1 \in 1..n /\ 1 \in 1..n /\ s[i + 1] = s[1] /\ i + 1 # 1
      BY <2>3, <1>1
    <3> QED
      BY <3>1, <2>1
  <2>4. IsInjective(r)
    BY <2>2, <1>1 DEF IsInjective
  <2>5. h \notin ToSet(r)
    BY <2>3, <1>1 DEF ToSet
  <2> QED
    BY <2>4, <2>5
<1>4. h \in ToSet(s) /\ h \in Lits
  <2>1. 1 \in 1..n
    OBVIOUS
  <2> QED
    BY <2>1, <1>1, <1>2
<1> QED
  BY <1>1, <1>2, <1>3, <1>4

\* r is s with e at its end.
Lengthens(r, s, e) ==
    /\ r \in Seq(Lits)
    /\ \A x : x \in ToSet(r) <=> x = e \/ x \in ToSet(s)
    /\ IsInjective(s) /\ e \notin ToSet(s) => IsInjective(r)

LEMMA AppendFacts ==
    ASSUME NEW s \in Seq(Lits), NEW e \in Lits, NEW r, r = Append(s, e)
    PROVE  Lengthens(r, s, e)
<1> PICK n \in Nat : n = Len(s)
  BY LenProperties
<1>1. /\ r \in Seq(Lits) /\ Len(r) = n + 1 /\ r[n + 1] = e /\ \A i \in 1..n : r[i] = s[i]
      /\ DOMAIN s = 1..n /\ DOMAIN r = 1..(n + 1)
  BY AppendProperties, LenProperties
<1>2. \A i \in 1..(n + 1) : i = n + 1 \/ i \in 1..n
  OBVIOUS
<1>3. \A i \in 1..n : i \in 1..(n + 1) /\ i # n + 1
  OBVIOUS
<1>4. n + 1 \in 1..(n + 1)
  OBVIOUS
<1>5. \A x : x \in ToSet(r) <=> x = e \/ x \in ToSet(s)
  <2> TAKE x
  <2>1. x \in ToSet(s) <=> \E i \in 1..n : s[i] = x
    BY <1>1 DEF ToSet
  <2>2. x \in ToSet(r) <=> \E i \in 1..(n + 1) : r[i] = x
    BY <1>1 DEF ToSet
  <2> QED
    BY <2>1, <2>2, <1>1, <1>2, <1>3, <1>4
<1>6. ASSUME IsInjective(s), e \notin ToSet(s)
      PROVE  IsInjective(r)
  <2>1. \A i \in 1..n : s[i] # e
    BY <1>6, <1>1 DEF ToSet
  <2>2. \A i, j \in 1..n : s[i] = s[j] => i = j
    BY <1>6, <1>1 DEF IsInjective
  <2>3. \A i, j \in 1..(n + 1) : r[i] = r[j] => i = j
    BY <2>1, <2>2, <1>1, <1>2
  <2> QED
    BY <2>3, <1>1 DEF IsInjective
<1> QED
  BY <1>1, <1>5, <1>6 DEF Lengthens

LEMMA LastFacts ==
    ASSUME NEW s \in Seq(Lits), s # <<>>, NEW e, e = Last(s), NEW r, r = Front(s)
    PROVE  e \in Lits /\ e \in ToSet(s) /\ r \in Seq(Lits) /\ \A x \in ToSet(r) : x \in ToSet(s)
<1> PICK n \in Nat : n = Len(s) /\ n >= 1
  BY EmptySeq, LenProperties
<1>1. e = s[n] /\ n \in 1..n /\ DOMAIN s = 1..n /\ \A i \in 1..n : s[i] \in Lits
  BY LenProperties, ElementOfSeq DEF Last
<1>2. r = SubSeq(s, 1, n - 1)
  BY DEF Front
<1>3. r \in Seq(Lits) /\ Len(r) = n - 1 /\ \A i \in 1..(n - 1) : r[i] = s[i]
  BY <1>1, <1>2
<1>4. DOMAIN r = 1..(n - 1) /\ \A i \in 1..(n - 1) : i \in 1..n
  BY <1>3, LenProperties
<1> QED
  BY <1>1, <1>3, <1>4 DEF ToSet

(***************************************************************************)
(* The walk over the trail t, with the marks sn and the work w.             *)
(***************************************************************************)
\* q is false since one of the first n positions.
FalseBy(t, q, n) == \E i \in 1..n : t.lits[i] = -q

\* A false literal of a level between the root and the current one.
Lower(t, q) == IsFalse(t, q) /\ LitLevel(t, q) \in 1..(LevelOf(t) - 1)

\* The marked positions of the current level that are not passed yet.
MarkedIn(t, sn, n) ==
    {i \in 1..n : VarOf(t.lits[i]) \in sn /\ LitLevel(t, t.lits[i]) = LevelOf(t)}

\* paths counts those positions; one is marked or about to be.
Counted(t, sn, w) ==
    /\ IsFiniteSet(MarkedIn(t, sn, w.idx))
    /\ w.paths = Cardinality(MarkedIn(t, sn, w.idx))
    /\ w.paths >= 1 \/ \E q \in ToSet(w.cur) : LitLevel(t, q) = LevelOf(t)

\* Nothing of minimization has begun.
Fresh(w) == w.kept = <<>> /\ w.testing = 0 /\ w.stack = <<>>

Walking(t, sn, w) ==
    /\ w.idx \in 0..Len(t.lits) /\ Fresh(w)
    /\ \A q \in ToSet(w.cur) : FalseBy(t, q, w.idx)
    /\ \A v \in sn : \E i \in 1..w.idx : VarOf(t.lits[i]) = v
    /\ Counted(t, sn, w)
    /\ IsInjective(w.learned)
    /\ \A q \in ToSet(w.learned) : Lower(t, q) /\ VarOf(q) \in sn

LEMMA WorkParts ==
    ASSUME NEW w \in WorkType
    PROVE  /\ w.cur \in Seq(Lits) /\ w.idx \in Nat /\ w.paths \in Int /\ w.uip \in Lits \cup {0}
           /\ w.learned \in Seq(Lits) /\ w.kept \in Seq(Lits) /\ w.rest \in Seq(Lits)
           /\ w.testing \in Lits \cup {0} /\ w.stack \in Seq(Lits) /\ w.marks \subseteq Vars
BY DEF WorkType

\* A literal that is false since position n, and the position.
LEMMA FalseByFacts ==
    ASSUME NEW t, WellFormed(t), NEW n \in 0..Len(t.lits), NEW q \in Lits, FalseBy(t, q, n)
    PROVE  \E j \in 1..n : /\ j \in 1..Len(t.lits) /\ t.lits[j] = -q
                           /\ IsFalse(t, q) /\ LitLevel(t, q) \in 0..LevelOf(t)
                           /\ LitLevel(t, t.lits[j]) = LitLevel(t, q)
                           /\ \A i \in 1..Len(t.lits) : VarOf(t.lits[i]) = VarOf(q) <=> i = j
<1>1. PICK j \in 1..n : t.lits[j] = -q
  BY DEF FalseBy
<1>2. Len(t.lits) \in Nat
  BY TrailParts DEF WellFormed
<1>3. j \in 1..Len(t.lits)
  BY <1>2
<1>4. VarOf(-q) = VarOf(q) /\ LitLevel(t, -q) = LitLevel(t, q)
  BY LitFacts DEF LitLevel
<1>5. IsFalse(t, q) /\ LitLevel(t, q) \in 0..LevelOf(t)
  BY <1>1, <1>3, TruthFacts
<1>6. \A i \in 1..Len(t.lits) : VarOf(t.lits[i]) = VarOf(q) <=> i = j
  BY <1>1, <1>3, <1>4 DEF WellFormed
<1> QED
  BY <1>1, <1>3, <1>4, <1>5, <1>6

\* A literal that needs no touch: its position is marked, if it is of the level.
LEMMA SkipWalks ==
    ASSUME NEW t, WellFormed(t), LevelOf(t) > 0, NEW sn, NEW w \in WorkType, Walking(t, sn, w),
           w.cur # <<>>, NEW q, q = Head(w.cur), VarOf(q) \in sn \/ ~(LitLevel(t, q) > 0),
           NEW x, x = [w EXCEPT !.cur = Tail(@)]
    PROVE  x \in WorkType /\ Walking(t, sn, x)
<1>1. PICK r : r = Tail(w.cur)
  OBVIOUS
<1>2. /\ q \in Lits /\ q \in ToSet(w.cur) /\ r \in Seq(Lits)
      /\ \A y : y \in ToSet(w.cur) <=> y = q \/ y \in ToSet(r)
  <2>1. w.cur \in Seq(Lits)
    BY WorkParts
  <2> QED
    BY <1>1, <2>1, HeadFacts
<1>3. x \in WorkType /\ x.cur = r /\ x.idx = w.idx /\ x.paths = w.paths /\ x.learned = w.learned
  BY <1>1, <1>2 DEF WorkType
<1>4. w.idx \in 0..Len(t.lits) /\ FalseBy(t, q, w.idx)
  BY <1>2 DEF Walking
<1>5. PICK j \in 1..w.idx : /\ j \in 1..Len(t.lits)
                            /\ LitLevel(t, t.lits[j]) = LitLevel(t, q)
                            /\ \A i \in 1..Len(t.lits) : VarOf(t.lits[i]) = VarOf(q) <=> i = j
  BY <1>2, <1>4, FalseByFacts
<1>6. PICK C : C = MarkedIn(t, sn, w.idx)
  OBVIOUS
<1>7. IsFiniteSet(C) /\ w.paths = Cardinality(C)
  BY <1>6 DEF Walking, Counted
<1>8. w.paths >= 1 \/ \E y \in ToSet(r) : LitLevel(t, y) = LevelOf(t)
  <2>1. CASE LitLevel(t, q) = LevelOf(t)
    <3>1. VarOf(q) \in sn
      BY <2>1, TrailParts DEF WellFormed, LevelOf
    <3>2. j \in C
      BY <3>1, <2>1, <1>5, <1>6 DEF MarkedIn
    <3>3. Cardinality(C) \in Nat /\ Cardinality(C) # 0
      BY <3>2, <1>7, FS_CardinalityType, FS_EmptySet
    <3> QED
      BY <3>3, <1>7
  <2>2. CASE LitLevel(t, q) # LevelOf(t)
    BY <2>2, <1>2 DEF Walking, Counted
  <2> QED
    BY <2>1, <2>2
<1>9. Counted(t, sn, x)
  BY <1>3, <1>6, <1>7, <1>8 DEF Counted
<1>10. Fresh(x)
  <2>1. x.kept = w.kept /\ x.testing = w.testing /\ x.stack = w.stack
    BY DEF WorkType
  <2> QED
    BY <2>1 DEF Walking, Fresh
<1>11. Walking(t, sn, x)
  BY <1>2, <1>3, <1>9, <1>10 DEF Walking
<1> QED
  BY <1>3, <1>11

\* A literal of the current level is marked and counted.
LEMMA CountWalks ==
    ASSUME NEW t, WellFormed(t), LevelOf(t) > 0, NEW sn, NEW w \in WorkType, Walking(t, sn, w),
           w.cur # <<>>, NEW q, q = Head(w.cur), VarOf(q) \notin sn,
           LitLevel(t, q) >= LevelOf(t), NEW s2, s2 = sn \cup {VarOf(q)},
           NEW x, x = [w EXCEPT !.cur = Tail(@), !.paths = @ + 1]
    PROVE  x \in WorkType /\ Walking(t, s2, x)
<1>1. PICK r : r = Tail(w.cur)
  OBVIOUS
<1>2. /\ q \in Lits /\ q \in ToSet(w.cur) /\ r \in Seq(Lits)
      /\ \A y : y \in ToSet(w.cur) <=> y = q \/ y \in ToSet(r)
  <2>1. w.cur \in Seq(Lits)
    BY WorkParts
  <2> QED
    BY <1>1, <2>1, HeadFacts
<1>3. /\ x \in WorkType /\ x.cur = r /\ x.idx = w.idx /\ x.paths = w.paths + 1
      /\ x.learned = w.learned
  <2>1. w.paths + 1 \in Int
    BY WorkParts
  <2> QED
    BY <1>1, <1>2, <2>1 DEF WorkType
<1>4. w.idx \in 0..Len(t.lits) /\ FalseBy(t, q, w.idx)
  BY <1>2 DEF Walking
<1>5. PICK j \in 1..w.idx : /\ j \in 1..Len(t.lits) /\ LitLevel(t, q) \in 0..LevelOf(t)
                            /\ LitLevel(t, t.lits[j]) = LitLevel(t, q)
                            /\ \A i \in 1..Len(t.lits) : VarOf(t.lits[i]) = VarOf(q) <=> i = j
  BY <1>2, <1>4, FalseByFacts
<1>6. PICK C : C = MarkedIn(t, sn, w.idx)
  OBVIOUS
<1>7. IsFiniteSet(C) /\ w.paths = Cardinality(C)
  BY <1>6 DEF Walking, Counted
<1>8. Len(t.lits) \in Nat /\ LevelOf(t) \in Nat
  BY TrailParts DEF WellFormed, LevelOf
<1>9. LitLevel(t, t.lits[j]) = LevelOf(t) /\ \A i \in 1..w.idx : i \in 1..Len(t.lits)
  BY <1>4, <1>5, <1>8
<1>10. j \notin C /\ MarkedIn(t, s2, w.idx) = C \cup {j}
  <2>1. j \notin C
    BY <1>5, <1>6 DEF MarkedIn
  <2>2. \A i : i \in MarkedIn(t, s2, w.idx) <=> i \in C \cup {j}
    BY <1>5, <1>6, <1>9 DEF MarkedIn
  <2> QED
    BY <2>1, <2>2
<1>11. IsFiniteSet(C \cup {j}) /\ Cardinality(C \cup {j}) = Cardinality(C) + 1
  BY <1>7, <1>10, FS_AddElement
<1>12. Cardinality(C) \in Nat
  BY <1>7, FS_CardinalityType
<1>13. Counted(t, s2, x)
  <2>1. x.paths = Cardinality(C \cup {j}) /\ x.paths >= 1
    BY <1>3, <1>7, <1>11, <1>12
  <2> QED
    BY <1>3, <1>10, <1>11, <2>1 DEF Counted
<1>14. \A v \in s2 : \E i \in 1..x.idx : VarOf(t.lits[i]) = v
  BY <1>3, <1>5 DEF Walking
<1>15. Fresh(x)
  <2>1. x.kept = w.kept /\ x.testing = w.testing /\ x.stack = w.stack
    BY DEF WorkType
  <2> QED
    BY <2>1 DEF Walking, Fresh
<1>16. Walking(t, s2, x)
  BY <1>2, <1>3, <1>13, <1>14, <1>15 DEF Walking
<1> QED
  BY <1>3, <1>16

\* A literal of a lower level is marked and learned.
LEMMA LearnWalks ==
    ASSUME NEW t, WellFormed(t), LevelOf(t) > 0, NEW sn, NEW w \in WorkType, Walking(t, sn, w),
           w.cur # <<>>, NEW q, q = Head(w.cur), VarOf(q) \notin sn, LitLevel(t, q) > 0,
           ~(LitLevel(t, q) >= LevelOf(t)), NEW s2, s2 = sn \cup {VarOf(q)},
           NEW x, x = [w EXCEPT !.cur = Tail(@), !.learned = Append(@, q)]
    PROVE  x \in WorkType /\ Walking(t, s2, x)
<1>1. PICK r : r = Tail(w.cur)
  OBVIOUS
<1>2. /\ q \in Lits /\ q \in ToSet(w.cur) /\ r \in Seq(Lits)
      /\ \A y : y \in ToSet(w.cur) <=> y = q \/ y \in ToSet(r)
  <2>1. w.cur \in Seq(Lits)
    BY WorkParts
  <2> QED
    BY <1>1, <2>1, HeadFacts
<1>3. PICK d : d = Append(w.learned, q)
  OBVIOUS
<1>4. /\ d \in Seq(Lits) /\ \A y : y \in ToSet(d) <=> y = q \/ y \in ToSet(w.learned)
      /\ IsInjective(w.learned) /\ q \notin ToSet(w.learned) => IsInjective(d)
  <2>1. w.learned \in Seq(Lits) /\ q \in Lits
    BY <1>2, WorkParts
  <2>2. Lengthens(d, w.learned, q)
    BY <1>3, <2>1, AppendFacts
  <2> QED
    BY <2>2 DEF Lengthens
<1>5. /\ x \in WorkType /\ x.cur = r /\ x.idx = w.idx /\ x.paths = w.paths
      /\ x.learned = d
  BY <1>1, <1>2, <1>3, <1>4 DEF WorkType
<1>6. w.idx \in 0..Len(t.lits) /\ FalseBy(t, q, w.idx)
  BY <1>2 DEF Walking
<1>7. PICK j \in 1..w.idx : /\ j \in 1..Len(t.lits) /\ LitLevel(t, q) \in 0..LevelOf(t)
                            /\ LitLevel(t, t.lits[j]) = LitLevel(t, q) /\ IsFalse(t, q)
                            /\ \A i \in 1..Len(t.lits) : VarOf(t.lits[i]) = VarOf(q) <=> i = j
                            /\ t.lits[j] = -q
  BY <1>2, <1>6, FalseByFacts
<1>8. Len(t.lits) \in Nat /\ LevelOf(t) \in Nat
  BY TrailParts DEF WellFormed, LevelOf
<1>9. LitLevel(t, q) # LevelOf(t) /\ \A i \in 1..w.idx : i \in 1..Len(t.lits)
  BY <1>6, <1>7, <1>8
<1>10. Lower(t, q)
  BY <1>7, <1>8 DEF Lower
<1>11. MarkedIn(t, s2, w.idx) = MarkedIn(t, sn, w.idx)
  <2>1. \A i : i \in MarkedIn(t, s2, w.idx) <=> i \in MarkedIn(t, sn, w.idx)
    BY <1>7, <1>9 DEF MarkedIn
  <2> QED
    BY <2>1
<1>12. Counted(t, s2, x)
  BY <1>2, <1>5, <1>9, <1>11 DEF Counted, Walking
<1>13. \A v \in s2 : \E i \in 1..x.idx : VarOf(t.lits[i]) = v
  <2>1. VarOf(t.lits[j]) = VarOf(q)
    BY <1>7
  <2> QED
    BY <1>5, <2>1 DEF Walking
<1>14. IsInjective(x.learned) /\ \A y \in ToSet(x.learned) : Lower(t, y) /\ VarOf(y) \in s2
  BY <1>4, <1>5, <1>10 DEF Walking
<1>15. Fresh(x)
  <2>1. x.kept = w.kept /\ x.testing = w.testing /\ x.stack = w.stack
    BY DEF WorkType
  <2> QED
    BY <2>1 DEF Walking, Fresh
<1>16. Walking(t, s2, x)
  BY <1>2, <1>5, <1>12, <1>13, <1>14, <1>15 DEF Walking
<1> QED
  BY <1>5, <1>16

\* The walk starts from the conflict, with no mark.
LEMMA BeginWalks ==
    ASSUME NEW t, WellFormed(t), NEW s \in Seq(Lits), Falsified(t, s),
           NEW x, x = [NoWork EXCEPT !.cur = s, !.idx = Len(t.lits)]
    PROVE  x \in WorkType /\ Walking(t, {}, x)
<1>1. Len(t.lits) \in Nat
  BY TrailParts DEF WellFormed
<1>2. NoWork \in WorkType
  <2>1. <<>> \in Seq(Lits)
    OBVIOUS
  <2> QED
    BY <2>1 DEF NoWork, WorkType
<1>3. x \in WorkType
  BY <1>1, <1>2 DEF WorkType
<1>4. /\ x.cur = s /\ x.idx = Len(t.lits) /\ x.paths = 0 /\ x.learned = <<>>
      /\ x.kept = <<>> /\ x.testing = 0 /\ x.stack = <<>>
  BY DEF NoWork
<1>5. \A q \in ToSet(s) : FalseBy(t, q, Len(t.lits))
  <2> TAKE q \in ToSet(s)
  <2>1. q \in Lits /\ IsFalse(t, q)
    BY ToSetFacts DEF Falsified
  <2> QED
    BY <2>1, TruthFacts DEF FalseBy
<1>6. MarkedIn(t, {}, Len(t.lits)) = {}
  BY DEF MarkedIn
<1>7. Counted(t, {}, x)
  BY <1>4, <1>6, FS_EmptySet DEF Counted, Falsified
<1>8. IsInjective(x.learned) /\ ToSet(x.learned) = {}
  BY <1>4 DEF IsInjective, ToSet
<1>9. Walking(t, {}, x)
  BY <1>1, <1>4, <1>5, <1>7, <1>8 DEF Walking, Fresh
<1> QED
  BY <1>3, <1>9

\* The marked positions that are not passed yet, of any level.
AheadIn(t, sn, n) == {i \in 1..n : VarOf(t.lits[i]) \in sn}

\* The walk stops at m.
Stops(t, sn, w, m) ==
    /\ m \in 1..Len(t.lits) /\ m \in 1..w.idx /\ m \in MarkedIn(t, sn, w.idx)
    /\ \A i \in AheadIn(t, sn, w.idx) : i <= m
    /\ LitLevel(t, t.lits[m]) = LevelOf(t)

\* The last marked position is of the current level, and is not its decision
\* if another one is marked.
LEMMA NextMarked ==
    ASSUME NEW t, WellFormed(t), Shaped(t), LevelOf(t) > 0, NEW sn, NEW w \in WorkType,
           Walking(t, sn, w), w.cur = <<>>, NEW A, A = AheadIn(t, sn, w.idx), NEW m, m = Max(A)
    PROVE  /\ A # {} /\ Stops(t, sn, w, m)
           /\ w.paths <= 1 \/ ReasonOf(t, t.lits[m]) # Decision
<1>1. PICK n \in Nat : n = w.idx
  BY WorkParts
<1>2. PICK C : C = MarkedIn(t, sn, n)
  OBVIOUS
<1>3. /\ IsFiniteSet(C) /\ w.paths = Cardinality(C) /\ w.paths >= 1
  BY <1>1, <1>2 DEF Walking, Counted, ToSet
<1>4. PICK N \in Nat : N = Len(t.lits) /\ n <= N
  BY <1>1, TrailParts DEF WellFormed, Walking
<1>5. C # {} /\ C \subseteq A /\ A \subseteq 1..n
  <2>1. C # {}
    BY <1>3, FS_EmptySet
  <2> QED
    BY <2>1, <1>1, <1>2 DEF MarkedIn, AheadIn
<1>6. A \subseteq Nat /\ A # {} /\ \A i \in A : i <= n
  <2>1. A # {}
    BY <1>5
  <2>2. \A i \in A : i \in 1..n
    BY <1>5
  <2>3. \A i \in 1..n : i \in Nat /\ i <= n
    BY <1>1
  <2> QED
    BY <2>1, <2>2, <2>3
<1>7. m \in A /\ \A i \in A : i <= m
  BY <1>6, MaxFacts
<1>8. m \in 1..n /\ m \in 1..N /\ VarOf(t.lits[m]) \in sn
  BY <1>1, <1>4, <1>5, <1>7 DEF AheadIn
<1>9. PICK K \in Nat : K = LevelOf(t) /\ K >= 1 /\ t.lim[K] \in Nat
  <2>1. LevelOf(t) \in Nat /\ LevelOf(t) \in 1..LevelOf(t)
    BY TrailParts DEF WellFormed, LevelOf
  <2>2. t.lim[LevelOf(t)] \in Nat
    BY <2>1, TrailParts DEF WellFormed, LevelOf
  <2> QED
    BY <2>1, <2>2
<1>10. PICK j \in C : j \in 1..N /\ j <= m
  <2>1. PICK j : j \in C
    BY <1>5
  <2>2. j \in A /\ j \in 1..n
    BY <2>1, <1>5
  <2> QED
    BY <2>1, <2>2, <1>1, <1>4, <1>7
<1>11. LitLevel(t, t.lits[j]) = K
  BY <1>2, <1>9 DEF MarkedIn
<1>12. /\ \A i \in 1..N : LitLevel(t, t.lits[i]) \in 0..K
       /\ \A i \in 1..N : K <= LitLevel(t, t.lits[i]) <=> t.lim[K] < i
  BY <1>4, <1>9 DEF WellFormed, LevelOf
<1>13. LitLevel(t, t.lits[m]) = K
  <2>1. t.lim[K] < j
    BY <1>9, <1>10, <1>11, <1>12
  <2>2. t.lim[K] < m /\ LitLevel(t, t.lits[m]) \in 0..K
    BY <2>1, <1>8, <1>9, <1>10, <1>12
  <2> QED
    BY <2>2, <1>8, <1>9, <1>12
<1>14. m \in C
  BY <1>2, <1>8, <1>9, <1>13 DEF MarkedIn
<1>15. ASSUME w.paths > 1
       PROVE  ReasonOf(t, t.lits[m]) # Decision
  <2>1. C # {m}
    <3> SUFFICES ASSUME C = {m} PROVE FALSE
      OBVIOUS
    <3>1. Cardinality(C) = 1
      BY FS_Singleton
    <3>2. PICK c : c = Cardinality(C)
      OBVIOUS
    <3>3. c > 1
      BY <3>2, <1>3, <1>15
    <3> QED
      BY <3>1, <3>2, <3>3
  <2>2. PICK k \in C : k # m
    BY <2>1, <1>14
  <2>3. k \in 1..N /\ k < m /\ LitLevel(t, t.lits[k]) = K
    BY SMTT(60), <2>2, <1>2, <1>4, <1>5, <1>7, <1>8, <1>9 DEF MarkedIn
  <2>4. t.lim[K] < k
    BY <2>3, <1>9, <1>12
  <2>5. ReasonOf(t, t.lits[m]) = Decision => m = t.lim[K] + 1
    BY <1>4, <1>8, <1>9, <1>13 DEF Shaped
  <2> QED
    BY <2>3, <2>4, <2>5, <1>8, <1>9
<1>16. Stops(t, sn, w, m)
  BY <1>1, <1>2, <1>4, <1>7, <1>8, <1>9, <1>13, <1>14 DEF Stops
<1>17. w.paths \in Nat
  BY <1>3, FS_CardinalityType
<1> QED
  BY <1>6, <1>15, <1>16, <1>17

(***************************************************************************)
(* Minimization under the trail t, with the work w.                         *)
(***************************************************************************)
Minimizing(t, w) ==
    /\ w.uip \in Lits /\ IsTrue(t, w.uip) /\ LitLevel(t, w.uip) = LevelOf(t)
    /\ IsInjective(w.kept) /\ IsInjective(w.rest)
    /\ \A q \in ToSet(w.kept) : q \notin ToSet(w.rest) /\ Lower(t, q)
    /\ \A q \in ToSet(w.rest) : Lower(t, q)
    /\ w.testing # 0 => w.rest # <<>> /\ w.testing = Head(w.rest)
    /\ \A q \in ToSet(w.stack) : IsFalse(t, q) /\ ReasonOf(t, q) # Decision
    /\ \A q \in ToSet(w.cur) : IsFalse(t, q)

\* The UIP is found.
LEMMA FoundMinimizes ==
    ASSUME NEW t, WellFormed(t), LevelOf(t) > 0, NEW sn, NEW w \in WorkType, Walking(t, sn, w),
           w.cur = <<>>, NEW m, Stops(t, sn, w, m), NEW p, p = t.lits[m],
           NEW x, x = [w EXCEPT !.idx = m - 1, !.paths = @ - 1, !.uip = p, !.rest = w.learned]
    PROVE  x \in WorkType /\ Minimizing(t, x)
<1>1. /\ m \in Nat /\ m - 1 \in Nat /\ m \in 1..Len(t.lits) /\ p \in Lits
      /\ LitLevel(t, p) = LevelOf(t) /\ IsTrue(t, p)
  <2>1. m \in 1..Len(t.lits) /\ LitLevel(t, p) = LevelOf(t)
    BY DEF Stops
  <2>2. p \in Lits
    BY <2>1, TrailParts DEF WellFormed
  <2>3. IsTrue(t, p)
    BY <2>1, <2>2, TruthFacts
  <2>4. m \in Nat /\ m - 1 \in Nat
    BY <2>1, TrailParts DEF WellFormed
  <2> QED
    BY <2>1, <2>2, <2>3, <2>4
<1>2. w.learned \in Seq(Lits) /\ w.paths - 1 \in Int
  BY WorkParts
<1>3. x \in WorkType
  BY <1>1, <1>2 DEF WorkType
<1>4. /\ x.uip = p /\ x.rest = w.learned /\ x.cur = w.cur /\ x.kept = w.kept
      /\ x.testing = w.testing /\ x.stack = w.stack
  BY DEF WorkType
<1>5. ToSet(<<>>) = {} /\ IsInjective(<<>>)
  BY DEF ToSet, IsInjective
<1>6. Minimizing(t, x)
  BY <1>1, <1>4, <1>5 DEF Minimizing, Walking, Fresh
<1> QED
  BY <1>3, <1>6

\* The literals of s are false since one of the first n positions.
AllFalseBy(t, s, n) == \A q \in ToSet(s) : FalseBy(t, q, n)

\* The walk goes on with the reason of a literal, its other literals s.
LEMMA ResolvedWalks ==
    ASSUME NEW t, WellFormed(t), LevelOf(t) > 0, NEW sn, NEW w \in WorkType, Walking(t, sn, w),
           w.cur = <<>>, w.paths - 1 > 0, NEW m, Stops(t, sn, w, m),
           NEW s \in Seq(Lits), AllFalseBy(t, s, m - 1), NEW s2, s2 = sn \ {VarOf(t.lits[m])},
           NEW x, x = [w EXCEPT !.idx = m - 1, !.paths = @ - 1, !.cur = s]
    PROVE  x \in WorkType /\ Walking(t, s2, x)
<1>1. PICK n \in Nat : n = w.idx
  BY WorkParts
<1>2. PICK C : C = MarkedIn(t, sn, n)
  OBVIOUS
<1>3. IsFiniteSet(C) /\ w.paths = Cardinality(C) /\ w.paths \in Int
  BY <1>1, <1>2, WorkParts DEF Walking, Counted
<1>4. PICK N \in Nat : N = Len(t.lits) /\ n <= N
  BY <1>1, TrailParts DEF WellFormed, Walking
<1>5. /\ m \in 1..N /\ m \in 1..n /\ m \in C /\ \A i \in AheadIn(t, sn, n) : i <= m
      /\ LitLevel(t, t.lits[m]) = LevelOf(t)
  BY <1>1, <1>2, <1>4 DEF Stops
<1>6. PICK k \in Nat : k = m - 1 /\ k <= N
  BY <1>5
<1>7. \A i \in 1..N : VarOf(t.lits[i]) = VarOf(t.lits[m]) <=> i = m
  BY <1>4, <1>5 DEF WellFormed
<1>8. x \in WorkType
  <2>1. w.paths - 1 \in Int /\ m - 1 \in Nat
    BY <1>3, <1>6
  <2> QED
    BY <2>1 DEF WorkType
<1>9. /\ x.idx = k /\ x.paths = w.paths - 1 /\ x.cur = s /\ x.learned = w.learned
      /\ x.kept = w.kept /\ x.testing = w.testing /\ x.stack = w.stack
  BY <1>6 DEF WorkType
<1>10. MarkedIn(t, s2, k) = C \ {m}
  <2>1. ASSUME NEW i \in MarkedIn(t, s2, k)
        PROVE  i \in C \ {m}
    <3>1. i \in 1..k /\ VarOf(t.lits[i]) \in sn /\ LitLevel(t, t.lits[i]) = LevelOf(t)
      BY <2>1 DEF MarkedIn
    <3>2. i \in 1..n /\ i # m
      BY <3>1, <1>5, <1>6
    <3> QED
      BY <3>1, <3>2, <1>2 DEF MarkedIn
  <2>2. ASSUME NEW i \in C \ {m}
        PROVE  i \in MarkedIn(t, s2, k)
    <3>1. i \in 1..n /\ VarOf(t.lits[i]) \in sn /\ LitLevel(t, t.lits[i]) = LevelOf(t)
      BY <2>2, <1>2 DEF MarkedIn
    <3>2. i <= m
      BY <3>1, <1>5 DEF AheadIn
    <3>3. i \in 1..k /\ i \in 1..N
      BY <2>2, <3>1, <3>2, <1>4, <1>5, <1>6
    <3>4. VarOf(t.lits[i]) # VarOf(t.lits[m])
      BY <2>2, <3>3, <1>7
    <3> QED
      BY <3>1, <3>3, <3>4 DEF MarkedIn
  <2> QED
    BY <2>1, <2>2
<1>11. IsFiniteSet(C \ {m}) /\ Cardinality(C \ {m}) = Cardinality(C) - 1
  BY <1>3, <1>5, FS_RemoveElement
<1>12. Counted(t, s2, x)
  <2>1. x.paths >= 1
    BY <1>3, <1>9
  <2> QED
    BY <2>1, <1>3, <1>9, <1>10, <1>11 DEF Counted
<1>13. \A q \in ToSet(x.cur) : FalseBy(t, q, x.idx)
  BY <1>6, <1>9 DEF AllFalseBy
<1>14. \A v \in s2 : \E i \in 1..x.idx : VarOf(t.lits[i]) = v
  <2> TAKE v \in s2
  <2>1. PICK i \in 1..n : VarOf(t.lits[i]) = v
    BY <1>1 DEF Walking
  <2>2. i \in AheadIn(t, sn, n) /\ i # m
    BY <2>1, <1>5, <1>7 DEF AheadIn
  <2>3. i \in 1..k
    BY <2>2, <1>5, <1>6
  <2> QED
    BY <2>1, <2>3, <1>9
<1>15. \A q \in ToSet(x.learned) : Lower(t, q) /\ VarOf(q) \in s2
  <2> TAKE q \in ToSet(x.learned)
  <2>1. Lower(t, q) /\ VarOf(q) \in sn
    BY <1>9 DEF Walking
  <2>2. LevelOf(t) \in Nat /\ LitLevel(t, q) # LevelOf(t)
    BY <2>1, TrailParts DEF WellFormed, LevelOf, Lower
  <2>3. VarOf(q) # VarOf(t.lits[m])
    BY <2>2, <1>5 DEF LitLevel
  <2> QED
    BY <2>1, <2>3
<1>16. Walking(t, s2, x)
  <2>1. IsInjective(x.learned) /\ Fresh(x) /\ x.idx \in 0..Len(t.lits)
    BY <1>4, <1>6, <1>9 DEF Walking, Fresh
  <2> QED
    BY <2>1, <1>12, <1>13, <1>14, <1>15 DEF Walking
<1> QED
  BY <1>8, <1>16

\* The literal at the head is kept, or dropped.
LEMMA ShiftMinimizes ==
    ASSUME NEW t, NEW w \in WorkType, Minimizing(t, w), w.rest # <<>>, NEW h, h = Head(w.rest),
           NEW x, x.uip = w.uip, x.kept \in {w.kept, Append(w.kept, h)}, x.rest = Tail(w.rest),
           x.testing = 0, x.stack \in {w.stack, <<>>}, x.cur \in {w.cur, <<>>}
    PROVE  Minimizing(t, x)
<1>1. w.rest \in Seq(Lits) /\ w.kept \in Seq(Lits)
  BY WorkParts
<1>2. PICK r : r = Tail(w.rest)
  OBVIOUS
<1>3. /\ h \in Lits /\ h \in ToSet(w.rest) /\ r \in Seq(Lits)
      /\ \A y : y \in ToSet(w.rest) <=> y = h \/ y \in ToSet(r)
      /\ IsInjective(w.rest) => IsInjective(r) /\ h \notin ToSet(r)
  <2>1. h \in Lits /\ h \in ToSet(w.rest) /\ r \in Seq(Lits)
    BY <1>1, <1>2, HeadFacts
  <2>2. \A y : y \in ToSet(w.rest) <=> y = h \/ y \in ToSet(r)
    BY <1>1, <1>2, HeadFacts
  <2>3. IsInjective(w.rest) => IsInjective(r) /\ h \notin ToSet(r)
    BY <1>1, <1>2, HeadFacts
  <2> QED
    BY <2>1, <2>2, <2>3
<1>4. PICK a : a = Append(w.kept, h)
  OBVIOUS
<1>5. /\ \A y : y \in ToSet(a) <=> y = h \/ y \in ToSet(w.kept)
      /\ IsInjective(w.kept) /\ h \notin ToSet(w.kept) => IsInjective(a)
  <2>1. w.kept \in Seq(Lits) /\ h \in Lits
    BY <1>1, <1>3
  <2>2. Lengthens(a, w.kept, h)
    BY <1>4, <2>1, AppendFacts
  <2> QED
    BY <2>2 DEF Lengthens
<1>6. IsInjective(r) /\ h \notin ToSet(r) /\ h \notin ToSet(w.kept) /\ Lower(t, h)
  BY <1>3 DEF Minimizing
<1>7. IsInjective(x.kept)
  BY <1>4, <1>5, <1>6 DEF Minimizing
<1>8. \A q \in ToSet(x.kept) : q \notin ToSet(r) /\ Lower(t, q)
  <2> TAKE q \in ToSet(x.kept)
  <2>1. q = h \/ q \in ToSet(w.kept)
    BY <1>4, <1>5
  <2> QED
    BY <2>1, <1>3, <1>6 DEF Minimizing
<1>9. \A q \in ToSet(r) : Lower(t, q)
  BY <1>3 DEF Minimizing
<1>10. ToSet(<<>>) = {}
  BY DEF ToSet
<1>11. /\ \A q \in ToSet(x.stack) : IsFalse(t, q) /\ ReasonOf(t, q) # Decision
       /\ \A q \in ToSet(x.cur) : IsFalse(t, q)
  BY <1>10 DEF Minimizing
<1>12. x.rest = r /\ x.uip = w.uip /\ x.testing = 0
  BY <1>2
<1> QED
  BY <1>6, <1>7, <1>8, <1>9, <1>11, <1>12 DEF Minimizing

\* The head is put to the test, the stack is read or lengthened.
LEMMA TestMinimizes ==
    ASSUME NEW t, NEW w \in WorkType, Minimizing(t, w),
           NEW x, x.uip = w.uip, x.kept = w.kept, x.rest = w.rest,
           \/ x.testing = w.testing
           \/ w.rest # <<>> /\ x.testing = Head(w.rest),
           \A q \in ToSet(x.stack) : \/ q \in ToSet(w.stack)
                                     \/ IsFalse(t, q) /\ ReasonOf(t, q) # Decision,
           \A q \in ToSet(x.cur) : IsFalse(t, q)
    PROVE  Minimizing(t, x)
BY DEF Minimizing

\* The clause s is learned at the trail t: false, the first literal alone at
\* the current level, a deepest other one in the second position.
Asserting(t, s) ==
    /\ s \in Seq(Lits) /\ IsInjective(s) /\ Len(s) >= 1
    /\ \A i \in 1..Len(s) : IsFalse(t, s[i]) /\ LitLevel(t, s[i]) > 0
    /\ \A i \in 1..Len(s) : LitLevel(t, s[i]) = LevelOf(t) <=> i = 1
    /\ \A i \in 2..Len(s) : LitLevel(t, s[i]) <= LitLevel(t, s[2])

\* The literals of the clause, before the second is chosen.
Gathered(t, s, kept) ==
    /\ s \in Seq(Lits) /\ IsInjective(s) /\ Len(s) = Len(kept) + 1
    /\ IsFalse(t, s[1]) /\ LitLevel(t, s[1]) = LevelOf(t)
    /\ \A i \in 2..Len(s) : Lower(t, s[i]) /\ s[i] \in ToSet(kept)
    /\ \A q \in ToSet(kept) : \E i \in 2..Len(s) : s[i] = q

LEMMA GatheredFacts ==
    ASSUME NEW t, WellFormed(t), LevelOf(t) > 0, NEW w \in WorkType, Minimizing(t, w),
           NEW s, s = <<-w.uip>> \o w.kept
    PROVE  Gathered(t, s, w.kept)
<1>1. w.kept \in Seq(Lits) /\ w.uip \in Lits
  BY WorkParts DEF Minimizing
<1>2. PICK p \in Lits : p = -w.uip
  BY <1>1, LitFacts
<1>3. PICK n \in Nat : n = Len(w.kept)
  BY <1>1, LenProperties
<1>4. /\ <<p>> \in Seq(Lits) /\ Len(<<p>>) = 1 /\ <<p>>[1] = p
  BY <1>2
<1>5. s \in Seq(Lits) /\ Len(s) = 1 + n
  BY <1>1, <1>2, <1>3, <1>4, ConcatProperties
<1>6. s[1] = p /\ \A i \in 2..(n + 1) : s[i] = w.kept[i - 1]
  BY <1>1, <1>2, <1>3, <1>4, ConcatProperties
<1>7. IsFalse(t, p) /\ LitLevel(t, p) = LevelOf(t)
  <2>1. IsTrue(t, w.uip) /\ LitLevel(t, w.uip) = LevelOf(t) /\ w.uip = -p
    BY <1>1, <1>2, LitFacts DEF Minimizing
  <2> QED
    BY <1>2, <2>1, TruthFacts
<1>8. DOMAIN w.kept = 1..n /\ DOMAIN s = 1..(n + 1)
  BY <1>1, <1>3, <1>5, LenProperties
<1>9. \A i \in 2..(n + 1) : s[i] \in ToSet(w.kept) /\ Lower(t, s[i])
  <2> TAKE i \in 2..(n + 1)
  <2>1. PICK k : k = i - 1 /\ k \in 1..n
    OBVIOUS
  <2>2. s[i] = w.kept[k]
    BY <2>1, <1>6
  <2>3. s[i] \in ToSet(w.kept)
    BY <2>1, <2>2, <1>8 DEF ToSet
  <2> QED
    BY <2>3 DEF Minimizing
<1>10. \A q \in ToSet(w.kept) : \E i \in 2..(n + 1) : s[i] = q
  <2> TAKE q \in ToSet(w.kept)
  <2>1. PICK k \in 1..n : w.kept[k] = q
    BY <1>8 DEF ToSet
  <2>2. PICK i : i = k + 1 /\ i \in 2..(n + 1) /\ i - 1 = k
    OBVIOUS
  <2> QED
    BY <2>1, <2>2, <1>6
<1>11. LevelOf(t) \in Nat
  BY TrailParts DEF WellFormed, LevelOf
<1>12. \A i \in 2..(n + 1) : s[i] # p
  <2> TAKE i \in 2..(n + 1)
  <2>1. PICK K \in Nat : K = LevelOf(t)
    BY <1>11
  <2>2. PICK k \in 1..(K - 1) : k = LitLevel(t, s[i])
    BY <1>9, <2>1 DEF Lower
  <2>3. k # K
    BY <2>1
  <2> QED
    BY <1>7, <2>1, <2>2, <2>3
<1>13. \A i, j \in 1..(n + 1) : s[i] = s[j] => i = j
  <2>1. \A i, j \in 1..n : w.kept[i] = w.kept[j] => i = j
    BY <1>8 DEF Minimizing, IsInjective
  <2>2. ASSUME NEW i \in 2..(n + 1), NEW j \in 2..(n + 1), s[i] = s[j]
        PROVE  i = j
    <3>1. PICK a \in 1..n : a = i - 1
      OBVIOUS
    <3>2. PICK b \in 1..n : b = j - 1
      OBVIOUS
    <3>3. w.kept[a] = w.kept[b]
      BY <3>1, <3>2, <2>2, <1>6
    <3>4. a = b
      BY <3>3, <2>1
    <3> QED
      BY <3>1, <3>2, <3>4
  <2>3. \A i \in 1..(n + 1) : i = 1 \/ i \in 2..(n + 1)
    OBVIOUS
  <2> QED
    BY <2>2, <2>3, <1>6, <1>12
<1>14. IsInjective(s)
  BY <1>8, <1>13 DEF IsInjective
<1>15. Len(s) = n + 1
  BY <1>5
<1> QED
  BY <1>3, <1>5, <1>6, <1>7, <1>9, <1>10, <1>14, <1>15 DEF Gathered

\* The second literal is one of the deepest.
LEMMA LearnedAsserts ==
    ASSUME WellFormed(trail), LevelOf(trail) > 0, work \in WorkType, Minimizing(trail, work)
    PROVE  Asserting(trail, LearnedClause) /\ Lbd(LearnedClause) \in Nat
<1>1. PICK s : s = <<-work.uip>> \o work.kept
  OBVIOUS
<1>2. Gathered(trail, s, work.kept)
  BY <1>1, GatheredFacts
<1>3. work.kept \in Seq(Lits)
  BY WorkParts
<1>4. PICK n \in Nat : n = Len(work.kept) /\ Len(s) = n + 1
  BY <1>2, <1>3, LenProperties DEF Gathered
<1>5. LevelOf(trail) \in Nat
  BY TrailParts DEF WellFormed, LevelOf
<1>6. ASSUME work.kept = <<>>
      PROVE  Asserting(trail, LearnedClause)
  <2>1. LearnedClause = s /\ Len(s) = 1
    BY <1>1, <1>4, <1>6 DEF LearnedClause
  <2>2. Asserting(trail, s)
    BY SMTT(60), <1>2, <2>1, <1>5 DEF Asserting, Gathered
  <2> QED
    BY <2>1, <2>2
<1>7. ASSUME work.kept # <<>>
      PROVE  Asserting(trail, LearnedClause)
  <2>1. n >= 1
    BY <1>3, <1>4, <1>7, EmptySeq, LenProperties
  <2>2. PICK D : D = {LitLevel(trail, l) : l \in ToSet(work.kept)}
    OBVIOUS
  <2>3. PICK d : d = Max(D)
    OBVIOUS
  <2>4. \A i \in 2..(n + 1) : LitLevel(trail, s[i]) \in D
    BY <1>2, <1>4, <2>2 DEF Gathered
  <2>5. \A x \in D : \E i \in 2..(n + 1) : LitLevel(trail, s[i]) = x
    BY <1>2, <1>4, <2>2 DEF Gathered
  <2>6. \A i \in 2..(n + 1) : LitLevel(trail, s[i]) \in 1..(LevelOf(trail) - 1)
    BY <1>2, <1>4 DEF Gathered, Lower
  <2>7. /\ D \subseteq Nat /\ \A x \in D : x <= LevelOf(trail)
        /\ D # {}
    <3>1. 2 \in 2..(n + 1)
      BY <2>1
    <3>2. \A x \in D : x \in 1..(LevelOf(trail) - 1)
      BY <2>5, <2>6
    <3>3. \A x \in 1..(LevelOf(trail) - 1) : x \in Nat /\ x <= LevelOf(trail)
      BY <1>5
    <3> QED
      BY <3>1, <3>2, <3>3, <2>4
  <2>8. d \in D /\ \A x \in D : x <= d
    BY <2>3, <2>7, <1>5, MaxFacts
  <2>9. PICK I : I = {i \in 2..Len(s) : LitLevel(trail, s[i]) = d}
    OBVIOUS
  <2>10. I \subseteq Nat /\ I # {}
    <3>1. \E i \in 2..(n + 1) : LitLevel(trail, s[i]) = d
      BY <2>5, <2>8
    <3> QED
      BY <3>1, <2>9, <1>4
  <2>11. PICK k : k = Min(I) /\ k \in 2..Len(s) /\ LitLevel(trail, s[k]) = d
    BY <2>9, <2>10, MinFacts
  <2>12. PICK q : q = Swapped(s, 2, k) /\ q = LearnedClause
    BY <1>1, <1>7, <2>2, <2>3, <2>9, <2>11 DEF LearnedClause
  <2>13. s \in Seq(Lits) /\ 2 \in 1..Len(s) /\ k \in 1..Len(s)
    BY <1>2, <1>4, <2>1, <2>11 DEF Gathered
  <2>14. IsSwap(q, s, 2, k)
    BY <2>12, <2>13, SwapLits
  <2>15. /\ q \in Seq(Lits) /\ Len(q) = n + 1 /\ IsInjective(q)
         /\ q[2] = s[k] /\ q[k] = s[2]
         /\ \A i \in 1..(n + 1) : i # 2 /\ i # k => q[i] = s[i]
    BY <2>14, <1>2, <1>4 DEF IsSwap, Gathered
  <2>16. 1 # 2 /\ 1 # k /\ 1 \in 1..(n + 1) /\ k \in 2..(n + 1)
    BY <1>4, <2>11
  <2>17. q[1] = s[1]
    BY <2>15, <2>16
  <2>18. \A i \in 2..(n + 1) : \E j \in 2..(n + 1) : q[i] = s[j]
    <3> TAKE i \in 2..(n + 1)
    <3>1. i \in 1..(n + 1) /\ 2 \in 2..(n + 1)
      BY <2>1
    <3> QED
      BY <3>1, <2>15, <2>16
  <2>19. \A i \in 2..(n + 1) : /\ IsFalse(trail, q[i])
                               /\ LitLevel(trail, q[i]) \in 1..(LevelOf(trail) - 1)
                               /\ LitLevel(trail, q[i]) <= d
    <3> TAKE i \in 2..(n + 1)
    <3>1. PICK j \in 2..(n + 1) : q[i] = s[j]
      BY <2>18
    <3>2. IsFalse(trail, s[j]) /\ LitLevel(trail, s[j]) \in 1..(LevelOf(trail) - 1)
      BY <1>2, <1>4 DEF Gathered, Lower
    <3>3. LitLevel(trail, s[j]) <= d
      BY <2>4, <2>8
    <3> QED
      BY <3>1, <3>2, <3>3
  <2>20. IsFalse(trail, q[1]) /\ LitLevel(trail, q[1]) = LevelOf(trail)
    BY <2>17, <1>2 DEF Gathered
  <2>21. \A i \in 1..(n + 1) : i = 1 \/ i \in 2..(n + 1)
    OBVIOUS
  <2>22. \A i \in 1..(n + 1) : IsFalse(trail, q[i]) /\ LitLevel(trail, q[i]) > 0
    BY <2>19, <2>20, <2>21, <1>5
  <2>23. \A i \in 1..(n + 1) : LitLevel(trail, q[i]) = LevelOf(trail) <=> i = 1
    <3> TAKE i \in 1..(n + 1)
    <3>1. CASE i = 1
      BY <3>1, <2>20
    <3>2. CASE i \in 2..(n + 1)
      BY <3>2, <2>19, <1>5
    <3> QED
      BY <3>1, <3>2, <2>21
  <2>24. Asserting(trail, q)
    BY <2>1, <2>11, <2>15, <2>19, <2>22, <2>23 DEF Asserting
  <2> QED
    BY <2>12, <2>24
<1>8. Asserting(trail, LearnedClause)
  BY <1>6, <1>7
<1>9. Lbd(LearnedClause) \in Nat
  <2>1. PICK q : q = LearnedClause /\ q \in Seq(Lits)
    BY <1>8 DEF Asserting
  <2>2. PICK D : D = {LitLevel(trail, l) : l \in ToSet(q)}
    OBVIOUS
  <2>3. D \subseteq 0..LevelOf(trail)
    <3> SUFFICES ASSUME NEW l \in ToSet(q)
                 PROVE  LitLevel(trail, l) \in 0..LevelOf(trail)
      BY <2>2
    <3>1. PICK i \in 1..Len(q) : q[i] = l
      BY <2>1, ToSetFacts
    <3>2. l \in Lits /\ IsFalse(trail, l)
      BY <2>1, <3>1, <1>8, ElementOfSeq DEF Asserting
    <3> QED
      BY <3>2, TruthFacts
  <2>4. IsFiniteSet(D)
    <3>1. IsFiniteSet(0..LevelOf(trail))
      BY <1>5, FS_Interval
    <3> QED
      BY <2>3, <3>1, FS_Subset
  <2> QED
    BY <2>1, <2>2, <2>4, FS_CardinalityType DEF Lbd
<1> QED
  BY <1>8, <1>9

(***************************************************************************)
(* The search for the assumptions a clash is blamed on.                     *)
(***************************************************************************)
\* The marks are of the literal blamed, or of positions above the root that the
\* search has not passed.
Tracing(t, sn, w) ==
    /\ LevelOf(t) > 0
    /\ w.idx \in t.lim[1]..Len(t.lits)
    /\ w.uip \in Lits
    /\ \A v \in sn : v = VarOf(w.uip) \/ \E i \in (t.lim[1] + 1)..w.idx : VarOf(t.lits[i]) = v

LEMMA FirstLimit ==
    ASSUME NEW t, WellFormed(t), LevelOf(t) > 0
    PROVE  /\ t.lim[1] \in Nat /\ t.lim[1] <= Len(t.lits) /\ Len(t.lits) \in Nat
           /\ \A i \in 1..Len(t.lits) : LitLevel(t, t.lits[i]) > 0 => t.lim[1] < i
<1>1. LevelOf(t) \in Nat /\ 1 \in 1..Len(t.lim) /\ Len(t.lits) \in Nat /\ t.qhead \in Nat
  BY TrailParts DEF WellFormed, LevelOf
<1>2. t.lim[1] \in Nat
  BY <1>1, TrailParts DEF WellFormed
<1>3. t.lim[1] <= t.qhead /\ t.qhead <= Len(t.lits)
  BY <1>1 DEF WellFormed
<1>4. \A i \in 1..Len(t.lits) : LitLevel(t, t.lits[i]) > 0 => t.lim[1] < i
  BY <1>1 DEF WellFormed
<1> QED
  BY <1>1, <1>2, <1>3, <1>4

LEMMA BeginTraces ==
    ASSUME WellFormed(trail), LevelOf(trail) > 0, AnalyzeTypeOK, seen = {}, NEW p \in Lits,
           BeginBlame(p), trail' = trail
    PROVE  AnalyzeTypeOK' /\ Tracing(trail, seen, work)'
<1>1. PICK x : x = work' /\ x = [NoWork EXCEPT !.idx = Len(trail.lits), !.uip = p]
  BY DEF BeginBlame
<1>2. NoWork \in WorkType
  <2>1. <<>> \in Seq(Lits)
    OBVIOUS
  <2> QED
    BY <2>1 DEF NoWork, WorkType
<1>3. trail.lim[1] \in Nat /\ trail.lim[1] <= Len(trail.lits) /\ Len(trail.lits) \in Nat
  BY FirstLimit
<1>4. x \in WorkType
  BY <1>1, <1>2, <1>3 DEF WorkType
<1>5. x.idx = Len(trail.lits) /\ x.uip = p
  BY <1>1 DEF NoWork
<1>6. PICK s2 : s2 = seen' /\ s2 = {VarOf(p)}
  BY DEF BeginBlame
<1>7. VarOf(p) \in Vars
  BY LitFacts
<1>8. Tracing(trail, s2, x)
  BY <1>3, <1>5, <1>6 DEF Tracing
<1>9. AnalyzeTypeOK'
  BY <1>1, <1>4, <1>6, <1>7 DEF AnalyzeTypeOK, BeginBlame
<1> QED
  BY <1>1, <1>6, <1>8, <1>9

LEMMA BlameTraces ==
    ASSUME PropInv, AnalyzeTypeOK, Tracing(trail, seen, work), Blame, trail' = trail
    PROVE  AnalyzeTypeOK' /\ Tracing(trail, seen, work)'
<1>1. PICK x : x = work' /\ x = [work EXCEPT !.idx = @ - 1]
  BY DEF Blame
<1>2. WellFormed(trail) /\ LevelOf(trail) > 0
  BY TypedDb DEF Tracing
<1>3. PICK a \in Nat : /\ a = trail.lim[1]
                       /\ \A i \in 1..Len(trail.lits) : LitLevel(trail, trail.lits[i]) > 0 => a < i
  BY <1>2, FirstLimit
<1>4. PICK N \in Nat : N = Len(trail.lits)
  BY <1>2, FirstLimit
<1>5. PICK m \in 1..N : m = work.idx /\ m > a
  <2>1. work.idx \in a..N /\ work.idx > a
    BY <1>3, <1>4 DEF Tracing, Blame, Blaming
  <2> QED
    BY <2>1
<1>6. x \in WorkType /\ x.idx = m - 1 /\ x.uip = work.uip
  <2>1. m - 1 \in Nat /\ work \in WorkType
    BY DEF AnalyzeTypeOK
  <2> QED
    BY <1>1, <1>5, <2>1 DEF WorkType
<1>7. PICK p : p = trail.lits[m]
  OBVIOUS
<1>8. p \in Lits
  BY <1>2, <1>4, <1>7, TrailParts DEF WellFormed
<1>9. PICK s2 : /\ s2 = seen'
                /\ s2 = IF VarOf(p) \in seen THEN (seen \cup Causes(p)) \ {VarOf(p)} ELSE seen
  BY <1>5, <1>7 DEF Blame
<1>10. \A v \in Causes(p) : v \in Vars /\ \E i \in (a + 1)..(m - 1) : VarOf(trail.lits[i]) = v
  <2> TAKE v \in Causes(p)
  <2>1. ReasonOf(trail, p) # Decision
    BY DEF Causes
  <2>2. PICK s : s = ReasonTail(trail, p)
    OBVIOUS
  <2>3. PICK q \in ToSet(s) : v = VarOf(q) /\ LitLevel(trail, q) > 0
    BY <2>1, <2>2 DEF Causes
  <2>4. m \in 1..Len(trail.lits) /\ VarOf(p) = VarOf(trail.lits[m])
    BY <1>4, <1>7
  <2>5. s \in Seq(Lits) /\ \A k \in ToSet(s) : \E j \in 1..(m - 1) : trail.lits[j] = -k
    BY <1>8, <2>1, <2>2, <2>4, TailFacts
  <2>6. q \in Lits
    BY <2>3, <2>5, ToSetFacts
  <2>7. PICK j \in 1..(m - 1) : trail.lits[j] = -q
    BY <2>3, <2>5
  <2>8. VarOf(-q) = VarOf(q) /\ VarOf(q) \in Vars
    BY <2>6, LitFacts
  <2>9. LitLevel(trail, trail.lits[j]) > 0 /\ j \in 1..Len(trail.lits)
    BY <2>3, <2>7, <2>8, <1>4 DEF LitLevel
  <2>10. j \in (a + 1)..(m - 1)
    <3>1. a < j
      BY <2>9, <1>3
    <3> QED
      BY <3>1, <1>5, <2>7
  <2> QED
    BY <2>3, <2>7, <2>8, <2>10
<1>11. \A v \in s2 : v \in seen \/ v \in Causes(p)
  BY <1>9
<1>12. VarOf(p) \notin s2
  BY <1>9
<1>13. \A v \in s2 : v = VarOf(x.uip) \/ \E i \in (a + 1)..(m - 1) : VarOf(trail.lits[i]) = v
  <2> TAKE v \in s2
  <2>1. CASE v \in Causes(p)
    BY <2>1, <1>10
  <2>2. CASE v \in seen
    <3>1. CASE v = VarOf(work.uip)
      BY <3>1, <1>6
    <3>2. ASSUME NEW i \in (a + 1)..m, VarOf(trail.lits[i]) = v
          PROVE  i \in (a + 1)..(m - 1)
      <4>1. i # m
        BY <3>2, <1>7, <1>12
      <4> QED
        BY <4>1
    <3> QED
      BY <2>2, <3>1, <3>2, <1>3, <1>5 DEF Tracing
  <2> QED
    BY <2>1, <2>2, <1>11
<1>14. x.idx \in a..N
  BY <1>5, <1>6
<1>15. Tracing(trail, s2, x)
  BY <1>2, <1>3, <1>4, <1>6, <1>13, <1>14 DEF Tracing
<1>16. s2 \subseteq Vars
  BY <1>10, <1>11 DEF AnalyzeTypeOK
<1>17. AnalyzeTypeOK'
  BY <1>1, <1>6, <1>9, <1>16 DEF AnalyzeTypeOK, Blame
<1> QED
  BY <1>1, <1>9, <1>15, <1>17

\* All marks are gone at the end.
LEMMA EndTraces ==
    ASSUME WellFormed(trail), AnalyzeTypeOK, Tracing(trail, seen, work), EndBlame
    PROVE  AnalyzeTypeOK' /\ seen' = {}
<1>1. NoWork \in WorkType
  <2>1. <<>> \in Seq(Lits)
    OBVIOUS
  <2> QED
    BY <2>1 DEF NoWork, WorkType
<1>2. PICK a \in Nat : a = trail.lim[1]
  BY FirstLimit DEF Tracing
<1>3. work.idx <= a /\ work.idx \in Nat
  BY <1>2, WorkParts DEF EndBlame, AnalyzeTypeOK
<1>4. \A v \in seen : v = VarOf(work.uip)
  BY <1>2, <1>3 DEF Tracing
<1>5. seen' = {}
  BY <1>4 DEF EndBlame
<1> QED
  BY <1>1, <1>5 DEF AnalyzeTypeOK, EndBlame

(***************************************************************************)
(* What holds while a conflict is analyzed.                                 *)
(***************************************************************************)
AnalyzeInv ==
    /\ seen \subseteq toclear
    /\ step = "walk" => Walking(trail, seen, work)
    /\ step \in {"minimize", "learn"} => Minimizing(trail, work)
    /\ step = "learn" => seen = {} /\ toclear = {}

AnalyzeSteps == step \in {"walk", "minimize", "learn"} /\ AnalyzeTypeOK /\ AnalyzeInv

LEMMA BeginKeeps ==
    ASSUME PropInv, ConflictRight, conflict # <<>>, AnalyzeTypeOK, seen = {}, BeginAnalyze,
           trail' = trail
    PROVE  AnalyzeSteps'
<1>1. PICK x : x = work' /\ x = [NoWork EXCEPT !.cur = conflict, !.idx = Len(trail.lits)]
  BY DEF BeginAnalyze
<1>2. WellFormed(trail) /\ conflict \in Seq(Lits) /\ Falsified(trail, conflict)
  BY TypedDb DEF ConflictRight
<1>3. x \in WorkType /\ Walking(trail, {}, x)
  BY <1>1, <1>2, BeginWalks
<1> QED
  BY <1>1, <1>3 DEF AnalyzeSteps, AnalyzeTypeOK, AnalyzeInv, BeginAnalyze

LEMMA TouchKeeps ==
    ASSUME PropInv, LevelOf(trail) > 0, AnalyzeSteps, Touch, trail' = trail
    PROVE  AnalyzeSteps'
<1>1. PICK w : w = work
  OBVIOUS
<1>2. PICK q : q = Head(w.cur)
  OBVIOUS
<1>3. /\ w \in WorkType /\ Walking(trail, seen, w) /\ w.cur # <<>> /\ WellFormed(trail)
      /\ seen \subseteq Vars /\ toclear \subseteq Vars /\ seen \subseteq toclear
      /\ step = "walk" /\ step' = "walk"
  BY <1>1, TypedDb DEF AnalyzeSteps, AnalyzeTypeOK, AnalyzeInv, Touch
<1>4. w.cur \in Seq(Lits)
  BY <1>3, WorkParts
<1>5. q \in Lits
  BY <1>2, <1>3, <1>4, HeadFacts
<1>6. VarOf(q) \in Vars
  BY <1>5, LitFacts
<1>7. /\ seen' \subseteq Vars /\ toclear' \subseteq Vars /\ seen' \subseteq toclear'
      /\ work' \in WorkType /\ Walking(trail, seen', work')
  <2>1. CASE ~Unmarked(q) /\ work' = [work EXCEPT !.cur = Tail(@)] /\ UNCHANGED <<seen, toclear>>
    <3>1. PICK x : x = work' /\ x = [w EXCEPT !.cur = Tail(@)]
      BY <2>1, <1>1
    <3>2. VarOf(q) \in seen \/ ~(LitLevel(trail, q) > 0)
      BY <2>1 DEF Unmarked
    <3>3. x \in WorkType /\ Walking(trail, seen, x)
      BY <3>1, <3>2, <1>2, <1>3, SkipWalks
    <3> QED
      BY <3>1, <3>3, <2>1, <1>3
  <2>2. CASE /\ Unmarked(q) /\ OfLevel(q) /\ Mark(q)
             /\ work' = [work EXCEPT !.cur = Tail(@), !.paths = @ + 1]
    <3>1. PICK x : x = work' /\ x = [w EXCEPT !.cur = Tail(@), !.paths = @ + 1]
      BY <2>2, <1>1
    <3>2. PICK s2 : s2 = seen' /\ s2 = seen \cup {VarOf(q)}
      BY <2>2 DEF Mark
    <3>3. VarOf(q) \notin seen /\ LitLevel(trail, q) >= LevelOf(trail)
      BY <2>2 DEF Unmarked, OfLevel
    <3>4. x \in WorkType /\ Walking(trail, s2, x)
      BY <3>1, <3>2, <3>3, <1>2, <1>3, CountWalks
    <3> QED
      BY <3>1, <3>2, <3>4, <2>2, <1>3, <1>6 DEF Mark
  <2>3. CASE /\ Unmarked(q) /\ ~OfLevel(q) /\ Mark(q)
             /\ work' = [work EXCEPT !.cur = Tail(@), !.learned = Append(@, q)]
    <3>1. PICK x : x = work' /\ x = [w EXCEPT !.cur = Tail(@), !.learned = Append(@, q)]
      BY <2>3, <1>1
    <3>2. PICK s2 : s2 = seen' /\ s2 = seen \cup {VarOf(q)}
      BY <2>3 DEF Mark
    <3>3. VarOf(q) \notin seen /\ LitLevel(trail, q) > 0 /\ ~(LitLevel(trail, q) >= LevelOf(trail))
      BY <2>3 DEF Unmarked, OfLevel
    <3>4. x \in WorkType /\ Walking(trail, s2, x)
      BY <3>1, <3>2, <3>3, <1>2, <1>3, LearnWalks
    <3> QED
      BY <3>1, <3>2, <3>4, <2>3, <1>3, <1>6 DEF Mark
  <2> QED
    BY <2>1, <2>2, <2>3, <1>1, <1>2 DEF Touch
<1> QED
  BY <1>3, <1>7 DEF AnalyzeSteps, AnalyzeTypeOK, AnalyzeInv

LEMMA WalkKeeps ==
    ASSUME PropInv, Shaped(trail), LevelOf(trail) > 0, AnalyzeSteps, Walk, trail' = trail
    PROVE  AnalyzeSteps'
<1>1. PICK w : w = work
  OBVIOUS
<1>2. /\ w \in WorkType /\ Walking(trail, seen, w) /\ w.cur = <<>> /\ WellFormed(trail)
      /\ seen \subseteq Vars /\ toclear \subseteq Vars /\ seen \subseteq toclear
      /\ step = "walk"
  BY <1>1, TypedDb DEF AnalyzeSteps, AnalyzeTypeOK, AnalyzeInv, Walk
<1>3. PICK m : m = Max(Ahead)
  OBVIOUS
<1>4. PICK p : p = trail.lits[m]
  OBVIOUS
<1>5. Ahead = AheadIn(trail, seen, w.idx)
  BY <1>1 DEF Ahead, AheadIn
<1>6. Stops(trail, seen, w, m)
  BY <1>2, <1>3, <1>5, NextMarked
<1>7. /\ toclear' = toclear /\ seen' = seen \ {VarOf(p)}
      /\ \/ /\ work.paths - 1 <= 0
            /\ step' = "minimize"
            /\ work' = [work EXCEPT !.idx = m - 1, !.paths = @ - 1, !.uip = p,
                                    !.rest = work.learned]
         \/ /\ work.paths - 1 > 0 /\ ReasonOf(trail, p) # Decision
            /\ work' = [work EXCEPT !.idx = m - 1, !.paths = @ - 1, !.cur = ReasonTail(trail, p)]
            /\ UNCHANGED step
  BY <1>3, <1>4 DEF Walk
<1>8. CASE /\ step' = "minimize"
           /\ work' = [work EXCEPT !.idx = m - 1, !.paths = @ - 1, !.uip = p,
                                   !.rest = work.learned]
  <2>1. PICK x : /\ x = work'
                 /\ x = [w EXCEPT !.idx = m - 1, !.paths = @ - 1, !.uip = p, !.rest = w.learned]
    BY <1>1, <1>8
  <2>2. x \in WorkType /\ Minimizing(trail, x)
    BY ZenonT(60), <2>1, <1>2, <1>4, <1>6, FoundMinimizes
  <2> QED
    BY <2>1, <2>2, <1>2, <1>7, <1>8 DEF AnalyzeSteps, AnalyzeTypeOK, AnalyzeInv
<1>9. CASE /\ work.paths - 1 > 0 /\ ReasonOf(trail, p) # Decision
           /\ work' = [work EXCEPT !.idx = m - 1, !.paths = @ - 1, !.cur = ReasonTail(trail, p)]
           /\ UNCHANGED step
  <2>1. PICK s : s = ReasonTail(trail, p)
    OBVIOUS
  <2>2. PICK x : x = work' /\ x = [w EXCEPT !.idx = m - 1, !.paths = @ - 1, !.cur = s]
    BY <1>1, <1>9, <2>1
  <2>3. m \in 1..Len(trail.lits)
    BY <1>6 DEF Stops
  <2>4. p \in Lits
    BY <2>3, <1>2, <1>4, TrailParts DEF WellFormed
  <2>5. s \in Seq(Lits) /\ \A k \in ToSet(s) : \E j \in 1..(m - 1) : trail.lits[j] = -k
    BY <2>1, <2>3, <2>4, <1>4, <1>9, TailFacts
  <2>6. PICK s2 : s2 = seen' /\ s2 = seen \ {VarOf(trail.lits[m])}
    BY <1>4, <1>7
  <2>7. w.paths - 1 > 0
    BY <1>1, <1>9
  <2>8. AllFalseBy(trail, s, m - 1)
    BY <2>5 DEF AllFalseBy, FalseBy
  <2>9. x \in WorkType /\ Walking(trail, s2, x)
    <3>1. /\ s \in Seq(Lits) /\ WellFormed(trail) /\ w \in WorkType /\ Walking(trail, seen, w)
          /\ w.cur = <<>>
      BY <2>5, <1>2
    <3> QED
      BY <3>1, <2>2, <2>8, <2>6, <2>7, <1>6, ResolvedWalks
  <2> QED
    BY <2>2, <2>6, <2>9, <1>2, <1>7, <1>9 DEF AnalyzeSteps, AnalyzeTypeOK, AnalyzeInv
<1> QED
  BY <1>7, <1>8, <1>9

LEMMA MinimizeKeeps ==
    ASSUME PropInv, AnalyzeSteps, trail' = trail,
           KeepDecision \/ StartTest \/ ReadReason \/ DropRedundant
    PROVE  AnalyzeSteps'
<1>1. PICK w : w = work
  OBVIOUS
<1>2. PICK x : x = work'
  OBVIOUS
<1>3. /\ w \in WorkType /\ Minimizing(trail, w) /\ step = "minimize" /\ step' = "minimize"
      /\ UNCHANGED <<seen, toclear>>
  BY <1>1 DEF AnalyzeSteps, AnalyzeTypeOK, AnalyzeInv, KeepDecision, StartTest, ReadReason,
              DropRedundant, AtNext, Testing
<1>4. /\ w.rest \in Seq(Lits) /\ w.kept \in Seq(Lits) /\ w.stack \in Seq(Lits)
  BY <1>3, WorkParts
<1>5. ASSUME w.rest # <<>>
      PROVE  /\ Head(w.rest) \in Lits /\ Tail(w.rest) \in Seq(Lits) /\ Lower(trail, Head(w.rest))
             /\ Append(w.kept, Head(w.rest)) \in Seq(Lits)
  <2>1. PICK h : h = Head(w.rest)
    OBVIOUS
  <2>2. PICK r : r = Tail(w.rest)
    OBVIOUS
  <2>3. h \in Lits /\ h \in ToSet(w.rest) /\ r \in Seq(Lits)
    BY <1>4, <1>5, <2>1, <2>2, HeadFacts
  <2>4. Lower(trail, h)
    BY <2>3, <1>3 DEF Minimizing
  <2>5. Append(w.kept, h) \in Seq(Lits)
    BY <2>3, <1>4
  <2> QED
    BY <2>1, <2>2, <2>3, <2>4, <2>5
<1>6. x \in WorkType /\ Minimizing(trail, x)
  <2>1. CASE KeepDecision
    <3>1. PICK h : h = Head(w.rest) /\ w.rest # <<>> /\ w.testing = 0
      BY <2>1, <1>1 DEF KeepDecision, AtNext
    <3>2. x = [w EXCEPT !.kept = Append(@, h), !.rest = Tail(@)]
      BY <3>1, <2>1, <1>1, <1>2 DEF KeepDecision
    <3>3. x \in WorkType
      BY <3>1, <3>2, <1>3, <1>5 DEF WorkType
    <3>4. /\ x.uip = w.uip /\ x.kept = Append(w.kept, h) /\ x.rest = Tail(w.rest) /\ x.testing = 0
          /\ x.stack = w.stack /\ x.cur = w.cur
      BY <3>1, <3>2, <1>3 DEF WorkType
    <3> QED
      BY <3>1, <3>3, <3>4, <1>3, ShiftMinimizes
  <2>2. CASE StartTest
    <3>1. PICK h : h = Head(w.rest) /\ w.rest # <<>> /\ ReasonOf(trail, h) # Decision
      BY <2>2, <1>1 DEF StartTest, AtNext
    <3>2. x = [w EXCEPT !.testing = h, !.stack = <<h>>, !.marks = {}]
      BY <3>1, <2>2, <1>1, <1>2 DEF StartTest
    <3>3. h \in Lits /\ Lower(trail, h) /\ <<h>> \in Seq(Lits)
      BY <3>1, <1>5
    <3>4. x \in WorkType
      BY <3>2, <3>3, <1>3 DEF WorkType
    <3>5. /\ x.uip = w.uip /\ x.kept = w.kept /\ x.rest = w.rest /\ x.testing = h
          /\ x.stack = <<h>> /\ x.cur = w.cur
      BY <3>2, <1>3 DEF WorkType
    <3>6. \A q \in ToSet(x.stack) : IsFalse(trail, q) /\ ReasonOf(trail, q) # Decision
      BY <3>1, <3>3, <3>5 DEF ToSet, Lower
    <3>7. \A q \in ToSet(x.cur) : IsFalse(trail, q)
      BY <3>5, <1>3 DEF Minimizing
    <3> QED
      BY <3>1, <3>4, <3>5, <3>6, <3>7, <1>3, TestMinimizes
  <2>3. CASE ReadReason
    <3>1. PICK e : e = Last(w.stack)
      OBVIOUS
    <3>2. PICK f : f = Front(w.stack)
      OBVIOUS
    <3>3. PICK s : s = ReasonTail(trail, e)
      OBVIOUS
    <3>4. w.stack # <<>> /\ x = [w EXCEPT !.stack = f, !.cur = s]
      BY <3>1, <3>2, <3>3, <2>3, <1>1, <1>2 DEF ReadReason
    <3>5. e \in Lits /\ e \in ToSet(w.stack) /\ f \in Seq(Lits) /\ \A q \in ToSet(f) : q \in ToSet(w.stack)
      BY <3>1, <3>2, <3>4, <1>4, LastFacts
    <3>6. WellFormed(trail) /\ IsFalse(trail, e) /\ ReasonOf(trail, e) # Decision
      BY <3>5, <1>3, TypedDb DEF Minimizing
    <3>7. PICK i \in 1..Len(trail.lits) : trail.lits[i] = -e
      BY <3>5, <3>6, TruthFacts
    <3>8. VarOf(e) = VarOf(trail.lits[i])
      BY <3>5, <3>7, LitFacts
    <3>9. s \in Seq(Lits) /\ \A k \in ToSet(s) : \E j \in 1..(i - 1) : trail.lits[j] = -k
      BY <3>3, <3>5, <3>6, <3>8, TailFacts
    <3>10. \A k \in ToSet(s) : IsFalse(trail, k)
      <4> TAKE k \in ToSet(s)
      <4>1. k \in Lits
        BY <3>9, ToSetFacts
      <4>2. PICK j \in 1..(i - 1) : trail.lits[j] = -k
        BY <3>9
      <4>3. j \in 1..Len(trail.lits)
        BY <3>6, TrailParts DEF WellFormed
      <4> QED
        BY <4>1, <4>2, <4>3, <3>6, TruthFacts
    <3>11. x \in WorkType
      BY <3>4, <3>5, <3>9, <1>3 DEF WorkType
    <3>12. /\ x.uip = w.uip /\ x.kept = w.kept /\ x.rest = w.rest /\ x.testing = w.testing
           /\ x.stack = f /\ x.cur = s
      BY <3>4, <1>3 DEF WorkType
    <3> QED
      BY <3>5, <3>10, <3>11, <3>12, <1>3, TestMinimizes
  <2>4. CASE DropRedundant
    <3>1. w.testing # 0 /\ x = [w EXCEPT !.testing = 0, !.rest = Tail(@)]
      BY <2>4, <1>1, <1>2 DEF DropRedundant, Testing
    <3>2. w.rest # <<>>
      BY <3>1, <1>3 DEF Minimizing
    <3>3. x \in WorkType
      BY <3>1, <3>2, <1>3, <1>5 DEF WorkType
    <3>4. /\ x.uip = w.uip /\ x.kept = w.kept /\ x.rest = Tail(w.rest) /\ x.testing = 0
          /\ x.stack = w.stack /\ x.cur = w.cur
      BY <3>1, <1>3 DEF WorkType
    <3> QED
      BY <3>2, <3>3, <3>4, <1>3, ShiftMinimizes
  <2> QED
    BY <2>1, <2>2, <2>3, <2>4
<1> QED
  BY <1>2, <1>3, <1>6 DEF AnalyzeSteps, AnalyzeTypeOK, AnalyzeInv

LEMMA ExplainKeeps ==
    ASSUME PropInv, AnalyzeSteps, Explain, trail' = trail
    PROVE  AnalyzeSteps'
<1>1. PICK w : w = work
  OBVIOUS
<1>2. PICK x : x = work'
  OBVIOUS
<1>3. /\ w \in WorkType /\ Minimizing(trail, w) /\ step = "minimize" /\ step' = "minimize"
      /\ w.cur # <<>> /\ w.testing # 0
      /\ seen \subseteq Vars /\ toclear \subseteq Vars /\ seen \subseteq toclear
  BY <1>1 DEF AnalyzeSteps, AnalyzeTypeOK, AnalyzeInv, Explain, Testing
<1>4. w.cur \in Seq(Lits) /\ w.rest \in Seq(Lits) /\ w.kept \in Seq(Lits) /\ w.stack \in Seq(Lits)
  BY <1>3, WorkParts
<1>5. PICK q : q = Head(w.cur)
  OBVIOUS
<1>6. PICK r : r = Tail(w.cur)
  OBVIOUS
<1>7. /\ q \in Lits /\ q \in ToSet(w.cur) /\ r \in Seq(Lits)
      /\ \A y : y \in ToSet(w.cur) <=> y = q \/ y \in ToSet(r)
  <2>1. q \in Lits /\ q \in ToSet(w.cur) /\ r \in Seq(Lits)
    BY <1>3, <1>4, <1>5, <1>6, HeadFacts
  <2>2. \A y : y \in ToSet(w.cur) <=> y = q \/ y \in ToSet(r)
    BY <1>3, <1>4, <1>5, <1>6, HeadFacts
  <2> QED
    BY <2>1, <2>2
<1>8. VarOf(q) \in Vars /\ IsFalse(trail, q) /\ \A y \in ToSet(r) : IsFalse(trail, y)
  BY <1>3, <1>7, LitFacts DEF Minimizing
<1>9. CASE ~Unmarked(q) /\ work' = [work EXCEPT !.cur = Tail(@)] /\ UNCHANGED <<seen, toclear>>
  <2>1. x = [w EXCEPT !.cur = r]
    BY <1>1, <1>2, <1>6, <1>9
  <2>2. x \in WorkType
    BY <2>1, <1>3, <1>7 DEF WorkType
  <2>3. /\ x.uip = w.uip /\ x.kept = w.kept /\ x.rest = w.rest /\ x.testing = w.testing
        /\ x.stack = w.stack /\ x.cur = r
    BY <2>1, <1>3 DEF WorkType
  <2>4. Minimizing(trail, x)
    BY <2>3, <1>3, <1>8, TestMinimizes
  <2> QED
    BY <2>2, <2>4, <1>2, <1>3, <1>9 DEF AnalyzeSteps, AnalyzeTypeOK, AnalyzeInv
<1>10. CASE /\ Unmarked(q) /\ ReasonOf(trail, q) # Decision /\ Mark(q)
            /\ work' = [work EXCEPT !.cur = Tail(@), !.stack = Append(@, q),
                                    !.marks = @ \cup {VarOf(q)}]
  <2>1. PICK d : d = Append(w.stack, q)
    OBVIOUS
  <2>2. x = [w EXCEPT !.cur = r, !.stack = d, !.marks = @ \cup {VarOf(q)}]
    BY <2>1, <1>1, <1>2, <1>6, <1>10
  <2>3. Lengthens(d, w.stack, q)
    BY <2>1, <1>4, <1>7, AppendFacts
  <2>4. d \in Seq(Lits) /\ \A y \in ToSet(d) : y = q \/ y \in ToSet(w.stack)
    BY <2>3 DEF Lengthens
  <2>5. w.marks \cup {VarOf(q)} \in SUBSET Vars
    BY <1>3, <1>8, WorkParts
  <2>6. x \in WorkType
    BY <2>2, <2>4, <2>5, <1>3, <1>7 DEF WorkType
  <2>7. /\ x.uip = w.uip /\ x.kept = w.kept /\ x.rest = w.rest /\ x.testing = w.testing
        /\ x.stack = d /\ x.cur = r
    BY <2>2, <1>3 DEF WorkType
  <2>8. \A y \in ToSet(x.stack) : \/ y \in ToSet(w.stack)
                                  \/ IsFalse(trail, y) /\ ReasonOf(trail, y) # Decision
    BY <2>4, <2>7, <1>8, <1>10
  <2>9. Minimizing(trail, x)
    BY <2>7, <2>8, <1>3, <1>8, TestMinimizes
  <2>10. /\ seen' \subseteq Vars /\ toclear' \subseteq Vars /\ seen' \subseteq toclear'
    BY <1>3, <1>8, <1>10 DEF Mark
  <2> QED
    BY <2>6, <2>9, <2>10, <1>2, <1>3 DEF AnalyzeSteps, AnalyzeTypeOK, AnalyzeInv
<1>11. CASE /\ RollBack
            /\ work' = [work EXCEPT !.testing = 0, !.stack = <<>>, !.cur = <<>>,
                                    !.rest = Tail(@), !.kept = Append(@, work.testing)]
  <2>1. PICK h : h = Head(w.rest) /\ w.rest # <<>> /\ w.testing = h
    BY <1>3 DEF Minimizing
  <2>2. x = [w EXCEPT !.testing = 0, !.stack = <<>>, !.cur = <<>>, !.rest = Tail(@),
                      !.kept = Append(@, h)]
    BY <2>1, <1>1, <1>2, <1>11
  <2>3. PICK b : b = Tail(w.rest)
    OBVIOUS
  <2>4. h \in Lits /\ b \in Seq(Lits)
    BY <2>1, <2>3, <1>4, HeadFacts
  <2>5. Append(w.kept, h) \in Seq(Lits) /\ <<>> \in Seq(Lits)
    BY <2>4, <1>4
  <2>6. x \in WorkType
    BY <2>2, <2>3, <2>4, <2>5, <1>3 DEF WorkType
  <2>7. /\ x.uip = w.uip /\ x.kept = Append(w.kept, h) /\ x.rest = Tail(w.rest) /\ x.testing = 0
        /\ x.stack = <<>> /\ x.cur = <<>>
    BY <2>2, <1>3 DEF WorkType
  <2>8. Minimizing(trail, x)
    BY <2>1, <2>7, <1>3, ShiftMinimizes
  <2>9. /\ seen' \subseteq Vars /\ toclear' \subseteq Vars /\ seen' \subseteq toclear'
    BY <1>3, <1>11 DEF RollBack
  <2> QED
    BY <2>6, <2>8, <2>9, <1>2, <1>3 DEF AnalyzeSteps, AnalyzeTypeOK, AnalyzeInv
<1> QED
  BY <1>1, <1>5, <1>9, <1>10, <1>11 DEF Explain

LEMMA EndKeeps ==
    ASSUME PropInv, AnalyzeSteps, EndMinimize, trail' = trail
    PROVE  AnalyzeSteps'
<1>1. Minimizing(trail, work) /\ work' = work /\ step' = "learn" /\ seen' = {} /\ toclear' = {}
  BY DEF AnalyzeSteps, AnalyzeInv, EndMinimize
<1> QED
  BY <1>1 DEF AnalyzeSteps, AnalyzeTypeOK, AnalyzeInv

LEMMA AnalyzeKeeps ==
    ASSUME PropInv, Shaped(trail), LevelOf(trail) > 0, AnalyzeSteps, analyze, trail' = trail
    PROVE  AnalyzeSteps'
BY TouchKeeps, WalkKeeps, MinimizeKeeps, ExplainKeeps, EndKeeps DEF analyze

\* The walk never runs off the trail nor past a decision, where analyze would
\* panic.
LEMMA WalkFindsUip ==
    PropInv /\ Shaped(trail) /\ LevelOf(trail) > 0 /\ AnalyzeSteps => UipExists
<1> SUFFICES ASSUME PropInv, Shaped(trail), LevelOf(trail) > 0, AnalyzeSteps,
                    step = "walk", work.cur = <<>>
             PROVE  /\ Ahead # {}
                    /\ work.paths <= 1 \/ ReasonOf(trail, trail.lits[Max(Ahead)]) # Decision
  BY DEF UipExists
<1>1. /\ work \in WorkType /\ Walking(trail, seen, work) /\ WellFormed(trail)
  BY TypedDb DEF AnalyzeSteps, AnalyzeTypeOK, AnalyzeInv
<1>2. PICK w : w = work
  OBVIOUS
<1>3. PICK A : A = Ahead /\ A = AheadIn(trail, seen, w.idx)
  BY <1>2 DEF Ahead, AheadIn
<1>4. PICK m : m = Max(A)
  OBVIOUS
<1>5. A # {} /\ (w.paths <= 1 \/ ReasonOf(trail, trail.lits[m]) # Decision)
  BY <1>1, <1>2, <1>3, <1>4, NextMarked
<1> QED
  BY <1>2, <1>3, <1>4, <1>5

\* The learned clause asserts its first literal after the backjump.
LEMMA LearnedFacts ==
    ASSUME PropInv, LevelOf(trail) > 0, AnalyzeSteps, step = "learn"
    PROVE  Asserting(trail, LearnedClause) /\ Lbd(LearnedClause) \in Nat
BY TypedDb, LearnedAsserts DEF AnalyzeSteps, AnalyzeTypeOK, AnalyzeInv

(***************************************************************************)
(* What minimization leaves out follows from what it keeps.                 *)
(***************************************************************************)
\* A literal of s is of the variable v.
Named(s, v) == \E q \in ToSet(s) : VarOf(q) = v

\* The literals T[v] that v was propagated from are root facts, of variables
\* in V, or in C.
Explained(t, T, v, V, C) ==
    /\ ReasonOf(t, v) # Decision
    /\ \A q \in T[v] : ~(LitLevel(t, q) > 0) \/ VarOf(q) \in V \/ q \in C

\* The marks that a rollback would leave.
Firm(sn, w) == IF w.testing = 0 THEN sn ELSE sn \ w.marks

\* Each firmly marked variable is of a literal that is kept or still to be
\* tested, or is explained by others; the marks of the test under way are
\* explained but for what is still to be read.
Justified(t, T, sn, w) ==
    /\ ToSet(w.kept) \cup ToSet(w.rest) \subseteq ToSet(w.learned)
    /\ \A q \in ToSet(w.learned) : VarOf(q) \in Firm(sn, w)
    /\ \A v \in Firm(sn, w) :
          Named(w.kept, v) \/ Named(w.rest, v) \/ Explained(t, T, v, Firm(sn, w), {})
    /\ w.testing = 0 => w.cur = <<>> /\ w.stack = <<>>
    /\ w.testing # 0 =>
          \A v \in w.marks \cup {VarOf(w.testing)} :
              Named(w.stack, v) \/ Explained(t, T, v, sn, ToSet(w.cur))

\* The outcome: each variable of a learned literal is kept, or explained in
\* the end by what is kept.
Warranted(t, T, w) ==
    \E V \in SUBSET Vars :
        /\ ToSet(w.kept) \subseteq ToSet(w.learned)
        /\ \A q \in ToSet(w.learned) : VarOf(q) \in V
        /\ \A v \in V : Named(w.kept, v) \/ Explained(t, T, v, V, {})

LEMMA ExplainedMore ==
    ASSUME NEW t, NEW T, NEW v, NEW V, NEW C, Explained(t, T, v, V, C), NEW W, NEW D,
           V \subseteq W, \A q \in C : q \in D \/ VarOf(q) \in W \/ ~(LitLevel(t, q) > 0)
    PROVE  Explained(t, T, v, W, D)
  BY DEF Explained

LEMMA EmptyToSet == ToSet(<<>>) = {}
  BY DEF ToSet

\* The literal at the head is kept: no marks are under test, or they are gone.
LEMMA KeepJustifies ==
    ASSUME NEW t, NEW T, NEW sn, NEW w \in WorkType, Justified(t, T, sn, w),
           w.rest # <<>>, NEW h, h = Head(w.rest), NEW s2, s2 = Firm(sn, w),
           NEW x, x.learned = w.learned, x.kept = Append(w.kept, h), x.rest = Tail(w.rest),
           x.testing = 0, x.stack = <<>>, x.cur = <<>>
    PROVE  Justified(t, T, s2, x)
<1>1. w.rest \in Seq(Lits) /\ w.kept \in Seq(Lits)
  BY WorkParts
<1>2. h \in Lits /\ \A y : y \in ToSet(w.rest) <=> y = h \/ y \in ToSet(x.rest)
  BY <1>1, HeadFacts
<1>3. \A y : y \in ToSet(x.kept) <=> y = h \/ y \in ToSet(w.kept)
  BY <1>1, <1>2, AppendFacts DEF Lengthens
<1>4. Firm(s2, x) = s2
  BY DEF Firm
<1>5. \A v : Named(w.kept, v) \/ Named(w.rest, v) => Named(x.kept, v) \/ Named(x.rest, v)
  BY <1>2, <1>3 DEF Named
<1>6. \A v \in s2 : Named(x.kept, v) \/ Named(x.rest, v) \/ Explained(t, T, v, s2, {})
  BY <1>5 DEF Justified
<1>7. ToSet(x.kept) \cup ToSet(x.rest) \subseteq ToSet(x.learned)
  BY <1>2, <1>3 DEF Justified
<1>8. \A q \in ToSet(x.learned) : VarOf(q) \in s2
  BY DEF Justified
<1> QED
  BY <1>4, <1>6, <1>7, <1>8 DEF Justified

\* The literal at the head is dropped: all its causes have been read.
LEMMA DropJustifies ==
    ASSUME NEW t, NEW T, NEW sn, NEW w \in WorkType, Justified(t, T, sn, w),
           w.rest # <<>>, NEW h, h = Head(w.rest), w.testing # 0, w.testing = h,
           w.cur = <<>>, w.stack = <<>>,
           NEW x, x.learned = w.learned, x.kept = w.kept, x.rest = Tail(w.rest),
           x.testing = 0, x.stack = <<>>, x.cur = <<>>
    PROVE  Justified(t, T, sn, x)
<1>1. w.rest \in Seq(Lits) /\ w.kept \in Seq(Lits)
  BY WorkParts
<1>2. h \in Lits /\ \A y : y \in ToSet(w.rest) <=> y = h \/ y \in ToSet(x.rest)
  BY <1>1, HeadFacts
<1>3. Firm(sn, x) = sn /\ Firm(sn, w) = sn \ w.marks
  BY DEF Firm
<1>4. \A v \in w.marks \cup {VarOf(h)} : Explained(t, T, v, sn, {})
  BY EmptyToSet DEF Justified, Named
<1>5. ASSUME NEW v \in sn
      PROVE  Named(x.kept, v) \/ Named(x.rest, v) \/ Explained(t, T, v, sn, {})
  <2>1. CASE v \in w.marks \cup {VarOf(h)}
    BY <2>1, <1>4
  <2>2. CASE v \notin w.marks \cup {VarOf(h)}
    <3>1. Named(w.kept, v) \/ Named(w.rest, v) \/ Explained(t, T, v, sn \ w.marks, {})
      BY <2>2, <1>3 DEF Justified
    <3>2. Named(w.rest, v) => Named(x.rest, v)
      BY <2>2, <1>2 DEF Named
    <3>3. Explained(t, T, v, sn \ w.marks, {}) => Explained(t, T, v, sn, {})
      BY DEF Explained
    <3> QED
      BY <3>1, <3>2, <3>3
  <2> QED
    BY <2>1, <2>2
<1>6. ToSet(x.kept) \cup ToSet(x.rest) \subseteq ToSet(x.learned)
  BY <1>2 DEF Justified
<1>7. \A q \in ToSet(x.learned) : VarOf(q) \in sn
  BY <1>3 DEF Justified
<1> QED
  BY <1>3, <1>5, <1>6, <1>7 DEF Justified

\* The head is put to the test.
LEMMA StartJustifies ==
    ASSUME NEW t, NEW T, NEW sn, NEW w \in WorkType, Justified(t, T, sn, w),
           w.testing = 0, NEW h \in Lits,
           NEW x, x.learned = w.learned, x.kept = w.kept, x.rest = w.rest,
           x.testing = h, x.stack = <<h>>, x.cur = w.cur, x.marks = {}
    PROVE  Justified(t, T, sn, x)
<1>1. h # 0
  BY LitFacts
<1>2. Firm(sn, x) = sn /\ Firm(sn, w) = sn
  BY <1>1 DEF Firm
<1>3. Named(x.stack, VarOf(h))
  BY DEF Named, ToSet
<1> QED
  BY <1>1, <1>2, <1>3 DEF Justified

\* The literals e was propagated from are read.
LEMMA ReadJustifies ==
    ASSUME NEW t, NEW T, NEW sn, NEW w \in WorkType, Justified(t, T, sn, w),
           w.testing # 0, w.cur = <<>>, w.stack # <<>>, NEW e, e = Last(w.stack),
           ReasonOf(t, e) # Decision, NEW s, ToSet(s) = T[VarOf(e)],
           NEW x, x.learned = w.learned, x.kept = w.kept, x.rest = w.rest,
           x.testing = w.testing, x.stack = Front(w.stack), x.cur = s, x.marks = w.marks
    PROVE  Justified(t, T, sn, x)
<1>1. w.stack \in Seq(Lits)
  BY WorkParts
<1>2. e \in Lits /\ \A y \in ToSet(w.stack) : y = e \/ y \in ToSet(x.stack)
  <2>1. e \in Lits
    BY <1>1, LastFacts
  <2>2. PICK n \in Nat : n = Len(w.stack) /\ n >= 1
    BY <1>1
  <2>3. e = w.stack[n] /\ Len(x.stack) = n - 1 /\ \A i \in 1..(n - 1) : x.stack[i] = w.stack[i]
    BY <2>2, <1>1 DEF Last, Front
  <2>4. DOMAIN x.stack = 1..(n - 1) /\ DOMAIN w.stack = 1..n
    BY <2>2, <1>1 DEF Front
  <2> QED
    BY <2>1, <2>2, <2>3, <2>4 DEF ToSet
<1>3. Firm(sn, x) = Firm(sn, w)
  BY DEF Firm
<1>4. ASSUME NEW v \in w.marks \cup {VarOf(w.testing)}
      PROVE  Named(x.stack, v) \/ Explained(t, T, v, sn, ToSet(s))
  <2>1. Named(w.stack, v) \/ Explained(t, T, v, sn, {})
    BY <1>4, EmptyToSet DEF Justified
  <2>2. Explained(t, T, v, sn, {}) => Explained(t, T, v, sn, ToSet(s))
    BY DEF Explained
  <2>3. v = VarOf(e) => Explained(t, T, v, sn, ToSet(s))
    <3>1. VarOf(VarOf(e)) = VarOf(e)
      BY <1>2, LitFacts DEF VarOf
    <3> QED
      BY <3>1 DEF Explained, ReasonOf
  <2>4. Named(w.stack, v) => v = VarOf(e) \/ Named(x.stack, v)
    BY <1>2 DEF Named
  <2> QED
    BY <2>1, <2>2, <2>3, <2>4
<1> QED
  BY <1>3, <1>4 DEF Justified

\* A literal of the reason needs no mark.
LEMMA SkipJustifies ==
    ASSUME NEW t, NEW T, NEW sn, NEW w \in WorkType, Justified(t, T, sn, w),
           w.testing # 0, w.cur # <<>>, NEW q, q = Head(w.cur),
           VarOf(q) \in sn \/ ~(LitLevel(t, q) > 0),
           NEW x, x.learned = w.learned, x.kept = w.kept, x.rest = w.rest,
           x.testing = w.testing, x.stack = w.stack, x.cur = Tail(w.cur), x.marks = w.marks
    PROVE  Justified(t, T, sn, x)
<1>1. w.cur \in Seq(Lits)
  BY WorkParts
<1>2. \A y \in ToSet(w.cur) : y = q \/ y \in ToSet(x.cur)
  <2>1. PICK r : r = Tail(w.cur)
    OBVIOUS
  <2>3. PICK c \in Seq(Lits) : c = w.cur /\ c # <<>>
    BY <1>1
  <2>4. q = Head(c) /\ r = Tail(c)
    BY <2>1, <2>3
  <2>2. \A y : y \in ToSet(c) <=> y = q \/ y \in ToSet(r)
    BY <2>3, <2>4, HeadFacts
  <2> QED
    BY <2>1, <2>2, <2>3
<1>3. Firm(sn, x) = Firm(sn, w)
  BY DEF Firm
<1>4. \A v : Explained(t, T, v, sn, ToSet(w.cur)) => Explained(t, T, v, sn, ToSet(x.cur))
  BY <1>2 DEF Explained
<1> QED
  BY <1>3, <1>4 DEF Justified

\* A literal of the reason is marked and stacked.
LEMMA PushJustifies ==
    ASSUME NEW t, NEW T, NEW sn, NEW w \in WorkType, Justified(t, T, sn, w),
           w.testing # 0, w.cur # <<>>, NEW q, q = Head(w.cur), VarOf(q) \notin sn,
           NEW s2, s2 = sn \cup {VarOf(q)},
           NEW x, x.learned = w.learned, x.kept = w.kept, x.rest = w.rest,
           x.testing = w.testing, x.stack = Append(w.stack, q), x.cur = Tail(w.cur),
           x.marks = w.marks \cup {VarOf(q)}
    PROVE  Justified(t, T, s2, x)
<1>1. w.cur \in Seq(Lits) /\ w.stack \in Seq(Lits)
  BY WorkParts
<1>2. q \in Lits /\ \A y \in ToSet(w.cur) : y = q \/ y \in ToSet(x.cur)
  <2>1. PICK r : r = Tail(w.cur)
    OBVIOUS
  <2>3. PICK c \in Seq(Lits) : c = w.cur /\ c # <<>>
    BY <1>1
  <2>4. q = Head(c) /\ r = Tail(c)
    BY <2>1, <2>3
  <2>2. q \in Lits /\ \A y : y \in ToSet(c) <=> y = q \/ y \in ToSet(r)
    BY <2>3, <2>4, HeadFacts
  <2> QED
    BY <2>1, <2>2, <2>3
<1>3. \A y : y \in ToSet(x.stack) <=> y = q \/ y \in ToSet(w.stack)
  BY <1>1, <1>2, AppendFacts DEF Lengthens
<1>4. Firm(s2, x) = Firm(sn, w)
  BY DEF Firm
<1>5. \A v : Named(w.stack, v) => Named(x.stack, v)
  BY <1>3 DEF Named
<1>6. Named(x.stack, VarOf(q))
  BY <1>3 DEF Named
<1>7. \A v : Explained(t, T, v, sn, ToSet(w.cur)) => Explained(t, T, v, s2, ToSet(x.cur))
  BY <1>2 DEF Explained
<1>8. \A v \in x.marks \cup {VarOf(x.testing)} :
         Named(x.stack, v) \/ Explained(t, T, v, s2, ToSet(x.cur))
  BY <1>5, <1>6, <1>7 DEF Justified
<1> QED
  BY <1>4, <1>8 DEF Justified

\* Nothing is left to test.
LEMMA EndWarrants ==
    ASSUME NEW t, NEW T, NEW sn, sn \subseteq Vars, NEW w \in WorkType, Justified(t, T, sn, w),
           w.testing = 0, w.rest = <<>>
    PROVE  Warranted(t, T, w)
<1>1. Firm(sn, w) = sn
  BY DEF Firm
<1>2. \A v : ~Named(w.rest, v)
  BY EmptyToSet DEF Named
<1> QED
  BY <1>1, <1>2 DEF Justified, Warranted

\* The marked positions of the level but for the last.
LEMMA MarkedRest ==
    ASSUME NEW t, WellFormed(t), NEW sn, NEW w \in WorkType, w.idx <= Len(t.lits),
           NEW m, Stops(t, sn, w, m), NEW s2, s2 = sn \ {VarOf(t.lits[m])}
    PROVE  MarkedIn(t, s2, m - 1) = MarkedIn(t, sn, w.idx) \ {m}
<1>1. PICK n \in Nat : n = w.idx
  BY WorkParts
<1>2. PICK C : C = MarkedIn(t, sn, n)
  OBVIOUS
<1>4. PICK N \in Nat : N = Len(t.lits) /\ n <= N
  BY <1>1, TrailParts DEF WellFormed
<1>5. /\ m \in 1..N /\ m \in 1..n /\ m \in C /\ \A i \in AheadIn(t, sn, n) : i <= m
  BY <1>1, <1>2, <1>4 DEF Stops
<1>6. PICK k \in Nat : k = m - 1 /\ k <= N
  BY <1>5
<1>7. \A i \in 1..N : VarOf(t.lits[i]) = VarOf(t.lits[m]) <=> i = m
  BY <1>4, <1>5 DEF WellFormed
<1>8. ASSUME NEW i \in MarkedIn(t, s2, k)
      PROVE  i \in C \ {m}
  <3>1. i \in 1..k /\ VarOf(t.lits[i]) \in sn /\ LitLevel(t, t.lits[i]) = LevelOf(t)
    BY <1>8 DEF MarkedIn
  <3>2. i \in 1..n /\ i # m
    BY <3>1, <1>5, <1>6
  <3> QED
    BY <3>1, <3>2, <1>2 DEF MarkedIn
<1>9. ASSUME NEW i \in C \ {m}
      PROVE  i \in MarkedIn(t, s2, k)
  <3>1. i \in 1..n /\ VarOf(t.lits[i]) \in sn /\ LitLevel(t, t.lits[i]) = LevelOf(t)
    BY <1>9, <1>2 DEF MarkedIn
  <3>2. i <= m
    BY <3>1, <1>5 DEF AheadIn
  <3>3. i \in 1..k /\ i \in 1..N
    BY <1>9, <3>1, <3>2, <1>4, <1>5, <1>6
  <3>4. VarOf(t.lits[i]) # VarOf(t.lits[m])
    BY <1>9, <3>3, <1>7
  <3> QED
    BY <3>1, <3>3, <3>4 DEF MarkedIn
<1> QED
  BY <1>1, <1>2, <1>6, <1>8, <1>9

(***************************************************************************)
(* The walk of analyze resolves the conflict with reasons.                  *)
(***************************************************************************)
\* A mark is of a learned literal or of a position still ahead.
Marking(t, sn, w) ==
    \A v \in sn :
        \/ Named(w.learned, v)
        \/ \E i \in 1..w.idx : VarOf(t.lits[i]) = v /\ LitLevel(t, t.lits[i]) = LevelOf(t)

\* The clause the walk has arrived at: the literals learned, those it has yet
\* to touch and the marked ones of the level.
Resolvent(t, sn, w) ==
    {l \in ToSet(w.learned) \cup ToSet(w.cur)
           \cup {-t.lits[i] : i \in MarkedIn(t, sn, w.idx)} : LitLevel(t, l) > 0}

\* The position of a literal that is false since position n.
LEMMA OwnPosition ==
    ASSUME NEW t, WellFormed(t), NEW n \in 0..Len(t.lits), NEW q \in Lits, FalseBy(t, q, n)
    PROVE  \E j \in 1..n : /\ j \in 1..Len(t.lits) /\ t.lits[j] = -q /\ q = -t.lits[j]
                           /\ VarOf(t.lits[j]) = VarOf(q)
                           /\ LitLevel(t, t.lits[j]) = LitLevel(t, q)
<1>1. PICK j \in 1..n : j \in 1..Len(t.lits) /\ t.lits[j] = -q /\ LitLevel(t, t.lits[j]) = LitLevel(t, q)
  BY FalseByFacts
<1>2. q = -(-q) /\ VarOf(-q) = VarOf(q)
  BY LitFacts
<1> QED
  BY <1>1, <1>2

LEMMA SkipResolves ==
    ASSUME NEW t, WellFormed(t), LevelOf(t) > 0, NEW sn, NEW w \in WorkType, Walking(t, sn, w),
           Marking(t, sn, w),
           w.cur # <<>>, NEW q, q = Head(w.cur), VarOf(q) \in sn \/ ~(LitLevel(t, q) > 0),
           NEW x, x.cur = Tail(w.cur), x.learned = w.learned, x.idx = w.idx
    PROVE  Marking(t, sn, x) /\ Resolvent(t, sn, x) = Resolvent(t, sn, w)
<1>1. PICK c \in Seq(Lits) : c = w.cur /\ c # <<>>
  BY WorkParts
<1>2. PICK r : r = Tail(c) /\ r = x.cur /\ q = Head(c)
  BY <1>1
<1>3. q \in Lits /\ \A y : y \in ToSet(c) <=> y = q \/ y \in ToSet(r)
  BY <1>1, <1>2, HeadFacts
<1>4. Marking(t, sn, x)
  BY DEF Marking
<1>5. FalseBy(t, q, w.idx) /\ w.idx \in 0..Len(t.lits)
  BY <1>1, <1>3 DEF Walking
<1>6. PICK j \in 1..w.idx : /\ j \in 1..Len(t.lits) /\ t.lits[j] = -q /\ q = -t.lits[j]
                            /\ VarOf(t.lits[j]) = VarOf(q)
                            /\ LitLevel(t, t.lits[j]) = LitLevel(t, q)
  BY <1>3, <1>5, OwnPosition
<1>7. ASSUME LitLevel(t, q) > 0
      PROVE  q \in ToSet(w.learned) \/ \E i \in MarkedIn(t, sn, w.idx) : q = -t.lits[i]
  <2>1. VarOf(q) \in sn
    BY <1>7
  <2>2. CASE Named(w.learned, VarOf(q))
    <3>1. PICK k \in ToSet(w.learned) : VarOf(k) = VarOf(q)
      BY <2>2 DEF Named
    <3>2. k \in Lits /\ IsFalse(t, k)
      BY <3>1, WorkParts, ToSetFacts DEF Walking, Lower
    <3>3. IsFalse(t, q)
      BY <1>3, <1>6, TruthFacts
    <3>4. k = q \/ k = -q
      BY <3>1, <3>2, <1>3, LitFacts
    <3>5. k = q
      BY <3>2, <3>3, <3>4, <1>3, TruthFacts
    <3> QED
      BY <3>1, <3>5
  <2>3. CASE \E i \in 1..w.idx : VarOf(t.lits[i]) = VarOf(q) /\ LitLevel(t, t.lits[i]) = LevelOf(t)
    <3>1. PICK i \in 1..w.idx : VarOf(t.lits[i]) = VarOf(q) /\ LitLevel(t, t.lits[i]) = LevelOf(t)
      BY <2>3
    <3>2. i \in MarkedIn(t, sn, w.idx)
      BY <3>1, <2>1 DEF MarkedIn
    <3>3. i \in 1..Len(t.lits)
      BY <3>1, <1>5, TrailParts DEF WellFormed
    <3>4. i = j
      BY <3>1, <3>3, <1>6 DEF WellFormed
    <3> QED
      BY <3>2, <3>4, <1>6
  <2> QED
    BY <2>1, <2>2, <2>3 DEF Marking
<1>8. Resolvent(t, sn, x) = Resolvent(t, sn, w)
  BY <1>1, <1>2, <1>3, <1>7 DEF Resolvent
<1> QED
  BY <1>4, <1>8

LEMMA CountResolves ==
    ASSUME NEW t, WellFormed(t), LevelOf(t) > 0, NEW sn, NEW w \in WorkType, Walking(t, sn, w),
           Marking(t, sn, w),
           w.cur # <<>>, NEW q, q = Head(w.cur), VarOf(q) \notin sn,
           LitLevel(t, q) >= LevelOf(t), NEW s2, s2 = sn \cup {VarOf(q)},
           NEW x, x.cur = Tail(w.cur), x.learned = w.learned, x.idx = w.idx
    PROVE  Marking(t, s2, x) /\ Resolvent(t, s2, x) = Resolvent(t, sn, w)
<1>1. PICK c \in Seq(Lits) : c = w.cur /\ c # <<>>
  BY WorkParts
<1>2. PICK r : r = Tail(c) /\ r = x.cur /\ q = Head(c)
  BY <1>1
<1>3. q \in Lits /\ \A y : y \in ToSet(c) <=> y = q \/ y \in ToSet(r)
  BY <1>1, <1>2, HeadFacts
<1>4. FalseBy(t, q, w.idx) /\ w.idx \in 0..Len(t.lits)
  BY <1>1, <1>3 DEF Walking
<1>5. PICK j \in 1..w.idx : /\ j \in 1..Len(t.lits) /\ t.lits[j] = -q /\ q = -t.lits[j]
                            /\ VarOf(t.lits[j]) = VarOf(q)
                            /\ LitLevel(t, t.lits[j]) = LitLevel(t, q)
  BY <1>3, <1>4, OwnPosition
<1>6. LitLevel(t, t.lits[j]) = LevelOf(t)
  <2>1. LitLevel(t, t.lits[j]) \in 0..LevelOf(t) /\ LevelOf(t) \in Nat
    BY <1>5, TrailParts DEF WellFormed, LevelOf
  <2> QED
    BY <2>1, <1>5
<1>7. Marking(t, s2, x)
  BY <1>5, <1>6 DEF Marking
<1>8. \A i : i \in MarkedIn(t, s2, w.idx) <=> i = j \/ i \in MarkedIn(t, sn, w.idx)
  <2>1. ASSUME NEW i \in 1..w.idx, VarOf(t.lits[i]) = VarOf(q)
        PROVE  i = j
    <3>1. i \in 1..Len(t.lits)
      BY <1>4, <2>1, TrailParts DEF WellFormed
    <3> QED
      BY <2>1, <3>1, <1>5 DEF WellFormed
  <2> QED
    BY <2>1, <1>5, <1>6 DEF MarkedIn
<1>9. {-t.lits[i] : i \in MarkedIn(t, s2, w.idx)} = {q} \cup {-t.lits[i] : i \in MarkedIn(t, sn, w.idx)}
  BY <1>5, <1>8
<1>10. Resolvent(t, s2, x) = Resolvent(t, sn, w)
  BY <1>1, <1>2, <1>3, <1>9 DEF Resolvent
<1> QED
  BY <1>7, <1>10

LEMMA LearnResolves ==
    ASSUME NEW t, WellFormed(t), LevelOf(t) > 0, NEW sn, NEW w \in WorkType, Walking(t, sn, w),
           Marking(t, sn, w),
           w.cur # <<>>, NEW q, q = Head(w.cur), VarOf(q) \notin sn,
           ~(LitLevel(t, q) >= LevelOf(t)), NEW s2, s2 = sn \cup {VarOf(q)},
           NEW x, x.cur = Tail(w.cur), x.learned = Append(w.learned, q), x.idx = w.idx
    PROVE  Marking(t, s2, x) /\ Resolvent(t, s2, x) = Resolvent(t, sn, w)
<1>1. PICK c \in Seq(Lits) : c = w.cur /\ c # <<>>
  BY WorkParts
<1>2. PICK r : r = Tail(c) /\ r = x.cur /\ q = Head(c)
  BY <1>1
<1>3. q \in Lits /\ \A y : y \in ToSet(c) <=> y = q \/ y \in ToSet(r)
  BY <1>1, <1>2, HeadFacts
<1>4. \A y : y \in ToSet(x.learned) <=> y = q \/ y \in ToSet(w.learned)
  <2>1. PICK d \in Seq(Lits) : d = w.learned
    BY WorkParts
  <2>2. PICK e : e = Append(d, q) /\ e = x.learned
    BY <2>1
  <2>3. Lengthens(e, d, q)
    BY <2>1, <2>2, <1>3, AppendFacts
  <2> QED
    BY <2>1, <2>2, <2>3 DEF Lengthens
<1>5. Marking(t, s2, x)
  BY <1>4 DEF Marking, Named
<1>6. FalseBy(t, q, w.idx) /\ w.idx \in 0..Len(t.lits)
  BY <1>1, <1>3 DEF Walking
<1>7. PICK j \in 1..w.idx : /\ j \in 1..Len(t.lits)
                            /\ VarOf(t.lits[j]) = VarOf(q)
                            /\ LitLevel(t, t.lits[j]) = LitLevel(t, q)
  BY <1>3, <1>6, OwnPosition
<1>8. LitLevel(t, q) # LevelOf(t)
  <2>1. LevelOf(t) \in Nat
    BY TrailParts DEF WellFormed, LevelOf
  <2> QED
    BY <2>1
<1>9. MarkedIn(t, s2, w.idx) = MarkedIn(t, sn, w.idx)
  <2>1. ASSUME NEW i \in 1..w.idx, VarOf(t.lits[i]) = VarOf(q)
        PROVE  LitLevel(t, t.lits[i]) # LevelOf(t)
    BY <2>1, <1>7, <1>8 DEF LitLevel
  <2> QED
    BY <2>1 DEF MarkedIn
<1>10. Resolvent(t, s2, x) = Resolvent(t, sn, w)
  BY <1>1, <1>2, <1>3, <1>4, <1>9 DEF Resolvent
<1> QED
  BY <1>5, <1>10

\* The state in which minimization starts.
StartsFrom(w, x) ==
    /\ x.learned = w.learned /\ x.kept = w.kept /\ x.rest = w.learned
    /\ x.testing = w.testing /\ x.stack = w.stack /\ x.cur = w.cur

\* The UIP is found: it and the learned literals are the resolvent, and every
\* mark left is of a learned literal.
LEMMA FoundResolves ==
    ASSUME NEW t, WellFormed(t), LevelOf(t) > 0, NEW T, NEW sn, NEW w \in WorkType,
           Walking(t, sn, w), Marking(t, sn, w), w.cur = <<>>, ~(w.paths - 1 > 0),
           NEW m, Stops(t, sn, w, m), NEW s2, s2 = sn \ {VarOf(t.lits[m])},
           NEW x, StartsFrom(w, x)
    PROVE  /\ Resolvent(t, sn, w) = {-t.lits[m]} \cup ToSet(w.learned)
           /\ Justified(t, T, s2, x)
<1>p. PICK p : p = t.lits[m]
  OBVIOUS
<1>s. s2 = sn \ {VarOf(p)}
  BY <1>p
<1>0. /\ x.learned = w.learned /\ x.kept = w.kept /\ x.rest = w.learned
      /\ x.testing = w.testing /\ x.stack = w.stack /\ x.cur = w.cur
  BY DEF StartsFrom
<1>1. PICK C : C = MarkedIn(t, sn, w.idx)
  OBVIOUS
<1>2. IsFiniteSet(C) /\ w.paths = Cardinality(C) /\ w.paths \in Int /\ w.paths >= 1
  <2>1. ToSet(w.cur) = {}
    BY EmptyToSet
  <2> QED
    BY <1>1, <2>1, WorkParts DEF Walking, Counted
<1>3. m \in C /\ LitLevel(t, p) = LevelOf(t) /\ m \in 1..Len(t.lits)
  BY <1>1, <1>p DEF Stops
<1>4. C = {m}
  <2>1. Cardinality(C) = 1
    BY <1>2
  <2>2. PICK y : C = {y}
    BY <1>2, <2>1, FS_Singleton
  <2> QED
    BY <2>2, <1>3
<1>5. p \in Lits /\ LitLevel(t, -p) = LevelOf(t)
  <2>1. p \in Lits
    BY <1>3, <1>p, TrailParts DEF WellFormed
  <2> QED
    BY <2>1, <1>3, TruthFacts
<1>6. LevelOf(t) \in Nat
  BY TrailParts DEF WellFormed, LevelOf
<1>7. \A q \in ToSet(w.learned) : LitLevel(t, q) > 0 /\ LitLevel(t, q) # LevelOf(t) /\ VarOf(q) \in sn
  BY <1>6 DEF Walking, Lower
<1>8. Resolvent(t, sn, w) = {-p} \cup ToSet(w.learned)
  <2>1. {-t.lits[i] : i \in MarkedIn(t, sn, w.idx)} = {-p}
    BY <1>1, <1>4, <1>p
  <2>2. ToSet(w.cur) = {}
    BY EmptyToSet
  <2> QED
    BY <2>1, <2>2, <1>5, <1>7 DEF Resolvent
<1>9. w.kept = <<>> /\ w.testing = 0 /\ w.stack = <<>>
  BY DEF Walking, Fresh
<1>10. Firm(s2, x) = s2
  BY <1>0, <1>9 DEF Firm
<1>11. \A q \in ToSet(x.learned) : VarOf(q) \in s2
  BY <1>0, <1>3, <1>7, <1>s DEF LitLevel
<1>12. \A v \in s2 : Named(x.rest, v)
  <2> TAKE v \in s2
  <2>1. CASE Named(w.learned, v)
    BY <2>1, <1>0
  <2>2. CASE \E i \in 1..w.idx : VarOf(t.lits[i]) = v /\ LitLevel(t, t.lits[i]) = LevelOf(t)
    <3>1. PICK i \in 1..w.idx : VarOf(t.lits[i]) = v /\ LitLevel(t, t.lits[i]) = LevelOf(t)
      BY <2>2
    <3>2. i \in C
      BY <3>1, <1>1 DEF MarkedIn
    <3> QED
      BY <3>1, <3>2, <1>4, <1>p, <1>s
  <2> QED
    BY <2>1, <2>2, <1>s DEF Marking
<1>13. ToSet(x.kept) \cup ToSet(x.rest) \subseteq ToSet(x.learned)
  BY <1>0, <1>9, EmptyToSet
<1>14. Justified(t, T, s2, x)
  BY <1>0, <1>9, <1>10, <1>11, <1>12, <1>13 DEF Justified
<1> QED
  BY <1>8, <1>14, <1>p

\* What the abstract solver asks of one resolution.
Resolves(t, sn, w, m, s, s2, x) ==
    /\ -t.lits[m] \in Resolvent(t, sn, w)
    /\ \A j \in 1..Len(t.lits) : j > m => -t.lits[j] \notin Resolvent(t, sn, w)
    /\ \E i \in 1..Len(t.lits) : /\ i # m /\ LitLevel(t, t.lits[i]) = LevelOf(t)
                                 /\ -t.lits[i] \in Resolvent(t, sn, w)
    /\ Resolvent(t, s2, x) = {l \in (Resolvent(t, sn, w) \ {-t.lits[m]}) \cup ToSet(s) :
                                 LitLevel(t, l) > 0}

\* The resolvent's last literal is replaced by its reason.
LEMMA ResolvedResolves ==
    ASSUME NEW t, WellFormed(t), LevelOf(t) > 0, NEW sn, NEW w \in WorkType,
           Walking(t, sn, w), Marking(t, sn, w), w.cur = <<>>, w.paths - 1 > 0,
           NEW m, Stops(t, sn, w, m), NEW s, NEW s2, s2 = sn \ {VarOf(t.lits[m])},
           NEW x, x.learned = w.learned, x.idx = m - 1, x.cur = s
    PROVE  Resolves(t, sn, w, m, s, s2, x) /\ Marking(t, s2, x)
<1>1. PICK C : C = MarkedIn(t, sn, w.idx)
  OBVIOUS
<1>2. IsFiniteSet(C) /\ w.paths = Cardinality(C) /\ w.paths \in Int /\ w.idx \in Nat
  BY <1>1, WorkParts DEF Walking, Counted
<1>3. PICK N \in Nat : N = Len(t.lits) /\ w.idx <= N
  <2>1. PICK N \in Nat : N = Len(t.lits)
    BY TrailParts DEF WellFormed
  <2> QED
    BY <2>1, <1>2 DEF Walking
<1>4. /\ m \in C /\ LitLevel(t, t.lits[m]) = LevelOf(t) /\ m \in 1..N /\ m \in 1..w.idx
      /\ \A i \in AheadIn(t, sn, w.idx) : i <= m
  BY <1>1, <1>3 DEF Stops
<1>5. \A i \in 1..N : t.lits[i] \in Lits /\ -t.lits[i] \in Lits /\ LitLevel(t, -t.lits[i]) = LitLevel(t, t.lits[i])
                      /\ VarOf(-t.lits[i]) = VarOf(t.lits[i])
  <2> TAKE i \in 1..N
  <2>1. t.lits[i] \in Lits
    BY <1>3, TrailParts DEF WellFormed
  <2> QED
    BY <2>1, TruthFacts, LitFacts
<1>6. LevelOf(t) \in Nat
  BY TrailParts DEF WellFormed, LevelOf
<1>7. \A q \in ToSet(w.learned) : LitLevel(t, q) > 0 /\ LitLevel(t, q) # LevelOf(t) /\ VarOf(q) \in sn
  BY <1>6 DEF Walking, Lower
<1>8. \A i \in C : i \in 1..w.idx /\ i \in 1..N /\ LitLevel(t, t.lits[i]) = LevelOf(t) /\ i <= m
                   /\ VarOf(t.lits[i]) \in sn
  <2> TAKE i \in C
  <2>1. i \in 1..w.idx /\ LitLevel(t, t.lits[i]) = LevelOf(t) /\ VarOf(t.lits[i]) \in sn
    BY <1>1 DEF MarkedIn
  <2>2. i \in AheadIn(t, sn, w.idx)
    BY <2>1 DEF AheadIn
  <2> QED
    BY <2>1, <2>2, <1>2, <1>3, <1>4
<1>9. \A l : l \in Resolvent(t, sn, w) <=> l \in ToSet(w.learned) \/ \E i \in C : l = -t.lits[i]
  <2>1. ToSet(w.cur) = {}
    BY EmptyToSet
  <2>2. \A i \in C : LitLevel(t, -t.lits[i]) > 0
    BY <1>5, <1>8
  <2> QED
    BY <2>1, <2>2, <1>1, <1>7 DEF Resolvent
<1>10. -t.lits[m] \in Resolvent(t, sn, w)
  BY <1>4, <1>9
<1>11. ASSUME NEW j \in 1..N, j > m, -t.lits[j] \in Resolvent(t, sn, w)
       PROVE  FALSE
  <2>1. CASE -t.lits[j] \in ToSet(w.learned)
    <3>1. VarOf(-t.lits[j]) \in sn
      BY <2>1, <1>7
    <3>2. PICK i \in 1..w.idx : VarOf(t.lits[i]) = VarOf(-t.lits[j])
      BY <3>1 DEF Walking
    <3>3. i \in AheadIn(t, sn, w.idx) /\ i \in 1..N
      BY <3>1, <3>2, <1>2, <1>3 DEF AheadIn
    <3>4. i = j
      BY <3>2, <3>3, <1>3, <1>5, <1>11 DEF WellFormed
    <3> QED
      BY <3>3, <3>4, <1>4, <1>11
  <2>2. CASE \E i \in C : -t.lits[j] = -t.lits[i]
    <3>1. PICK i \in C : -t.lits[j] = -t.lits[i]
      BY <2>2
    <3>2. VarOf(t.lits[i]) = VarOf(t.lits[j])
      BY <3>1, <1>5, <1>8
    <3>3. i = j
      BY <3>2, <1>3, <1>8, <1>11 DEF WellFormed
    <3> QED
      BY <3>3, <1>4, <1>8, <1>11
  <2> QED
    BY <2>1, <2>2, <1>9, <1>11
<1>12. PICK i \in C : i # m
  <2>1. Cardinality(C \ {m}) = Cardinality(C) - 1
    BY <1>2, <1>4, FS_RemoveElement
  <2>2. ASSUME C \ {m} = {}
        PROVE  FALSE
    <3>1. Cardinality(C \ {m}) = 0
      BY <2>2, FS_EmptySet
    <3> QED
      BY <3>1, <2>1, <1>2
  <2> QED
    BY <2>2
<1>13. i \in 1..N /\ LitLevel(t, t.lits[i]) = LevelOf(t) /\ -t.lits[i] \in Resolvent(t, sn, w)
  BY <1>8, <1>9, <1>12
<1>14. MarkedIn(t, s2, x.idx) = C \ {m}
  BY <1>1, <1>3, MarkedRest
<1>15. -t.lits[m] \notin ToSet(w.learned)
  BY <1>4, <1>5, <1>7
<1>16. \A j \in C : -t.lits[j] = -t.lits[m] => j = m
  <2> TAKE j \in C
  <2> HAVE -t.lits[j] = -t.lits[m]
  <2>1. VarOf(t.lits[j]) = VarOf(t.lits[m])
    BY <1>4, <1>5, <1>8
  <2> QED
    BY <2>1, <1>3, <1>4, <1>8 DEF WellFormed
<1>17. \A l : \/ l \in ToSet(w.learned)
              \/ \E j \in C \ {m} : l = -t.lits[j]
              <=> l \in Resolvent(t, sn, w) \ {-t.lits[m]}
  BY <1>9, <1>15, <1>16
<1>18. Resolvent(t, s2, x) = {l \in (Resolvent(t, sn, w) \ {-t.lits[m]}) \cup ToSet(s) : LitLevel(t, l) > 0}
  BY <1>14, <1>17 DEF Resolvent
<1>19. Marking(t, s2, x)
  <2> SUFFICES ASSUME NEW v \in s2, ~Named(x.learned, v)
               PROVE  \E k \in 1..x.idx : VarOf(t.lits[k]) = v /\ LitLevel(t, t.lits[k]) = LevelOf(t)
    BY DEF Marking
  <2>1. v \in sn /\ ~Named(w.learned, v)
    OBVIOUS
  <2>2. PICK k \in 1..w.idx : VarOf(t.lits[k]) = v /\ LitLevel(t, t.lits[k]) = LevelOf(t)
    BY <2>1 DEF Marking
  <2>3. k \in C /\ k # m
    BY <2>1, <2>2, <1>1 DEF MarkedIn
  <2>4. k \in 1..x.idx
    BY <2>3, <1>4, <1>8
  <2> QED
    BY <2>2, <2>4
<1>20. Resolves(t, sn, w, m, s, s2, x)
  BY <1>3, <1>10, <1>11, <1>12, <1>13, <1>18 DEF Resolves
<1> QED
  BY <1>19, <1>20

LEMMA BeginResolves ==
    ASSUME NEW t, NEW s, NEW x, x.cur = s, x.learned = <<>>
    PROVE  Marking(t, {}, x) /\ Resolvent(t, {}, x) = {l \in ToSet(s) : LitLevel(t, l) > 0}
  BY EmptyToSet DEF Marking, Resolvent, MarkedIn

\* The other literals of each reason were falsified before.
TailsFalse(t, T) ==
    \A i \in 1..Len(t.lits) : ReasonOf(t, t.lits[i]) # Decision =>
        \A q \in T[VarOf(t.lits[i])] : q \in Lits /\ FalseBy(t, q, i - 1)

\* The true literal x is a root fact, one of K or at a position of S.
Rests(t, S, K, x) ==
    \/ IsTrue(t, x) /\ LitLevel(t, x) = 0
    \/ x \in K
    \/ \E i \in S : t.lits[i] = x

\* The literals at the positions of S follow from K and the root facts.
Supports(t, T, S, K) ==
    \A i \in S :
        /\ ReasonOf(t, t.lits[i]) # Decision
        /\ \A q \in T[VarOf(t.lits[i])] : Rests(t, S, K, -q)

\* The learned literals are false below the level of the conflict.
Drawn(t, w) == \A q \in ToSet(w.learned) : Lower(t, q)

\* Two false literals of one variable are one.
LEMMA OneFalse ==
    ASSUME NEW t, WellFormed(t), NEW q \in Lits, NEW k \in Lits, IsFalse(t, q), IsFalse(t, k),
           VarOf(q) = VarOf(k)
    PROVE  q = k
<1>1. q = k \/ q = -k
  BY LitFacts
<1> QED
  BY <1>1, TruthFacts

\* Minimization leaves out what follows from the rest of the clause.
LEMMA WarrantSupports ==
    ASSUME NEW t, WellFormed(t), NEW T, TailsFalse(t, T), NEW w \in WorkType, Drawn(t, w),
           Warranted(t, T, w), NEW K, \A q \in ToSet(w.kept) : -q \in K
    PROVE  \E S \in SUBSET (1..Len(t.lits)) :
              /\ Supports(t, T, S, K)
              /\ \A q \in ToSet(w.learned) : Rests(t, S, K, -q)
<1>1. PICK V \in SUBSET Vars : /\ ToSet(w.kept) \subseteq ToSet(w.learned)
                               /\ \A q \in ToSet(w.learned) : VarOf(q) \in V
                               /\ \A v \in V : Named(w.kept, v) \/ Explained(t, T, v, V, {})
  BY DEF Warranted
<1>2. PICK S : S = {i \in 1..Len(t.lits) : VarOf(t.lits[i]) \in V /\ ~Named(w.kept, VarOf(t.lits[i]))}
  OBVIOUS
<1>3. \A q \in ToSet(w.learned) : q \in Lits /\ IsFalse(t, q)
  BY WorkParts, ToSetFacts DEF Drawn, Lower
<1>4. ASSUME NEW q \in Lits, IsFalse(t, q), VarOf(q) \in V
      PROVE  Rests(t, S, K, -q)
  <2>1. PICK j \in 1..Len(t.lits) : t.lits[j] = -q
    BY <1>4, TruthFacts
  <2>2. VarOf(t.lits[j]) = VarOf(q)
    BY <2>1, LitFacts
  <2>3. CASE Named(w.kept, VarOf(q))
    <3>1. PICK k \in ToSet(w.kept) : VarOf(k) = VarOf(q)
      BY <2>3 DEF Named
    <3>2. k \in Lits /\ IsFalse(t, k)
      BY <1>1, <1>3
    <3>3. k = q
      BY <3>1, <3>2, <1>4, OneFalse
    <3> QED
      BY <3>3 DEF Rests
  <2>4. CASE ~Named(w.kept, VarOf(q))
    BY <2>1, <2>2, <2>4, <1>2, <1>4 DEF Rests
  <2> QED
    BY <2>3, <2>4
<1>5. ASSUME NEW i \in S
      PROVE  ReasonOf(t, t.lits[i]) # Decision /\ \A q \in T[VarOf(t.lits[i])] : Rests(t, S, K, -q)
  <2>0. PICK v : v = VarOf(t.lits[i])
    OBVIOUS
  <2>1. i \in 1..Len(t.lits) /\ Explained(t, T, v, V, {})
    BY <1>1, <1>2, <2>0
  <2>2. VarOf(v) = v
    <3>1. t.lits[i] \in Lits
      BY <2>1, TrailParts DEF WellFormed
    <3> QED
      BY <3>1, <2>0, LitFacts DEF VarOf
  <2>3. ReasonOf(t, t.lits[i]) # Decision
    BY <2>0, <2>1, <2>2 DEF Explained, ReasonOf
  <2>4. ASSUME NEW q \in T[v]
        PROVE  Rests(t, S, K, -q)
    <3>1. q \in Lits /\ FalseBy(t, q, i - 1)
      BY <2>0, <2>1, <2>3, <2>4 DEF TailsFalse
    <3>2. i - 1 \in 0..Len(t.lits)
      BY <2>1, TrailParts DEF WellFormed
    <3>3. IsFalse(t, q) /\ LitLevel(t, q) \in 0..LevelOf(t) /\ LevelOf(t) \in Nat
      BY <3>1, <3>2, FalseByFacts, TrailParts DEF WellFormed, LevelOf
    <3>4. CASE ~(LitLevel(t, q) > 0)
      <4>1. IsTrue(t, -q) /\ LitLevel(t, -q) = LitLevel(t, q) /\ LitLevel(t, q) = 0
        BY <3>1, <3>3, <3>4, TruthFacts
      <4> QED
        BY <4>1 DEF Rests
    <3>5. CASE VarOf(q) \in V
      BY <3>1, <3>3, <3>5, <1>4
    <3> QED
      BY <2>1, <2>4, <3>4, <3>5 DEF Explained
  <2> QED
    BY <2>0, <2>3, <2>4
<1>6. \A q \in ToSet(w.learned) : Rests(t, S, K, -q)
  BY <1>1, <1>3, <1>4
<1>7. S \in SUBSET (1..Len(t.lits))
  BY <1>2
<1>8. Supports(t, T, S, K)
  BY <1>5 DEF Supports
<1> QED
  BY <1>6, <1>7, <1>8

(***************************************************************************)
(* analyze_final blames decisions the clash follows from.                   *)
(***************************************************************************)
\* The true literal x is accounted for, or its variable is still marked.
Carried(t, sn, S, K, x) == Rests(t, S, K, x) \/ VarOf(x) \in sn

\* The reasons at the positions of S are accounted for, the literals of K are
\* decisions above the root, and the clash itself is accounted for.
Backed(t, T, sn, w, S, K) ==
    /\ \A i \in S : /\ ReasonOf(t, t.lits[i]) # Decision
                    /\ \A q \in T[VarOf(t.lits[i])] : Carried(t, sn, S, K, -q)
    /\ \A l \in K : \E i \in 1..Len(t.lits) :
          t.lits[i] = l /\ ReasonOf(t, l) = Decision /\ LitLevel(t, l) > 0
    /\ Carried(t, sn, S, K, w.uip)
    /\ VarOf(w.uip) \in sn => \E i \in 1..w.idx : t.lits[i] = w.uip

\* The walk has followed the reasons of the positions it passed.
Traced(t, T, sn, w, core) ==
    \E S \in SUBSET (1..Len(t.lits)), K \in SUBSET Lits :
        core = K \cup {-w.uip} /\ Backed(t, T, sn, w, S, K)

LEMMA BeginTraced ==
    ASSUME NEW t, WellFormed(t), NEW T, NEW p \in Lits, IsTrue(t, p), NEW sn, sn = {VarOf(p)},
           NEW x, x.uip = p, x.idx = Len(t.lits), NEW core, core = {-p}
    PROVE  Traced(t, T, sn, x, core)
<1>1. \E i \in 1..x.idx : t.lits[i] = p
  BY TruthFacts
<1>2. Backed(t, T, sn, x, {}, {})
  BY <1>1 DEF Backed, Carried
<1> QED
  BY <1>2 DEF Traced

\* The marks a position leaves, and the decision blamed at it.
BlamesAt(t, T, sn, i, s2, more) ==
    LET x == t.lits[i]
    IN  IF VarOf(x) \notin sn THEN s2 = sn /\ more = {}
        ELSE IF ReasonOf(t, x) = Decision THEN s2 = sn \ {VarOf(x)} /\ more = {x}
        ELSE /\ s2 = (sn \cup {VarOf(q) : q \in {k \in T[VarOf(x)] : LitLevel(t, k) > 0}}) \ {VarOf(x)}
             /\ more = {}

\* What carries over a position.
Passes(t, S, K, sn, S2, K2, s2) ==
    \A x \in Lits : IsTrue(t, x) /\ Carried(t, sn, S, K, x) => Carried(t, s2, S2, K2, x)

LEMMA BackedOn ==
    ASSUME NEW t, WellFormed(t), NEW T, TailsFalse(t, T), NEW sn, NEW w, NEW S \in SUBSET (1..Len(t.lits)),
           NEW K, Backed(t, T, sn, w, S, K), NEW p \in Lits, w.uip = p, IsTrue(t, p),
           NEW i \in 1..Len(t.lits), w.idx = i, VarOf(t.lits[i]) \in sn,
           NEW s2, NEW S2, S \subseteq S2, NEW K2, NEW x, x.uip = p, x.idx = i - 1,
           Passes(t, S, K, sn, S2, K2, s2),
           \A j \in S2 \ S : /\ ReasonOf(t, t.lits[j]) # Decision
                             /\ \A q \in T[VarOf(t.lits[j])] : Carried(t, s2, S2, K2, -q),
           \A l \in K2 \ K : \E j \in 1..Len(t.lits) :
                t.lits[j] = l /\ ReasonOf(t, l) = Decision /\ LitLevel(t, l) > 0,
           VarOf(t.lits[i]) \notin s2,
           VarOf(p) \in s2 => VarOf(p) \in sn \/ \E j \in 1..(i - 1) : t.lits[j] = p
    PROVE  Backed(t, T, s2, x, S2, K2)
<1>1. ASSUME NEW j \in S
      PROVE  /\ ReasonOf(t, t.lits[j]) # Decision
             /\ \A q \in T[VarOf(t.lits[j])] : Carried(t, s2, S2, K2, -q)
  <2>1. ReasonOf(t, t.lits[j]) # Decision /\ \A q \in T[VarOf(t.lits[j])] : Carried(t, sn, S, K, -q)
    BY DEF Backed
  <2>2. ASSUME NEW q \in T[VarOf(t.lits[j])]
        PROVE  Carried(t, s2, S2, K2, -q)
    <3>1. q \in Lits /\ FalseBy(t, q, j - 1)
      BY <2>1 DEF TailsFalse
    <3>2. j - 1 \in 0..Len(t.lits)
      BY TrailParts DEF WellFormed
    <3>3. IsFalse(t, q)
      BY <3>1, <3>2, FalseByFacts
    <3>4. -q \in Lits /\ IsTrue(t, -q)
      BY <3>1, <3>3, TruthFacts, LitFacts
    <3> QED
      BY <2>1, <3>4 DEF Passes
  <2> QED
    BY <2>1, <2>2
<1>2. Carried(t, s2, S2, K2, p)
  BY DEF Backed, Passes
<1>3. ASSUME VarOf(p) \in s2
      PROVE  \E j \in 1..(i - 1) : t.lits[j] = p
  <2>1. CASE VarOf(p) \in sn
    <3>1. PICK j \in 1..i : t.lits[j] = p
      BY <2>1 DEF Backed
    <3>2. j # i
      BY <3>1, <1>3
    <3> QED
      BY <3>1, <3>2
  <2> QED
    BY <2>1, <1>3
<1> QED
  BY <1>1, <1>2, <1>3 DEF Backed

LEMMA BlameTraced ==
    ASSUME NEW t, WellFormed(t), NEW T, TailsFalse(t, T), NEW sn, NEW w, NEW core,
           Traced(t, T, sn, w, core), NEW p \in Lits, w.uip = p, IsTrue(t, p),
           NEW i \in 1..Len(t.lits), w.idx = i, LitLevel(t, t.lits[i]) > 0,
           NEW s2, NEW more, BlamesAt(t, T, sn, i, s2, more),
           NEW x, x.uip = p, x.idx = i - 1
    PROVE  Traced(t, T, s2, x, core \cup more)
<1>1. PICK S \in SUBSET (1..Len(t.lits)), K \in SUBSET Lits :
          core = K \cup {-p} /\ Backed(t, T, sn, w, S, K)
  BY DEF Traced
<1>2. PICK y : y = t.lits[i] /\ y \in Lits /\ IsTrue(t, y)
  <2>1. t.lits[i] \in Lits
    BY TrailParts DEF WellFormed
  <2> QED
    BY <2>1, TruthFacts
<1>3. \A z \in Lits : IsTrue(t, z) /\ VarOf(z) = VarOf(y) => z = y
  <2> TAKE z \in Lits
  <2> HAVE IsTrue(t, z) /\ VarOf(z) = VarOf(y)
  <2>1. PICK j \in 1..Len(t.lits) : t.lits[j] = z
    BY TruthFacts
  <2>2. j = i
    BY <2>1, <1>2 DEF WellFormed
  <2> QED
    BY <2>1, <2>2, <1>2
<1>4. CASE VarOf(y) \notin sn
  <2>1. s2 = sn /\ more = {}
    BY <1>2, <1>4 DEF BlamesAt
  <2>2. VarOf(p) \in sn => \E j \in 1..(i - 1) : t.lits[j] = p
    <3> HAVE VarOf(p) \in sn
    <3>1. PICK j \in 1..i : t.lits[j] = p
      BY <1>1 DEF Backed
    <3>2. j # i
      BY <3>1, <1>2, <1>4
    <3> QED
      BY <3>1, <3>2
  <2>3. Backed(t, T, sn, x, S, K)
    BY <1>1, <2>2 DEF Backed
  <2> QED
    BY <1>1, <2>1, <2>3 DEF Traced
<1>5. CASE VarOf(y) \in sn /\ ReasonOf(t, y) = Decision
  <2>1. s2 = sn \ {VarOf(y)} /\ more = {y}
    BY <1>2, <1>5 DEF BlamesAt
  <2>2. PICK K2 : K2 = K \cup {y}
    OBVIOUS
  <2>3. Passes(t, S, K, sn, S, K2, s2)
    BY <1>3, <2>1, <2>2 DEF Passes, Carried, Rests
  <2>4. \A l \in K2 \ K : \E j \in 1..Len(t.lits) :
            t.lits[j] = l /\ ReasonOf(t, l) = Decision /\ LitLevel(t, l) > 0
    BY <1>2, <1>5, <2>2
  <2>5. Backed(t, T, s2, x, S, K2)
    BY <1>1, <1>2, <1>5, <2>1, <2>2, <2>3, <2>4, BackedOn
  <2>6. core \cup more = K2 \cup {-p} /\ K2 \in SUBSET Lits
    BY <1>1, <1>2, <2>1, <2>2
  <2> QED
    BY <2>5, <2>6 DEF Traced
<1>6. CASE VarOf(y) \in sn /\ ReasonOf(t, y) # Decision
  <2>1. /\ s2 = (sn \cup {VarOf(q) : q \in {k \in T[VarOf(y)] : LitLevel(t, k) > 0}}) \ {VarOf(y)}
        /\ more = {}
    BY <1>2, <1>6 DEF BlamesAt
  <2>2. PICK S2 : S2 = S \cup {i}
    OBVIOUS
  <2>3. Passes(t, S, K, sn, S2, K, s2)
    BY <1>2, <1>3, <2>1, <2>2 DEF Passes, Carried, Rests
  <2>4. ASSUME NEW q \in T[VarOf(y)]
        PROVE  /\ \E j \in 1..(i - 1) : t.lits[j] = -q
               /\ q \in Lits /\ IsTrue(t, -q) /\ VarOf(-q) = VarOf(q) /\ VarOf(q) # VarOf(y)
               /\ LitLevel(t, -q) = LitLevel(t, q) /\ LitLevel(t, q) >= 0
    <3>1. q \in Lits /\ FalseBy(t, q, i - 1)
      BY <1>2, <1>6 DEF TailsFalse
    <3>2. i - 1 \in 0..Len(t.lits)
      BY TrailParts DEF WellFormed
    <3>3. PICK j \in 1..(i - 1) : j \in 1..Len(t.lits) /\ t.lits[j] = -q /\ IsFalse(t, q)
                                  /\ LitLevel(t, q) \in 0..LevelOf(t)
      BY <3>1, <3>2, FalseByFacts
    <3>4. LevelOf(t) \in Nat
      BY TrailParts DEF WellFormed, LevelOf
    <3>5. VarOf(-q) = VarOf(q) /\ IsTrue(t, -q) /\ LitLevel(t, -q) = LitLevel(t, q)
      BY <3>1, <3>3, TruthFacts, LitFacts
    <3>6. VarOf(t.lits[j]) # VarOf(t.lits[i])
      BY <3>3 DEF WellFormed
    <3> QED
      BY <3>1, <3>3, <3>4, <3>5, <3>6, <1>2
  <2>5. \A q \in T[VarOf(y)] : Carried(t, s2, S2, K, -q)
    <3> TAKE q \in T[VarOf(y)]
    <3>1. CASE LitLevel(t, q) > 0
      <4>1. VarOf(q) \in s2
        BY <3>1, <2>1, <2>4
      <4> QED
        BY <4>1, <2>4 DEF Carried
    <3>2. CASE ~(LitLevel(t, q) > 0)
      <4>1. LevelOf(t) \in Nat /\ LitLevel(t, q) \in 0..LevelOf(t)
        <5>1. IsFalse(t, q) /\ q \in Lits
          BY <2>4, TruthFacts
        <5> QED
          BY <5>1, TruthFacts, TrailParts DEF WellFormed, LevelOf
      <4>2. LitLevel(t, -q) = 0
        BY <4>1, <3>2, <2>4
      <4> QED
        BY <4>2, <2>4 DEF Carried, Rests
    <3> QED
      BY <3>1, <3>2
  <2>6. \A j \in S2 \ S : /\ ReasonOf(t, t.lits[j]) # Decision
                          /\ \A q \in T[VarOf(t.lits[j])] : Carried(t, s2, S2, K, -q)
    BY <1>2, <1>6, <2>2, <2>5
  <2>7. VarOf(p) \in s2 => VarOf(p) \in sn \/ \E j \in 1..(i - 1) : t.lits[j] = p
    <3> SUFFICES ASSUME VarOf(p) \in s2, VarOf(p) \notin sn
                 PROVE  \E j \in 1..(i - 1) : t.lits[j] = p
      OBVIOUS
    <3>1. PICK q \in T[VarOf(y)] : VarOf(p) = VarOf(q)
      BY <2>1
    <3>2. PICK j \in 1..(i - 1) : t.lits[j] = -q
      BY <2>4
    <3>3. -q \in Lits /\ VarOf(-q) = VarOf(p)
      BY <3>1, <2>4, LitFacts
    <3>4. IsFalse(t, -p) /\ IsFalse(t, q) /\ -p \in Lits /\ VarOf(-p) = VarOf(q) /\ p = -(-p)
      BY <3>1, <2>4, TruthFacts, LitFacts
    <3>5. -p = q
      BY <3>4, <2>4, OneFalse
    <3> QED
      BY <3>2, <3>4, <3>5
  <2>8. S2 \in SUBSET (1..Len(t.lits)) /\ VarOf(t.lits[i]) \notin s2 /\ S \subseteq S2
    BY <2>1, <2>2, <1>2
  <2>9. Backed(t, T, s2, x, S2, K)
    BY <1>1, <1>2, <1>6, <2>3, <2>6, <2>7, <2>8, BackedOn
  <2> QED
    BY <1>1, <2>1, <2>8, <2>9 DEF Traced
<1> QED
  BY <1>4, <1>5, <1>6

\* The blame ends: what is left of the marks is a root fact.
LEMMA EndTraced ==
    ASSUME NEW t, WellFormed(t), LevelOf(t) > 0, NEW T, TailsFalse(t, T), NEW sn, NEW w,
           NEW core, Traced(t, T, sn, w, core), Tracing(t, sn, w), w.idx <= t.lim[1],
           NEW p \in Lits, w.uip = p, IsTrue(t, p)
    PROVE  \E S \in SUBSET (1..Len(t.lits)), K \in SUBSET Lits :
              /\ core = K \cup {-p}
              /\ \A l \in K : \E i \in 1..Len(t.lits) :
                    t.lits[i] = l /\ ReasonOf(t, l) = Decision /\ LitLevel(t, l) > 0
              /\ Supports(t, T, S, K) /\ Rests(t, S, K, p)
<1>1. PICK S \in SUBSET (1..Len(t.lits)), K \in SUBSET Lits :
          core = K \cup {-p} /\ Backed(t, T, sn, w, S, K)
  BY DEF Traced
<1>2. /\ t.lim[1] \in Nat /\ Len(t.lits) \in Nat
      /\ \A i \in 1..Len(t.lits) : LitLevel(t, t.lits[i]) > 0 => t.lim[1] < i
  BY FirstLimit
<1>3. w.idx \in t.lim[1]..Len(t.lits)
  BY DEF Tracing
<1>4. w.idx = t.lim[1]
  BY <1>2, <1>3
<1>5. \A v \in sn : v = VarOf(p)
  <2> TAKE v \in sn
  <2>1. v = VarOf(p) \/ \E i \in (t.lim[1] + 1)..w.idx : VarOf(t.lits[i]) = v
    BY DEF Tracing
  <2> QED
    BY <2>1, <1>2, <1>4
<1>6. VarOf(p) \in sn => LitLevel(t, p) = 0
  <2> HAVE VarOf(p) \in sn
  <2>1. PICK i \in 1..w.idx : t.lits[i] = p
    BY <1>1 DEF Backed
  <2>2. i \in 1..Len(t.lits) /\ ~(t.lim[1] < i)
    BY <2>1, <1>2, <1>3, <1>4
  <2>3. ~(LitLevel(t, p) > 0)
    BY <2>1, <2>2, <1>2
  <2>4. LitLevel(t, p) \in 0..LevelOf(t) /\ LevelOf(t) \in Nat
    BY TruthFacts, TrailParts DEF WellFormed, LevelOf
  <2> QED
    BY <2>3, <2>4
<1>7. ASSUME NEW x \in Lits, IsTrue(t, x), Carried(t, sn, S, K, x)
      PROVE  Rests(t, S, K, x)
  <2>1. CASE VarOf(x) \in sn
    <3>1. VarOf(x) = VarOf(p)
      BY <2>1, <1>5
    <3>2. LitLevel(t, x) = 0
      BY <2>1, <3>1, <1>6 DEF LitLevel
    <3> QED
      BY <3>2, <1>7 DEF Rests
  <2> QED
    BY <2>1, <1>7 DEF Carried
<1>8. ASSUME NEW i \in S
      PROVE  ReasonOf(t, t.lits[i]) # Decision /\ \A q \in T[VarOf(t.lits[i])] : Rests(t, S, K, -q)
  <2>1. ReasonOf(t, t.lits[i]) # Decision /\ \A q \in T[VarOf(t.lits[i])] : Carried(t, sn, S, K, -q)
    BY <1>1 DEF Backed
  <2>2. ASSUME NEW q \in T[VarOf(t.lits[i])]
        PROVE  Rests(t, S, K, -q)
    <3>1. q \in Lits /\ FalseBy(t, q, i - 1)
      BY <2>1 DEF TailsFalse
    <3>2. i - 1 \in 0..Len(t.lits)
      BY <1>2
    <3>3. IsFalse(t, q)
      BY <3>1, <3>2, FalseByFacts
    <3>4. -q \in Lits /\ IsTrue(t, -q)
      BY <3>1, <3>3, TruthFacts, LitFacts
    <3> QED
      BY <2>1, <3>4, <1>7
  <2> QED
    BY <2>1, <2>2
<1>9. Supports(t, T, S, K)
  BY <1>8 DEF Supports
<1>10. Rests(t, S, K, p)
  BY <1>1, <1>7 DEF Backed
<1>11. \A l \in K : \E i \in 1..Len(t.lits) :
          t.lits[i] = l /\ ReasonOf(t, l) = Decision /\ LitLevel(t, l) > 0
  BY <1>1 DEF Backed
<1> QED
  BY <1>1, <1>9, <1>10, <1>11

(***************************************************************************)
(* The steps of analysis, with the literals each reason rests on.           *)
(***************************************************************************)
Tails == [v \in Vars |-> ToSet(ReasonTail(trail, v))]

LEMMA TailsAre ==
    ASSUME NEW q \in Lits
    PROVE  Tails[VarOf(q)] = ToSet(ReasonTail(trail, q))
<1>1. VarOf(q) \in Vars /\ VarOf(VarOf(q)) = VarOf(q)
  BY LitFacts DEF VarOf
<1>2. ReasonTail(trail, VarOf(q)) = ReasonTail(trail, q)
  BY <1>1 DEF ReasonTail, ReasonOf
<1> QED
  BY <1>1, <1>2 DEF Tails

LEMMA TailsStay ==
    ASSUME UNCHANGED <<trail, arena>>
    PROVE  Tails' = Tails
<1>1. \A v \in Vars : ReasonTail(trail, v)' = ReasonTail(trail, v)
  BY DEF ReasonTail, Body, ReasonOf
<1> QED
  BY <1>1 DEF Tails

LEMMA TailsRight == PropInv => TailsFalse(trail, Tails)
<1> SUFFICES ASSUME PropInv, NEW i \in 1..Len(trail.lits), ReasonOf(trail, trail.lits[i]) # Decision,
                    NEW q \in Tails[VarOf(trail.lits[i])]
             PROVE  q \in Lits /\ FalseBy(trail, q, i - 1)
  BY DEF TailsFalse
<1>1. PICK p \in Lits : p = trail.lits[i]
  BY TypedDb, TrailParts DEF WellFormed
<1>2. PICK s : s = ReasonTail(trail, p)
  OBVIOUS
<1>3. q \in ToSet(s)
  BY <1>1, <1>2, TailsAre
<1>4. s \in Seq(Lits) /\ \A k \in ToSet(s) : \E j \in 1..(i - 1) : trail.lits[j] = -k
  BY <1>1, <1>2, TailFacts
<1> QED
  BY <1>3, <1>4, ToSetFacts DEF FalseBy

\* What the walk and the minimization keep so that each step is a resolution.
AnalyzeRef ==
    /\ step = "walk" => Marking(trail, seen, work)
    /\ step = "minimize" => Justified(trail, Tails, seen, work)
    /\ step = "learn" => Warranted(trail, Tails, work)
    /\ step \in {"minimize", "learn"} => Drawn(trail, work)

\* The clause analysis has arrived at.
Resolved ==
    IF step = "walk" THEN Resolvent(trail, seen, work)
    ELSE {-work.uip} \cup ToSet(work.learned)

\* It changes where it is resolved with the reason of its last literal.
ResolvesAt(m) ==
    /\ step = "walk" /\ m \in 1..Len(trail.lits)
    /\ ReasonOf(trail, trail.lits[m]) # Decision
    /\ -trail.lits[m] \in Resolved
    /\ \A j \in 1..Len(trail.lits) : j > m => -trail.lits[j] \notin Resolved
    /\ \E i \in 1..Len(trail.lits) : /\ i # m /\ LitLevel(trail, trail.lits[i]) = LevelOf(trail)
                                     /\ -trail.lits[i] \in Resolved
    /\ Resolved' = {l \in (Resolved \ {-trail.lits[m]}) \cup Tails[VarOf(trail.lits[m])] :
                      LitLevel(trail, l) > 0}

\* A step of analysis resolves once with a reason, or not at all.
Tracks == AnalyzeRef' /\ (Resolved' = Resolved \/ \E m \in Nat : ResolvesAt(m))

LEMMA TouchTracks ==
    ASSUME PropInv, LevelOf(trail) > 0, AnalyzeSteps, AnalyzeRef, Touch, trail' = trail
    PROVE  Tracks
<1>1. PICK w : w = work
  OBVIOUS
<1>2. PICK q : q = Head(w.cur)
  OBVIOUS
<1>3. /\ w \in WorkType /\ Walking(trail, seen, w) /\ w.cur # <<>> /\ WellFormed(trail)
      /\ step = "walk" /\ step' = "walk" /\ Marking(trail, seen, w)
  BY <1>1, TypedDb DEF AnalyzeSteps, AnalyzeTypeOK, AnalyzeInv, AnalyzeRef, Touch
<1>4. PICK s2 : s2 = seen'
  OBVIOUS
<1>5. PICK x : x = work'
  OBVIOUS
<1>6. Marking(trail, s2, x) /\ Resolvent(trail, s2, x) = Resolvent(trail, seen, w)
  <2>1. CASE ~Unmarked(q) /\ work' = [work EXCEPT !.cur = Tail(@)] /\ UNCHANGED <<seen, toclear>>
    <3>1. x = [w EXCEPT !.cur = Tail(@)] /\ s2 = seen
      BY <2>1, <1>1, <1>4, <1>5
    <3>2. x.cur = Tail(w.cur) /\ x.learned = w.learned /\ x.idx = w.idx
      BY <3>1, <1>3 DEF WorkType
    <3>3. VarOf(q) \in seen \/ ~(LitLevel(trail, q) > 0)
      BY <2>1 DEF Unmarked
    <3> QED
      BY <3>1, <3>2, <3>3, <1>2, <1>3, SkipResolves
  <2>2. CASE /\ Unmarked(q) /\ OfLevel(q) /\ Mark(q)
             /\ work' = [work EXCEPT !.cur = Tail(@), !.paths = @ + 1]
    <3>1. x = [w EXCEPT !.cur = Tail(@), !.paths = @ + 1]
      BY <2>2, <1>1, <1>5
    <3>4. s2 = seen \cup {VarOf(q)}
      BY <2>2, <1>4 DEF Mark
    <3>2. x.cur = Tail(w.cur) /\ x.learned = w.learned /\ x.idx = w.idx
      BY <3>1, <1>3 DEF WorkType
    <3>3. VarOf(q) \notin seen /\ LitLevel(trail, q) >= LevelOf(trail)
      BY <2>2 DEF Unmarked, OfLevel
    <3> QED
      BY <3>2, <3>3, <3>4, <1>2, <1>3, CountResolves
  <2>3. CASE /\ Unmarked(q) /\ ~OfLevel(q) /\ Mark(q)
             /\ work' = [work EXCEPT !.cur = Tail(@), !.learned = Append(@, q)]
    <3>1. x = [w EXCEPT !.cur = Tail(@), !.learned = Append(@, q)]
      BY <2>3, <1>1, <1>5
    <3>4. s2 = seen \cup {VarOf(q)}
      BY <2>3, <1>4 DEF Mark
    <3>2. x.cur = Tail(w.cur) /\ x.learned = Append(w.learned, q) /\ x.idx = w.idx
      BY <3>1, <1>3 DEF WorkType
    <3>3. VarOf(q) \notin seen /\ ~(LitLevel(trail, q) >= LevelOf(trail))
      BY <2>3 DEF Unmarked, OfLevel
    <3> QED
      BY <3>2, <3>3, <3>4, <1>2, <1>3, LearnResolves
  <2> QED
    BY <2>1, <2>2, <2>3, <1>1, <1>2 DEF Touch
<1>7. Resolved' = Resolved
  BY <1>1, <1>3, <1>4, <1>5, <1>6 DEF Resolved
<1>8. AnalyzeRef'
  BY <1>3, <1>4, <1>5, <1>6 DEF AnalyzeRef
<1> QED
  BY <1>7, <1>8 DEF Tracks

LEMMA WalkTracks ==
    ASSUME PropInv, Shaped(trail), LevelOf(trail) > 0, AnalyzeSteps, AnalyzeRef, Walk,
           UNCHANGED <<trail, arena>>
    PROVE  Tracks
<1>1. PICK w : w = work
  OBVIOUS
<1>2. /\ w \in WorkType /\ Walking(trail, seen, w) /\ w.cur = <<>> /\ WellFormed(trail)
      /\ step = "walk" /\ Marking(trail, seen, w)
  BY <1>1, TypedDb DEF AnalyzeSteps, AnalyzeTypeOK, AnalyzeInv, AnalyzeRef, Walk
<1>3. PICK m : m = Max(Ahead)
  OBVIOUS
<1>4. PICK p : p = trail.lits[m]
  OBVIOUS
<1>5. Ahead = AheadIn(trail, seen, w.idx)
  BY <1>1 DEF Ahead, AheadIn
<1>6. Stops(trail, seen, w, m)
  BY <1>2, <1>3, <1>5, NextMarked
<1>7. /\ seen' = seen \ {VarOf(p)}
      /\ \/ /\ work.paths - 1 <= 0
            /\ step' = "minimize"
            /\ work' = [work EXCEPT !.idx = m - 1, !.paths = @ - 1, !.uip = p,
                                    !.rest = work.learned]
         \/ /\ work.paths - 1 > 0 /\ ReasonOf(trail, p) # Decision
            /\ work' = [work EXCEPT !.idx = m - 1, !.paths = @ - 1, !.cur = ReasonTail(trail, p)]
            /\ UNCHANGED step
  BY <1>3, <1>4 DEF Walk
<1>8. PICK s2 : s2 = seen' /\ s2 = seen \ {VarOf(p)}
  BY <1>7
<1>9. PICK x : x = work'
  OBVIOUS
<1>10. PICK T : T = Tails /\ T = Tails'
  BY TailsStay
<1>11. CASE /\ work.paths - 1 <= 0 /\ step' = "minimize"
            /\ work' = [work EXCEPT !.idx = m - 1, !.paths = @ - 1, !.uip = p,
                                    !.rest = work.learned]
  <2>1. /\ x.learned = w.learned /\ x.kept = w.kept /\ x.rest = w.learned /\ x.uip = p
        /\ x.testing = w.testing /\ x.stack = w.stack /\ x.cur = w.cur
    BY <1>1, <1>2, <1>9, <1>11 DEF WorkType
  <2>2. /\ Resolvent(trail, seen, w) = {-trail.lits[m]} \cup ToSet(w.learned)
        /\ Justified(trail, T, s2, x)
    <3>1. ~(w.paths - 1 > 0)
      <4>1. w.paths - 1 <= 0 /\ w.paths \in Int
        BY <1>1, <1>2, <1>11, WorkParts
      <4> QED
        BY <4>1
    <3>2. StartsFrom(w, x)
      BY <2>1 DEF StartsFrom
    <3>3. s2 = seen \ {VarOf(trail.lits[m])}
      BY <1>4, <1>8
    <3> QED
      BY <3>1, <3>2, <3>3, <1>2, <1>6, FoundResolves
  <2>3. Drawn(trail, x)
    BY <2>1, <1>2 DEF Walking, Drawn
  <2>4. AnalyzeRef'
    BY <2>2, <2>3, <1>8, <1>9, <1>10, <1>11 DEF AnalyzeRef
  <2>5. Resolved' = Resolved
    BY <2>1, <2>2, <1>1, <1>2, <1>4, <1>9, <1>11 DEF Resolved
  <2> QED
    BY <2>4, <2>5 DEF Tracks
<1>12. CASE /\ work.paths - 1 > 0 /\ ReasonOf(trail, p) # Decision
            /\ work' = [work EXCEPT !.idx = m - 1, !.paths = @ - 1, !.cur = ReasonTail(trail, p)]
            /\ UNCHANGED step
  <2>1. PICK s : s = ReasonTail(trail, p)
    OBVIOUS
  <2>2. x.learned = w.learned /\ x.idx = m - 1 /\ x.cur = s
    BY <2>1, <1>1, <1>2, <1>9, <1>12 DEF WorkType
  <2>3. Resolves(trail, seen, w, m, s, s2, x) /\ Marking(trail, s2, x)
    BY <2>2, <1>1, <1>2, <1>4, <1>6, <1>8, <1>12, ResolvedResolves
  <2>4. AnalyzeRef'
    BY <2>3, <1>2, <1>8, <1>9, <1>12 DEF AnalyzeRef
  <2>5. m \in 1..Len(trail.lits) /\ m \in Nat
    BY <1>6 DEF Stops
  <2>6. p \in Lits
    BY <2>5, <1>2, <1>4, TrailParts DEF WellFormed
  <2>7. ToSet(s) = Tails[VarOf(p)]
    BY <2>1, <2>6, TailsAre
  <2>8. Resolved = Resolvent(trail, seen, w)
    BY <1>1, <1>2 DEF Resolved
  <2>9. Resolved' = Resolvent(trail, s2, x)
    BY <1>2, <1>8, <1>9, <1>12 DEF Resolved
  <2>10. ResolvesAt(m)
    BY <2>3, <2>5, <2>7, <2>8, <2>9, <1>2, <1>4, <1>12 DEF ResolvesAt, Resolves
  <2> QED
    BY <2>4, <2>5, <2>10 DEF Tracks
<1> QED
  BY <1>7, <1>11, <1>12

LEMMA StillMinimizing ==
    ASSUME AnalyzeRef, NEW w, w = work, NEW x, x = work', step = "minimize", step' = "minimize",
           x.uip = w.uip, x.learned = w.learned, UNCHANGED <<trail, arena>>,
           NEW s2, s2 = seen', Justified(trail, Tails, s2, x)
    PROVE  Tracks
<1>1. PICK T : T = Tails /\ T = Tails'
  BY TailsStay
<1>2. Drawn(trail, x)
  BY DEF AnalyzeRef, Drawn
<1>3. AnalyzeRef'
  BY <1>1, <1>2 DEF AnalyzeRef
<1>4. Resolved' = Resolved
  BY DEF Resolved
<1> QED
  BY <1>3, <1>4 DEF Tracks

LEMMA KeepTracks ==
    ASSUME AnalyzeSteps, AnalyzeRef, KeepDecision, UNCHANGED <<trail, arena>>
    PROVE  Tracks
<1>1. PICK w : w = work
  OBVIOUS
<1>2. PICK x : x = work'
  OBVIOUS
<1>3. PICK T : T = Tails
  OBVIOUS
<1>4. /\ w \in WorkType /\ Justified(trail, T, seen, w) /\ step = "minimize" /\ step' = "minimize"
      /\ seen' = seen /\ w.rest # <<>> /\ w.testing = 0
  BY <1>1, <1>3 DEF AnalyzeSteps, AnalyzeTypeOK, AnalyzeRef, KeepDecision, AtNext
<1>5. PICK h : h = Head(w.rest)
  OBVIOUS
<1>6. x = [w EXCEPT !.kept = Append(@, h), !.rest = Tail(@)]
  BY <1>1, <1>2, <1>5 DEF KeepDecision
<1>7. /\ x.learned = w.learned /\ x.kept = Append(w.kept, h) /\ x.rest = Tail(w.rest)
      /\ x.testing = w.testing /\ x.stack = w.stack /\ x.cur = w.cur /\ x.uip = w.uip
  BY <1>4, <1>6 DEF WorkType
<1>8. w.cur = <<>> /\ w.stack = <<>> /\ Firm(seen, w) = seen
  BY <1>4 DEF Justified, Firm
<1>9. Justified(trail, T, seen, x)
  BY <1>4, <1>5, <1>7, <1>8, KeepJustifies
<1> QED
  BY <1>1, <1>2, <1>3, <1>4, <1>7, <1>9, StillMinimizing

LEMMA StartTracks ==
    ASSUME AnalyzeSteps, AnalyzeRef, StartTest, UNCHANGED <<trail, arena>>
    PROVE  Tracks
<1>1. PICK w : w = work
  OBVIOUS
<1>2. PICK x : x = work'
  OBVIOUS
<1>3. PICK T : T = Tails
  OBVIOUS
<1>4. /\ w \in WorkType /\ Justified(trail, T, seen, w) /\ step = "minimize" /\ step' = "minimize"
      /\ seen' = seen /\ w.rest # <<>> /\ w.testing = 0
  BY <1>1, <1>3 DEF AnalyzeSteps, AnalyzeTypeOK, AnalyzeRef, StartTest, AtNext
<1>5. PICK h : h = Head(w.rest)
  OBVIOUS
<1>6. h \in Lits
  BY <1>4, <1>5, WorkParts, HeadFacts
<1>7. x = [w EXCEPT !.testing = h, !.stack = <<h>>, !.marks = {}]
  BY <1>1, <1>2, <1>5 DEF StartTest
<1>8. /\ x.learned = w.learned /\ x.kept = w.kept /\ x.rest = w.rest
      /\ x.testing = h /\ x.stack = <<h>> /\ x.cur = w.cur /\ x.marks = {} /\ x.uip = w.uip
  BY <1>4, <1>7 DEF WorkType
<1>9. Justified(trail, T, seen, x)
  BY <1>4, <1>6, <1>8, StartJustifies
<1> QED
  BY <1>1, <1>2, <1>3, <1>4, <1>8, <1>9, StillMinimizing

LEMMA ReadTracks ==
    ASSUME AnalyzeSteps, AnalyzeRef, ReadReason, UNCHANGED <<trail, arena>>
    PROVE  Tracks
<1>1. PICK w : w = work
  OBVIOUS
<1>2. PICK x : x = work'
  OBVIOUS
<1>3. PICK T : T = Tails
  OBVIOUS
<1>4. /\ w \in WorkType /\ Justified(trail, T, seen, w) /\ step = "minimize" /\ step' = "minimize"
      /\ seen' = seen /\ w.cur = <<>> /\ w.testing # 0 /\ w.stack # <<>> /\ Minimizing(trail, w)
  BY <1>1, <1>3 DEF AnalyzeSteps, AnalyzeTypeOK, AnalyzeInv, AnalyzeRef, ReadReason, Testing
<1>5. PICK e : e = Last(w.stack)
  OBVIOUS
<1>6. PICK s : s = ReasonTail(trail, e)
  OBVIOUS
<1>7. e \in Lits /\ e \in ToSet(w.stack)
  BY <1>4, <1>5, WorkParts, LastFacts
<1>8. ReasonOf(trail, e) # Decision
  BY <1>4, <1>7 DEF Minimizing
<1>9. ToSet(s) = T[VarOf(e)]
  BY <1>3, <1>6, <1>7, TailsAre
<1>10. x = [w EXCEPT !.stack = Front(w.stack), !.cur = s]
  BY <1>1, <1>2, <1>5, <1>6 DEF ReadReason
<1>11. /\ x.learned = w.learned /\ x.kept = w.kept /\ x.rest = w.rest
       /\ x.testing = w.testing /\ x.stack = Front(w.stack) /\ x.cur = s /\ x.marks = w.marks
       /\ x.uip = w.uip
  BY <1>4, <1>10 DEF WorkType
<1>12. Justified(trail, T, seen, x)
  BY <1>4, <1>5, <1>8, <1>9, <1>11, ReadJustifies
<1> QED
  BY <1>1, <1>2, <1>3, <1>4, <1>11, <1>12, StillMinimizing

LEMMA DropTracks ==
    ASSUME AnalyzeSteps, AnalyzeRef, DropRedundant, UNCHANGED <<trail, arena>>
    PROVE  Tracks
<1>1. PICK w : w = work
  OBVIOUS
<1>2. PICK x : x = work'
  OBVIOUS
<1>3. PICK T : T = Tails
  OBVIOUS
<1>4. /\ w \in WorkType /\ Justified(trail, T, seen, w) /\ step = "minimize" /\ step' = "minimize"
      /\ seen' = seen /\ w.cur = <<>> /\ w.testing # 0 /\ w.stack = <<>> /\ Minimizing(trail, w)
  BY <1>1, <1>3 DEF AnalyzeSteps, AnalyzeTypeOK, AnalyzeInv, AnalyzeRef, DropRedundant, Testing
<1>5. PICK h : h = Head(w.rest) /\ w.rest # <<>> /\ w.testing = h
  BY <1>4 DEF Minimizing
<1>6. x = [w EXCEPT !.testing = 0, !.rest = Tail(@)]
  BY <1>1, <1>2 DEF DropRedundant
<1>7. /\ x.learned = w.learned /\ x.kept = w.kept /\ x.rest = Tail(w.rest)
      /\ x.testing = 0 /\ x.stack = <<>> /\ x.cur = <<>> /\ x.uip = w.uip
  BY <1>4, <1>6 DEF WorkType
<1>8. Justified(trail, T, seen, x)
  BY <1>4, <1>5, <1>7, DropJustifies
<1> QED
  BY <1>1, <1>2, <1>3, <1>4, <1>7, <1>8, StillMinimizing

LEMMA ExplainTracks ==
    ASSUME AnalyzeSteps, AnalyzeRef, Explain, UNCHANGED <<trail, arena>>
    PROVE  Tracks
<1>1. PICK w : w = work
  OBVIOUS
<1>2. PICK x : x = work'
  OBVIOUS
<1>3. PICK T : T = Tails
  OBVIOUS
<1>4. /\ w \in WorkType /\ Justified(trail, T, seen, w) /\ step = "minimize" /\ step' = "minimize"
      /\ w.cur # <<>> /\ w.testing # 0 /\ Minimizing(trail, w)
  BY <1>1, <1>3 DEF AnalyzeSteps, AnalyzeTypeOK, AnalyzeInv, AnalyzeRef, Explain, Testing
<1>5. PICK q : q = Head(w.cur)
  OBVIOUS
<1>6. PICK s2 : s2 = seen'
  OBVIOUS
<1>7. CASE ~Unmarked(q) /\ work' = [work EXCEPT !.cur = Tail(@)] /\ UNCHANGED <<seen, toclear>>
  <2>1. x = [w EXCEPT !.cur = Tail(@)] /\ s2 = seen
    BY <1>1, <1>2, <1>6, <1>7
  <2>2. /\ x.learned = w.learned /\ x.kept = w.kept /\ x.rest = w.rest /\ x.uip = w.uip
        /\ x.testing = w.testing /\ x.stack = w.stack /\ x.cur = Tail(w.cur) /\ x.marks = w.marks
    BY <2>1, <1>4 DEF WorkType
  <2>3. VarOf(q) \in seen \/ ~(LitLevel(trail, q) > 0)
    BY <1>7 DEF Unmarked
  <2>4. Justified(trail, T, seen, x)
    BY <2>2, <2>3, <1>4, <1>5, SkipJustifies
  <2> QED
    BY <2>1, <2>2, <2>4, <1>1, <1>2, <1>3, <1>4, <1>6, StillMinimizing
<1>8. CASE /\ Unmarked(q) /\ Mark(q)
           /\ work' = [work EXCEPT !.cur = Tail(@), !.stack = Append(@, q),
                                   !.marks = @ \cup {VarOf(q)}]
  <2>1. x = [w EXCEPT !.cur = Tail(@), !.stack = Append(@, q), !.marks = @ \cup {VarOf(q)}]
    BY <1>1, <1>2, <1>8
  <2>2. /\ x.learned = w.learned /\ x.kept = w.kept /\ x.rest = w.rest /\ x.uip = w.uip
        /\ x.testing = w.testing /\ x.stack = Append(w.stack, q) /\ x.cur = Tail(w.cur)
        /\ x.marks = w.marks \cup {VarOf(q)}
    BY <2>1, <1>4 DEF WorkType
  <2>3. s2 = seen \cup {VarOf(q)}
    BY <1>6, <1>8 DEF Mark
  <2>4. VarOf(q) \notin seen
    BY <1>8 DEF Unmarked
  <2>5. Justified(trail, T, s2, x)
    BY <2>2, <2>3, <2>4, <1>4, <1>5, PushJustifies
  <2> QED
    BY <2>2, <2>5, <1>1, <1>2, <1>3, <1>4, <1>6, StillMinimizing
<1>9. CASE /\ RollBack
           /\ work' = [work EXCEPT !.testing = 0, !.stack = <<>>, !.cur = <<>>,
                                   !.rest = Tail(@), !.kept = Append(@, work.testing)]
  <2>1. PICK h : h = Head(w.rest) /\ w.rest # <<>> /\ w.testing = h
    BY <1>4 DEF Minimizing
  <2>2. x = [w EXCEPT !.testing = 0, !.stack = <<>>, !.cur = <<>>, !.rest = Tail(@),
                      !.kept = Append(@, h)]
    BY <2>1, <1>1, <1>2, <1>9
  <2>3. /\ x.learned = w.learned /\ x.kept = Append(w.kept, h) /\ x.rest = Tail(w.rest)
        /\ x.testing = 0 /\ x.stack = <<>> /\ x.cur = <<>> /\ x.uip = w.uip
    BY <2>2, <1>4 DEF WorkType
  <2>4. s2 = Firm(seen, w)
    BY <1>1, <1>4, <1>6, <1>9 DEF RollBack, Firm
  <2>5. Justified(trail, T, s2, x)
    BY <2>1, <2>3, <2>4, <1>4, KeepJustifies
  <2> QED
    BY <2>3, <2>5, <1>1, <1>2, <1>3, <1>4, <1>6, StillMinimizing
<1> QED
  BY <1>1, <1>5, <1>7, <1>8, <1>9 DEF Explain

LEMMA EndTracks ==
    ASSUME AnalyzeSteps, AnalyzeRef, EndMinimize, UNCHANGED <<trail, arena>>
    PROVE  Tracks
<1>1. PICK w : w = work /\ w = work'
  BY DEF EndMinimize
<1>2. PICK T : T = Tails /\ T = Tails'
  BY TailsStay
<1>3. /\ w \in WorkType /\ Justified(trail, T, seen, w) /\ step = "minimize" /\ step' = "learn"
      /\ w.rest = <<>> /\ w.testing = 0 /\ seen \subseteq Vars /\ Drawn(trail, w)
  BY <1>1, <1>2 DEF AnalyzeSteps, AnalyzeTypeOK, AnalyzeRef, EndMinimize
<1>4. Warranted(trail, T, w)
  BY <1>3, EndWarrants
<1>5. AnalyzeRef'
  BY <1>1, <1>2, <1>3, <1>4 DEF AnalyzeRef
<1>6. Resolved' = Resolved
  BY <1>1, <1>3 DEF Resolved
<1> QED
  BY <1>5, <1>6 DEF Tracks

\* Each step of analysis resolves the clause it has arrived at, or leaves it.
LEMMA AnalyzeTracks ==
    ASSUME PropInv, Shaped(trail), LevelOf(trail) > 0, AnalyzeSteps, AnalyzeRef, analyze,
           UNCHANGED <<trail, arena>>
    PROVE  Tracks
<1>1. trail' = trail
  OBVIOUS
<1> QED
  BY <1>1, TouchTracks, WalkTracks, KeepTracks, StartTracks, ReadTracks, ExplainTracks, DropTracks,
     EndTracks DEF analyze

\* Analysis starts from the conflict but for its root literals.
LEMMA BeginTracks ==
    ASSUME seen = {}, BeginAnalyze, trail' = trail
    PROVE  AnalyzeRef' /\ Resolved' = {l \in ToSet(conflict) : LitLevel(trail, l) > 0}
<1>1. PICK x : x = work'
  OBVIOUS
<1>2. x.cur = conflict /\ x.learned = <<>> /\ step' = "walk" /\ seen' = {}
  BY <1>1 DEF BeginAnalyze, NoWork
<1>3. PICK s : s = conflict
  OBVIOUS
<1>4. /\ Marking(trail, {}, x)
      /\ Resolvent(trail, {}, x) = {l \in ToSet(s) : LitLevel(trail, l) > 0}
  BY <1>2, <1>3, BeginResolves
<1> QED
  BY <1>1, <1>2, <1>3, <1>4 DEF AnalyzeRef, Resolved

\* Every literal of the clause is false, above the root.
LEMMA ResolvedFalse ==
    ASSUME PropInv, AnalyzeSteps, AnalyzeRef, NEW l \in Resolved
    PROVE  l \in Lits /\ IsFalse(trail, l) /\ (LevelOf(trail) > 0 => LitLevel(trail, l) > 0)
<1>1. PICK w : w = work
  OBVIOUS
<1>2. w \in WorkType /\ WellFormed(trail)
  BY <1>1, TypedDb DEF AnalyzeSteps, AnalyzeTypeOK
<1>3. CASE step = "walk"
  <2>1. Walking(trail, seen, w) /\ l \in Resolvent(trail, seen, w)
    BY <1>1, <1>3 DEF AnalyzeSteps, AnalyzeInv, Resolved
  <2>2. LitLevel(trail, l) > 0
    BY <2>1 DEF Resolvent
  <2>3. CASE l \in ToSet(w.learned)
    BY <2>1, <2>2, <2>3, <1>2, WorkParts, ToSetFacts DEF Walking, Lower
  <2>4. CASE l \in ToSet(w.cur)
    <3>1. l \in Lits /\ FalseBy(trail, l, w.idx) /\ w.idx \in 0..Len(trail.lits)
      BY <2>1, <2>4, <1>2, WorkParts, ToSetFacts DEF Walking
    <3> QED
      BY <3>1, <2>2, <1>2, FalseByFacts
  <2>5. CASE \E i \in MarkedIn(trail, seen, w.idx) : l = -trail.lits[i]
    <3>1. PICK i \in 1..w.idx : l = -trail.lits[i]
      BY <2>5 DEF MarkedIn
    <3>2. i \in 1..Len(trail.lits)
      BY <3>1, <2>1, <1>2, TrailParts DEF Walking, WellFormed
    <3>3. trail.lits[i] \in Lits
      BY <3>2, <1>2, TrailParts DEF WellFormed
    <3>4. l \in Lits /\ trail.lits[i] = -l
      BY <3>1, <3>3, LitFacts
    <3> QED
      BY <3>2, <3>4, <2>2, <1>2, TruthFacts
  <2> QED
    BY <2>1, <2>3, <2>4, <2>5 DEF Resolvent
<1>4. CASE step # "walk"
  <2>1. step \in {"minimize", "learn"} /\ Minimizing(trail, w) /\ Drawn(trail, w)
    BY <1>1, <1>4 DEF AnalyzeSteps, AnalyzeInv, AnalyzeRef
  <2>2. l = -w.uip \/ l \in ToSet(w.learned)
    BY <1>1, <1>4 DEF Resolved
  <2>3. CASE l = -w.uip
    <3>1. w.uip \in Lits /\ IsTrue(trail, w.uip) /\ LitLevel(trail, w.uip) = LevelOf(trail)
      BY <2>1 DEF Minimizing
    <3>2. /\ l \in Lits /\ IsFalse(trail, l) /\ LitLevel(trail, l) = LitLevel(trail, w.uip)
      BY <3>1, <2>3, <1>2, TruthFacts, LitFacts
    <3> QED
      BY <3>1, <3>2
  <2>4. CASE l \in ToSet(w.learned)
    BY <2>1, <2>4, <1>2, WorkParts, ToSetFacts DEF Drawn, Lower
  <2> QED
    BY <2>2, <2>3, <2>4
<1> QED
  BY <1>3, <1>4

LEMMA BeginBlameTracks ==
    ASSUME PropInv, seen = {}, NEW p \in Lits, IsTrue(trail, p), BeginBlame(p),
           UNCHANGED <<trail, arena>>
    PROVE  /\ work'.uip = p
           /\ \A core : core = {-p} => Traced(trail, Tails, seen, work, core)'
<1>1. PICK x : x = work'
  OBVIOUS
<1>2. x.uip = p /\ x.idx = Len(trail.lits)
  BY <1>1 DEF BeginBlame, NoWork
<1>3. PICK s2 : s2 = seen' /\ s2 = {VarOf(p)}
  BY DEF BeginBlame
<1>4. PICK T : T = Tails'
  OBVIOUS
<1>5. WellFormed(trail)
  BY TypedDb
<1>6. \A core : core = {-p} => Traced(trail, T, s2, x, core)
  BY <1>2, <1>3, <1>5, BeginTraced
<1> QED
  BY <1>1, <1>2, <1>3, <1>4, <1>6

\* Each position of the trail leaves the clash backed by its causes.
LEMMA BlameTracks ==
    ASSUME PropInv, AnalyzeTypeOK, Tracing(trail, seen, work), IsTrue(trail, work.uip),
           NEW core, Traced(trail, Tails, seen, work, core), Blame, UNCHANGED <<trail, arena>>,
           NEW c2, c2 = core \cup Blamed
    PROVE  Traced(trail, Tails, seen, work, c2)' /\ work'.uip = work.uip
<1>1. PICK w : w = work /\ w \in WorkType
  BY DEF AnalyzeTypeOK
<1>2. PICK x : x = work' /\ x = [w EXCEPT !.idx = @ - 1]
  BY <1>1 DEF Blame
<1>3. PICK i : i = w.idx
  OBVIOUS
<1>4. x.uip = w.uip /\ x.idx = i - 1
  BY <1>1, <1>2, <1>3 DEF WorkType
<1>5. PICK T : T = Tails /\ T = Tails'
  BY TailsStay
<1>6. WellFormed(trail) /\ TailsFalse(trail, T)
  BY <1>5, TypedDb, TailsRight
<1>7. w.uip \in Lits /\ IsTrue(trail, w.uip) /\ LevelOf(trail) > 0
  BY <1>1 DEF Tracing
<1>8. i \in 1..Len(trail.lits) /\ trail.lim[1] < i
  <2>1. i \in trail.lim[1]..Len(trail.lits) /\ i > trail.lim[1]
    BY <1>1, <1>3 DEF Tracing, Blame, Blaming
  <2>2. trail.lim[1] \in Nat /\ Len(trail.lits) \in Nat
    BY <1>6, <1>7, FirstLimit
  <2> QED
    BY <2>1, <2>2
<1>9. LitLevel(trail, trail.lits[i]) > 0
  <2>1. 1 \in 1..Len(trail.lim) /\ LitLevel(trail, trail.lits[i]) \in 0..LevelOf(trail)
        /\ LevelOf(trail) \in Nat
    BY <1>6, <1>7, <1>8, TrailParts DEF WellFormed, LevelOf
  <2>2. 1 <= LitLevel(trail, trail.lits[i])
    BY <2>1, <1>6, <1>8 DEF WellFormed
  <2> QED
    BY <2>1, <2>2
<1>10. PICK y \in Lits : y = trail.lits[i]
  BY <1>6, <1>8, TrailParts DEF WellFormed
<1>11. PICK s2 : s2 = seen'
  OBVIOUS
<1>12. PICK more : more = Blamed
  OBVIOUS
<1>13. s2 = IF VarOf(y) \in seen THEN (seen \cup Causes(y)) \ {VarOf(y)} ELSE seen
  BY <1>1, <1>3, <1>10, <1>11 DEF Blame
<1>14. more = IF VarOf(y) \in seen /\ ReasonOf(trail, y) = Decision THEN {y} ELSE {}
  BY <1>1, <1>3, <1>10, <1>12 DEF Blamed
<1>15. Causes(y) = IF ReasonOf(trail, y) = Decision THEN {}
                   ELSE {VarOf(q) : q \in {k \in T[VarOf(y)] : LitLevel(trail, k) > 0}}
  BY <1>5, TailsAre DEF Causes
<1>16. BlamesAt(trail, T, seen, i, s2, more)
  BY <1>10, <1>13, <1>14, <1>15 DEF BlamesAt
<1>17. Traced(trail, T, seen, w, core)
  BY <1>1, <1>5
<1>18. Traced(trail, T, s2, x, core \cup more)
  BY <1>3, <1>4, <1>6, <1>7, <1>8, <1>9, <1>16, <1>17, BlameTraced
<1> QED
  BY <1>1, <1>2, <1>4, <1>5, <1>11, <1>12, <1>18

================================================================================
