------------------------------- MODULE CdclProofs -------------------------------
(***************************************************************************)
(* Module Cdcl proved for every set of variables, clauses and assumption    *)
(* lists: first how the trail's levels survive backtracking, then that the  *)
(* parts of IInv are preserved by every action.                             *)
(***************************************************************************)
EXTENDS Cdcl, CnfTheorems, SequenceTheorems, WellFoundedInduction

(***************************************************************************)
(* The trail.                                                               *)
(***************************************************************************)
TrailType == trail \in Seq(Entry) /\ lim \in Seq(Nat)

\* The fields of a trail entry have their types.
LEMMA EntryFacts ==
    ASSUME TrailType, NEW i \in DOMAIN trail
    PROVE  /\ i \in Nat /\ i >= 1
           /\ trail[i] \in Entry
           /\ trail[i].lit \in Lits /\ trail[i].level \in Nat /\ trail[i].reason \in Clauses
<1>1. trail[i] \in Entry /\ i \in 1..Len(trail)
  BY DEF TrailType
<1> QED
  BY <1>1 DEF Entry

\* What cancel_until(n) leaves: the entries of the levels up to n.
LEMMA KeptFacts ==
    ASSUME TrailType, TrailShape, NEW n \in 0..Level
    PROVE  /\ Cut(n) \in 0..Len(trail)
           /\ Kept(n) \in Seq(Entry) /\ Len(Kept(n)) = Cut(n)
           /\ \A i \in 1..Cut(n) : i \in DOMAIN trail /\ Kept(n)[i] = trail[i]
           /\ \A i \in DOMAIN trail : i <= Cut(n) <=> trail[i].level <= n
           /\ KeptLim(n) \in Seq(Nat) /\ Len(KeptLim(n)) = n
           /\ \A k \in 1..n : k \in DOMAIN lim /\ KeptLim(n)[k] = lim[k] /\ lim[k] <= Cut(n)
<1>1. Level \in Nat /\ Level = Len(lim) /\ DOMAIN lim = 1..Level /\ DOMAIN trail = 1..Len(trail)
      /\ Len(trail) \in Nat
  BY DEF TrailType, Level
<1>2. \A i \in DOMAIN trail : trail[i] \in Entry /\ trail[i].level \in Nat
  BY EntryFacts
<1>3. Cut(n) \in 0..Len(trail)
  BY SMTT(60), <1>1 DEF Cut, TrailShape, TrailType
<1>4. \A i \in 1..Cut(n) : i \in DOMAIN trail /\ trail[i] \in Entry
  BY <1>1, <1>3 DEF TrailType
<1>5. /\ Kept(n) \in Seq(Entry) /\ Len(Kept(n)) = Cut(n)
      /\ \A i \in 1..Cut(n) : Kept(n)[i] = trail[i]
  <2>1. Kept(n) \in Seq(Entry)
    BY <1>3, <1>4, SubSeqProperties DEF Kept
  <2>2. Len(Kept(n)) = Cut(n)
    BY <1>3, <1>4, SubSeqProperties DEF Kept
  <2>3. \A i \in 1..(Cut(n) - 1 + 1) : SubSeq(trail, 1, Cut(n))[i] = trail[1 + i - 1]
    BY <1>3, <1>4, SubSeqProperties
  <2> QED
    BY <2>1, <2>2, <2>3, <1>3 DEF Kept
<1>6. \A i \in DOMAIN trail : i <= Cut(n) <=> trail[i].level <= n
  <2>1. CASE n < Level
    <3>1. n + 1 \in DOMAIN lim /\ Cut(n) = lim[n + 1]
      BY <2>1, <1>1 DEF Cut
    <3>2. \A i \in DOMAIN trail : trail[i].level < n + 1 <=> i <= lim[n + 1]
      BY <3>1 DEF TrailShape
    <3> QED
      BY <3>1, <3>2, <1>2
  <2>2. CASE n = Level
    BY <2>2, <1>1 DEF Cut, TrailShape
  <2> QED
    BY <2>1, <2>2, <1>1
<1>7. (IF n < Level THEN n ELSE Level) = n
  BY <1>1
<1>8. \A k \in 1..n : k \in DOMAIN lim /\ lim[k] \in Nat
  BY <1>1 DEF TrailType
<1>9. KeptLim(n) \in Seq(Nat) /\ Len(KeptLim(n)) = n /\ \A k \in 1..n : KeptLim(n)[k] = lim[k]
  <2>1. KeptLim(n) = SubSeq(lim, 1, n)
    BY <1>7 DEF KeptLim
  <2>2. SubSeq(lim, 1, n) \in Seq(Nat) /\ Len(SubSeq(lim, 1, n)) = n
    BY <1>8, SubSeqProperties
  <2>3. \A k \in 1..(n - 1 + 1) : SubSeq(lim, 1, n)[k] = lim[1 + k - 1]
    BY <1>8, SubSeqProperties
  <2> QED
    BY <2>1, <2>2, <2>3
<1>10. \A k \in 1..n : lim[k] <= Cut(n)
  <2> SUFFICES ASSUME NEW k \in 1..n PROVE lim[k] <= Cut(n)
    OBVIOUS
  <2>1. lim[k] \in 0..Len(trail)
    BY <1>8 DEF TrailShape
  <2>2. CASE lim[k] = 0
    BY <2>2, <1>3
  <2>3. CASE lim[k] > 0
    <3>1. lim[k] \in DOMAIN trail
      BY <2>1, <2>3, <1>1
    <3>2. trail[lim[k]].level < k
      BY <3>1, <1>8, <2>1 DEF TrailShape
    <3> QED
      BY <3>1, <3>2, <1>2, <1>6
  <2> QED
    BY <2>1, <2>2, <2>3
<1> QED
  BY <1>3, <1>4, <1>5, <1>6, <1>8, <1>9, <1>10

\* No literal is on the trail together with its negation, or twice.
LEMMA OneEntry ==
    ASSUME TrailType, TrailShape, NEW i \in DOMAIN trail, NEW j \in DOMAIN trail,
           trail[i].lit = trail[j].lit \/ trail[i].lit = -trail[j].lit
    PROVE  i = j
<1>1. trail[i].lit \in Lits /\ trail[j].lit \in Lits
  BY EntryFacts
<1>2. VarOf(trail[i].lit) = VarOf(trail[j].lit)
  BY <1>1, LitFacts
<1> QED
  BY <1>2 DEF TrailShape

(***************************************************************************)
(* Entries survive cancel_until as they were, and those of the levels kept  *)
(* all survive.                                                             *)
(***************************************************************************)
SamePrefix(n) ==
    /\ Cut(n) <= Len(trail')
    /\ \A i \in 1..Cut(n) : trail'[i] = trail[i]

\* cancel_until(n) ends at level n and keeps the shape of the trail.
LEMMA CancelTrail ==
    ASSUME TrailType, TrailShape, NEW n \in 0..Level, CancelUntil(n)
    PROVE  /\ TrailType' /\ TrailShape' /\ Level' = n
           /\ Len(trail') = Cut(n) /\ SamePrefix(n)
<1>1. /\ trail' = Kept(n) /\ lim' = KeptLim(n)
      /\ n \in Nat /\ n <= Level /\ Level \in Nat /\ DOMAIN lim = 1..Level
  BY DEF CancelUntil, TrailType, Level
<1>2. TrailType' /\ Level' = n /\ Len(trail') = Cut(n) /\ Cut(n) \in 0..Len(trail)
  BY <1>1, KeptFacts DEF TrailType, Level
<1>3. DOMAIN trail' = 1..Cut(n) /\ DOMAIN lim' = 1..n
  BY <1>1, <1>2 DEF TrailType, Level
<1>4. \A i \in 1..Cut(n) : i \in DOMAIN trail /\ trail'[i] = trail[i] /\ trail[i].level <= n
  BY <1>1, KeptFacts
<1>5. SamePrefix(n)
  BY <1>2, <1>4 DEF SamePrefix
<1>6. \A k \in 1..n : k \in DOMAIN lim /\ lim'[k] = lim[k] /\ lim[k] <= Cut(n)
  BY <1>1, KeptFacts
<1>7. TrailShape'
  <2>1. \A k \in DOMAIN lim' : lim'[k] <= Len(trail')
    BY <1>2, <1>3, <1>6
  <2>2. \A i \in DOMAIN trail' : trail'[i].level <= Level'
    BY <1>2, <1>3, <1>4
  <2>3. \A i \in DOMAIN trail' : \A k \in DOMAIN lim' : trail'[i].level < k <=> i <= lim'[k]
    BY <1>3, <1>4, <1>6 DEF TrailShape
  <2>4. \A i, j \in DOMAIN trail' : VarOf(trail'[i].lit) = VarOf(trail'[j].lit) => i = j
    BY <1>3, <1>4 DEF TrailShape
  <2> QED
    BY <2>1, <2>2, <2>3, <2>4 DEF TrailShape
<1> QED
  BY <1>2, <1>5, <1>7

\* A literal is true by level n when cancel_until(n) keeps its entry.
LEMMA TrueByFacts ==
    ASSUME TrailType, TrailShape, NEW n \in 0..Level, NEW l
    PROVE  TrueBy(l, n) <=> \E i \in 1..Cut(n) : trail[i].lit = l
<1>1. /\ \A i \in 1..Cut(n) : i \in DOMAIN trail
      /\ \A i \in DOMAIN trail : i <= Cut(n) <=> trail[i].level <= n
      /\ \A i \in DOMAIN trail : i \in Nat /\ i >= 1
      /\ Cut(n) \in Nat
  BY KeptFacts, EntryFacts
<1> QED
  BY <1>1 DEF TrueBy

\* Cancelling to level n and enqueueing an unassigned literal there keeps the
\* shape of the trail.
LEMMA AssertTrail ==
    ASSUME TrailType, TrailShape, NEW n \in 0..Level, NEW l \in Lits, NEW r \in Clauses,
           ~TrueBy(l, n), ~TrueBy(-l, n), Assert(n, l, r)
    PROVE  /\ TrailType' /\ TrailShape' /\ Level' = n
           /\ Len(trail') = Cut(n) + 1 /\ SamePrefix(n)
           /\ trail'[Cut(n) + 1] = [lit |-> l, level |-> n, reason |-> r]
<1> DEFINE e == [lit |-> l, level |-> n, reason |-> r]
           m == Cut(n)
<1>1. /\ trail' = Append(Kept(n), e) /\ lim' = KeptLim(n)
      /\ n \in Nat /\ n <= Level /\ Level \in Nat
      /\ e \in Entry /\ m \in Nat /\ m <= Len(trail)
  BY KeptFacts DEF Assert, Entry, TrailType, Level
<1>2. /\ Kept(n) \in Seq(Entry) /\ Len(Kept(n)) = m
      /\ \A i \in 1..m : i \in DOMAIN trail /\ Kept(n)[i] = trail[i] /\ trail[i].level <= n
      /\ KeptLim(n) \in Seq(Nat) /\ Len(KeptLim(n)) = n
      /\ \A k \in 1..n : k \in DOMAIN lim /\ KeptLim(n)[k] = lim[k] /\ lim[k] <= m
      /\ \A k \in 1..n : lim[k] \in Nat
  BY SMTT(60), KeptFacts DEF TrailType
<1>3. /\ trail' \in Seq(Entry) /\ Len(trail') = m + 1 /\ DOMAIN trail' = 1..(m + 1)
      /\ \A i \in 1..m : trail'[i] = Kept(n)[i]
      /\ trail'[m + 1] = e
  BY <1>1, <1>2, AppendProperties
<1>4. TrailType' /\ Level' = n /\ DOMAIN lim' = 1..n /\ SamePrefix(n)
  BY <1>1, <1>2, <1>3 DEF TrailType, Level, SamePrefix
<1>5. \A i \in 1..(m + 1) : i \in 1..m \/ i = m + 1
  BY <1>1
<1>6. TrailShape'
  <2>1. \A k \in DOMAIN lim' : lim'[k] <= Len(trail')
    BY <1>1, <1>2, <1>3, <1>4
  <2>2. \A i \in DOMAIN trail' : trail'[i].level <= Level'
    BY <1>1, <1>2, <1>3, <1>4, <1>5
  <2>3. \A i \in DOMAIN trail' : \A k \in DOMAIN lim' : trail'[i].level < k <=> i <= lim'[k]
    <3> SUFFICES ASSUME NEW i \in 1..(m + 1), NEW k \in 1..n
                 PROVE  trail'[i].level < k <=> i <= lim[k]
      BY <1>1, <1>2, <1>3, <1>4
    <3>1. CASE i \in 1..m
      BY <3>1, <1>2, <1>3 DEF TrailShape
    <3>2. CASE i = m + 1
      <4>1. lim[k] \in Nat /\ lim[k] <= m
        BY <1>2
      <4> QED
        BY <4>1, <3>2, <1>1, <1>3
    <3> QED
      BY <3>1, <3>2, <1>5
  <2>4. \A i \in 1..m : VarOf(trail[i].lit) # VarOf(l)
    <3> SUFFICES ASSUME NEW i \in 1..m, VarOf(trail[i].lit) = VarOf(l) PROVE FALSE
      OBVIOUS
    <3>1. trail[i].lit \in Lits
      BY <1>2, EntryFacts
    <3>2. trail[i].lit = l \/ trail[i].lit = -l
      BY <3>1, LitFacts
    <3> QED
      BY <3>2, TrueByFacts
  <2>5. \A i, j \in DOMAIN trail' : VarOf(trail'[i].lit) = VarOf(trail'[j].lit) => i = j
    BY <2>4, <1>2, <1>3, <1>5 DEF TrailShape
  <2> QED
    BY <2>1, <2>2, <2>3, <2>5 DEF TrailShape
<1> QED
  BY <1>3, <1>4, <1>6

\* So does opening a level without a decision.
LEMMA OpenTrail ==
    ASSUME TrailType, TrailShape, trail' = trail, lim' = Append(lim, Len(trail))
    PROVE  TrailType' /\ TrailShape' /\ Level' = Level + 1
<1>1. /\ lim \in Seq(Nat) /\ Len(trail) \in Nat /\ Level \in Nat /\ Level = Len(lim)
      /\ DOMAIN lim = 1..Level
      /\ DOMAIN trail = 1..Len(trail)
  BY DEF TrailType, Level
<1>2. /\ lim' \in Seq(Nat) /\ Len(lim') = Level + 1 /\ DOMAIN lim' = 1..(Level + 1)
      /\ \A k \in 1..Level : lim'[k] = lim[k]
      /\ lim'[Level + 1] = Len(trail)
  BY <1>1, AppendProperties
<1>3. TrailType' /\ Level' = Level + 1
  BY <1>2 DEF TrailType, Level
<1>4. \A k \in DOMAIN lim' : k \in DOMAIN lim \/ k = Level + 1
  BY <1>1, <1>2
<1>5. \A i \in DOMAIN trail : trail[i].level \in Nat /\ trail[i].level <= Level
  BY EntryFacts DEF TrailShape
<1>6. TrailShape'
  <2>1. \A k \in DOMAIN lim' : lim'[k] <= Len(trail')
    BY <1>1, <1>2, <1>4 DEF TrailShape
  <2>2. \A i \in DOMAIN trail' : trail'[i].level <= Level'
    BY <1>1, <1>3, <1>5
  <2>3. \A i \in DOMAIN trail' : \A k \in DOMAIN lim' : trail'[i].level < k <=> i <= lim'[k]
    BY <1>1, <1>2, <1>4, <1>5 DEF TrailShape
  <2> QED
    BY <2>1, <2>2, <2>3 DEF TrailShape
<1> QED
  BY <1>3, <1>6

\* So does opening a level with a decision.
LEMMA DecideTrail ==
    ASSUME TrailType, TrailShape, NEW l \in Lits, Undef(l), Decide(l)
    PROVE  /\ TrailType' /\ TrailShape' /\ Level' = Level + 1
           /\ Len(trail') = Len(trail) + 1 /\ SamePrefix(Level)
           /\ trail'[Len(trail) + 1] = [lit |-> l, level |-> Level + 1, reason |-> {}]
<1> DEFINE e == [lit |-> l, level |-> Level + 1, reason |-> {}]
           m == Len(trail)
<1>1. /\ trail \in Seq(Entry) /\ lim \in Seq(Nat) /\ m \in Nat
      /\ Level \in Nat /\ Level = Len(lim) /\ DOMAIN lim = 1..Level /\ DOMAIN trail = 1..m
      /\ Cut(Level) = m
  BY DEF TrailType, Level, Cut
<1>2. e \in Entry /\ trail' = Append(trail, e) /\ lim' = Append(lim, m)
  BY <1>1 DEF Decide, Entry, Clauses
<1>3. /\ trail' \in Seq(Entry) /\ Len(trail') = m + 1 /\ DOMAIN trail' = 1..(m + 1)
      /\ \A i \in 1..m : trail'[i] = trail[i]
      /\ trail'[m + 1] = e
  BY <1>1, <1>2, AppendProperties
<1>4. /\ lim' \in Seq(Nat) /\ Len(lim') = Level + 1 /\ DOMAIN lim' = 1..(Level + 1)
      /\ \A k \in 1..Level : lim'[k] = lim[k]
      /\ lim'[Level + 1] = m
  BY <1>1, <1>2, AppendProperties
<1>5. TrailType' /\ Level' = Level + 1 /\ SamePrefix(Level)
  BY <1>1, <1>3, <1>4 DEF TrailType, Level, SamePrefix
<1>6. /\ \A k \in 1..(Level + 1) : k \in DOMAIN lim \/ k = Level + 1
      /\ \A i \in 1..(m + 1) : i \in DOMAIN trail \/ i = m + 1
  BY SMTT(60), <1>1
<1>7. \A i \in DOMAIN trail : trail[i].level \in Nat /\ trail[i].level <= Level
  BY EntryFacts DEF TrailShape
<1>8. TrailShape'
  <2>1. \A k \in DOMAIN lim' : lim'[k] <= Len(trail')
    <3> SUFFICES ASSUME NEW k \in 1..(Level + 1) PROVE lim'[k] <= m + 1
      BY <1>3, <1>4
    <3>1. CASE k \in DOMAIN lim
      BY <3>1, <1>1, <1>4 DEF TrailShape
    <3>2. CASE k = Level + 1
      BY <3>2, <1>1, <1>4
    <3> QED
      BY <3>1, <3>2, <1>6
  <2>2. \A i \in DOMAIN trail' : trail'[i].level <= Level'
    BY <1>1, <1>3, <1>5, <1>6, <1>7
  <2>3. \A i \in DOMAIN trail' : \A k \in DOMAIN lim' : trail'[i].level < k <=> i <= lim'[k]
    <3> SUFFICES ASSUME NEW i \in 1..(m + 1), NEW k \in 1..(Level + 1)
                 PROVE  trail'[i].level < k <=> i <= lim'[k]
      BY <1>3, <1>4
    <3>1. CASE i \in DOMAIN trail /\ k \in DOMAIN lim
      BY <3>1, <1>1, <1>3, <1>4 DEF TrailShape
    <3>2. CASE i \in DOMAIN trail /\ k = Level + 1
      BY <3>2, <1>1, <1>3, <1>4, <1>7
    <3>3. CASE i = m + 1 /\ k \in DOMAIN lim
      <4>1. lim[k] \in Nat /\ lim[k] <= m /\ lim'[k] = lim[k]
        BY <3>3, <1>1, <1>4 DEF TrailShape
      <4> QED
        BY <4>1, <3>3, <1>1, <1>3
    <3>4. CASE i = m + 1 /\ k = Level + 1
      BY <3>4, <1>1, <1>3, <1>4
    <3> QED
      BY <3>1, <3>2, <3>3, <3>4, <1>6
  <2>4. \A i \in DOMAIN trail : VarOf(trail[i].lit) # VarOf(l)
    <3> SUFFICES ASSUME NEW i \in DOMAIN trail, VarOf(trail[i].lit) = VarOf(l) PROVE FALSE
      OBVIOUS
    <3>1. trail[i].lit \in Lits
      BY EntryFacts
    <3>2. trail[i].lit = l \/ trail[i].lit = -l
      BY <3>1, LitFacts
    <3> QED
      BY <3>2 DEF Undef, True, False
  <2>5. \A i, j \in DOMAIN trail' : VarOf(trail'[i].lit) = VarOf(trail'[j].lit) => i = j
    BY <2>4, <1>1, <1>3, <1>6 DEF TrailShape
  <2> QED
    BY <2>1, <2>2, <2>3, <2>5 DEF TrailShape
<1> QED
  BY <1>3, <1>5, <1>8

\* What is true by a level that is kept stays true.
LEMMA PrefixTrue ==
    ASSUME TrailType, TrailShape, NEW n \in 0..Level, TrailType', SamePrefix(n)
    PROVE  \A l : \A m \in 0..n : TrueBy(l, m) => TrueBy(l, m)'
<1> SUFFICES ASSUME NEW l, NEW m \in 0..n, TrueBy(l, m) PROVE TrueBy(l, m)'
  OBVIOUS
<1>1. PICK i \in DOMAIN trail : trail[i].lit = l /\ trail[i].level <= m
  BY DEF TrueBy
<1>2. n \in Nat /\ m \in Nat /\ m <= n /\ Cut(n) \in Nat
  <2>1. lim \in Seq(Nat) /\ Level \in Nat
    BY DEF TrailType, Level
  <2>2. n \in Nat /\ m \in Nat /\ m <= n
    BY <2>1
  <2> QED
    BY <2>2, KeptFacts
<1>3. i \in Nat /\ i >= 1 /\ trail[i].level \in Nat
  BY EntryFacts
<1>4. i \in 1..Cut(n)
  BY <1>1, <1>2, <1>3, KeptFacts
<1>5. i \in DOMAIN trail' /\ trail'[i] = trail[i]
  BY <1>2, <1>4 DEF SamePrefix, TrailType
<1> QED
  BY <1>1, <1>5 DEF TrueBy

\* Root facts are never lost.
LEMMA PrefixRoot ==
    ASSUME TrailType, TrailShape, NEW n \in 0..Level, TrailType', SamePrefix(n)
    PROVE  \A l : RootTrue(l) => RootTrue(l)'
<1>1. 0 \in 0..n
  BY DEF TrailType, Level
<1> QED
  BY <1>1, PrefixTrue DEF RootTrue

(***************************************************************************)
(* Reasons and root facts, under a formula that only grows.                 *)
(***************************************************************************)
TrailInv == TrailType /\ TrailShape /\ ReasonsHold /\ RootImplied

\* The trail facts survive a step that leaves the trail alone.
LEMMA StayInv ==
    ASSUME TrailInv, formula \subseteq formula', trail' = trail, lim' = lim
    PROVE  TrailInv'
<1>1. \A c : Entails(formula, c) => Entails(formula', c)
  BY EntailsMonotone
<1>2. TrailType' /\ TrailShape'
  BY DEF TrailInv, TrailType, TrailShape, Level
<1>3. ReasonsHold' /\ RootImplied'
  BY <1>1 DEF TrailInv, ReasonsHold, RootImplied
<1> QED
  BY <1>2, <1>3 DEF TrailInv

\* They survive a level opened without a decision.
LEMMA OpenInv ==
    ASSUME TrailInv, formula \subseteq formula', trail' = trail, lim' = Append(lim, Len(trail))
    PROVE  TrailInv' /\ Level' = Level + 1
<1>1. \A c : Entails(formula, c) => Entails(formula', c)
  BY EntailsMonotone
<1>2. TrailType' /\ TrailShape' /\ Level' = Level + 1
  BY OpenTrail DEF TrailInv
<1>3. ReasonsHold' /\ RootImplied'
  BY <1>1 DEF TrailInv, ReasonsHold, RootImplied
<1> QED
  BY <1>2, <1>3 DEF TrailInv

\* The entries kept keep their reasons, which come before them.
LEMMA PrefixReasons ==
    ASSUME TrailInv, formula \subseteq formula', NEW n \in 0..Level, TrailType', SamePrefix(n)
    PROVE  \A i \in 1..Cut(n) :
              /\ i \in DOMAIN trail' /\ trail'[i] = trail[i]
              /\ trail[i].level = 0 => Entails(formula', {trail[i].lit})
              /\ trail[i].reason # {} =>
                    /\ trail[i].lit \in trail[i].reason
                    /\ Entails(formula', trail[i].reason)
                    /\ \A q \in trail[i].reason \ {trail[i].lit} :
                          \E j \in 1..(i - 1) : trail'[j].lit = -q
<1> SUFFICES ASSUME NEW i \in 1..Cut(n)
             PROVE  /\ i \in DOMAIN trail' /\ trail'[i] = trail[i]
                    /\ trail[i].level = 0 => Entails(formula', {trail[i].lit})
                    /\ trail[i].reason # {} =>
                          /\ trail[i].lit \in trail[i].reason
                          /\ Entails(formula', trail[i].reason)
                          /\ \A q \in trail[i].reason \ {trail[i].lit} :
                                \E j \in 1..(i - 1) : trail'[j].lit = -q
  OBVIOUS
<1>1. \A c : Entails(formula, c) => Entails(formula', c)
  BY EntailsMonotone
<1>2. TrailType /\ TrailShape /\ ReasonsHold /\ RootImplied
  BY DEF TrailInv
<1>3. Cut(n) \in Nat /\ i \in Nat /\ i \in DOMAIN trail
  BY <1>2, KeptFacts
<1>4. \A j \in 1..Cut(n) : j \in DOMAIN trail' /\ trail'[j] = trail[j]
  BY <1>3 DEF SamePrefix, TrailType
<1>5. \A j \in 1..(i - 1) : trail'[j] = trail[j]
  BY <1>3, <1>4
<1>6. trail[i].level = 0 => Entails(formula', {trail[i].lit})
  BY <1>1, <1>2, <1>3 DEF RootImplied
<1>7. ASSUME trail[i].reason # {}
      PROVE  /\ trail[i].lit \in trail[i].reason
             /\ Entails(formula', trail[i].reason)
             /\ \A q \in trail[i].reason \ {trail[i].lit} :
                    \E j \in 1..(i - 1) : trail'[j].lit = -q
  BY <1>1, <1>2, <1>3, <1>5, <1>7 DEF ReasonsHold
<1> QED
  BY <1>4, <1>6, <1>7

\* They survive cancel_until.
LEMMA CancelInv ==
    ASSUME TrailInv, formula \subseteq formula', NEW n \in 0..Level, CancelUntil(n)
    PROVE  /\ TrailInv' /\ Level' = n
           /\ Len(trail') = Cut(n) /\ SamePrefix(n)
<1>1. TrailType' /\ TrailShape' /\ Level' = n /\ Len(trail') = Cut(n) /\ SamePrefix(n)
  BY CancelTrail DEF TrailInv
<1>2. DOMAIN trail' = 1..Cut(n)
  BY <1>1 DEF TrailType
<1>3. ReasonsHold' /\ RootImplied'
  BY <1>1, <1>2, PrefixReasons DEF ReasonsHold, RootImplied
<1> QED
  BY <1>1, <1>3 DEF TrailInv

\* They survive a decision.
LEMMA DecideInv ==
    ASSUME TrailInv, formula \subseteq formula', NEW l \in Lits, Undef(l), Decide(l)
    PROVE  /\ TrailInv' /\ Level' = Level + 1
           /\ Len(trail') = Len(trail) + 1 /\ SamePrefix(Level)
           /\ trail'[Len(trail) + 1] = [lit |-> l, level |-> Level + 1, reason |-> {}]
<1> DEFINE m == Len(trail)
<1>1. /\ TrailType' /\ TrailShape' /\ Level' = Level + 1
      /\ Len(trail') = m + 1 /\ SamePrefix(Level)
      /\ trail'[m + 1] = [lit |-> l, level |-> Level + 1, reason |-> {}]
  BY DecideTrail DEF TrailInv
<1>2. Cut(Level) = m /\ m \in Nat /\ Level \in Nat /\ DOMAIN trail' = 1..(m + 1)
      /\ Level \in 0..Level
  BY <1>1 DEF Cut, Level, TrailType, TrailInv
<1>3. \A i \in DOMAIN trail' : i \in 1..m \/ i = m + 1
  BY <1>2
<1>4. trail'[m + 1].reason = {} /\ trail'[m + 1].level # 0
  BY <1>1, <1>2
<1> HIDE DEF m
<1>5. ReasonsHold' /\ RootImplied'
  BY <1>1, <1>2, <1>3, <1>4, PrefixReasons DEF ReasonsHold, RootImplied
<1> QED
  BY <1>1, <1>5 DEF TrailInv, m

\* They survive a literal enqueued with a clause it is unit in, or, at the
\* root, with nothing but the formula behind it.
LEMMA AssertInv ==
    ASSUME TrailInv, formula \subseteq formula', NEW n \in 0..Level,
           NEW l \in Lits, NEW r \in Clauses, ~TrueBy(l, n), ~TrueBy(-l, n), Assert(n, l, r),
           r # {} => /\ l \in r /\ Entails(formula', r)
                     /\ \A q \in r \ {l} : TrueBy(-q, n),
           n = 0 => Entails(formula', {l})
    PROVE  /\ TrailInv' /\ Level' = n
           /\ Len(trail') = Cut(n) + 1 /\ SamePrefix(n)
           /\ trail'[Cut(n) + 1] = [lit |-> l, level |-> n, reason |-> r]
<1> DEFINE m == Cut(n)
<1>1. /\ TrailType' /\ TrailShape' /\ Level' = n
      /\ Len(trail') = m + 1 /\ SamePrefix(n)
      /\ trail'[m + 1] = [lit |-> l, level |-> n, reason |-> r]
  BY AssertTrail DEF TrailInv
<1>2. m \in Nat /\ DOMAIN trail' = 1..(m + 1)
  BY <1>1, KeptFacts DEF TrailType, TrailInv
<1>3. \A i \in DOMAIN trail' : i \in 1..m \/ i = m + 1
  BY <1>2
<1>4. /\ trail'[m + 1].reason = r /\ trail'[m + 1].lit = l
      /\ trail'[m + 1].level = 0 => Entails(formula', {trail'[m + 1].lit})
  BY <1>1
<1>5. r # {} => \A q \in r \ {l} : \E j \in 1..m : trail[j].lit = -q
  BY TrueByFacts DEF TrailInv
<1>6. r # {} => \A q \in r \ {l} : \E j \in 1..m : trail'[j].lit = -q
  BY <1>1, <1>5 DEF SamePrefix
<1>7. (m + 1) - 1 = m
  BY <1>2
<1> HIDE DEF m
<1>8. RootImplied'
  BY <1>1, <1>2, <1>3, <1>4, PrefixReasons DEF RootImplied, m
<1>9. ReasonsHold'
  BY ZenonT(60), <1>1, <1>2, <1>3, <1>4, <1>6, <1>7, PrefixReasons DEF ReasonsHold, m
<1> QED
  BY <1>1, <1>8, <1>9 DEF TrailInv, m

(***************************************************************************)
(* What the trail says of the formula's models.                             *)
(***************************************************************************)
\* Root facts hold in every model of the formula.
LEMMA RootHolds ==
    ASSUME TrailInv, NEW M \in Models(formula), NEW l, RootTrue(l)
    PROVE  Holds(M, l)
<1>1. PICK i \in DOMAIN trail : trail[i].lit = l /\ trail[i].level <= 0
  BY DEF RootTrue, TrueBy
<1>2. trail[i].level = 0
  BY <1>1, EntryFacts DEF TrailInv
<1>3. Entails(formula, {l})
  BY <1>1, <1>2 DEF TrailInv, RootImplied
<1> QED
  BY <1>3 DEF Entails, Satisfies

\* A reason whose other literals a model falsifies makes its literal hold.
LEMMA ReasonForces ==
    ASSUME TrailInv, NEW M \in Models(formula), NEW i \in DOMAIN trail,
           trail[i].reason # {},
           \A q \in trail[i].reason \ {trail[i].lit} : Holds(M, -q)
    PROVE  Holds(M, trail[i].lit)
<1>1. trail[i].reason \in Clauses /\ Entails(formula, trail[i].reason)
  BY EntryFacts DEF TrailInv, ReasonsHold
<1>2. PICK q \in trail[i].reason : Holds(M, q)
  BY <1>1 DEF Entails, Satisfies
<1>3. q \in Lits /\ M \in Assignments
  BY <1>1 DEF Clauses, Models
<1>4. ~Holds(M, -q)
  BY <1>2, <1>3, HoldsNegation
<1> QED
  BY <1>2, <1>4

\* Whatever follows from K by reasons on the trail holds where K does.
LEMMA SupportedHolds ==
    ASSUME TrailInv, NEW M \in Models(formula), NEW S \in SUBSET DOMAIN trail, NEW K,
           Supported(S, K), \A k \in K : Holds(M, k)
    PROVE  \A l : Follows(l, S, K) => Holds(M, l)
<1>1. \A i \in S : Holds(M, trail[i].lit)
  <2> DEFINE T == {i \in S : ~Holds(M, trail[i].lit)}
  <2> SUFFICES ASSUME T # {} PROVE FALSE
    OBVIOUS
  <2>1. T \subseteq Nat /\ \A i \in T : i \in DOMAIN trail
    BY EntryFacts DEF TrailInv
  <2>2. PICK i \in T : \A y \in T : i <= y
    BY <2>1, LeastPosition
  <2>3. i \in S /\ i \in DOMAIN trail /\ ~Holds(M, trail[i].lit) /\ i \in Nat
    BY <2>1, <2>2
  <2>4. trail[i].reason # {} /\ trail[i].reason \in Clauses
    BY <2>3, EntryFacts DEF Supported, TrailInv
  <2>5. ASSUME NEW q \in trail[i].reason \ {trail[i].lit}
        PROVE  Holds(M, -q)
    <3>1. Follows(-q, S, K)
      BY <2>3 DEF Supported
    <3>2. CASE RootTrue(-q)
      BY <3>2, RootHolds
    <3>3. CASE -q \in K
      BY <3>3
    <3>4. ASSUME NEW j \in S, trail[j].lit = -q
          PROVE  Holds(M, -q)
      <4>1. PICK k \in 1..(i - 1) : trail[k].lit = -q
        BY <2>3, <2>4 DEF TrailInv, ReasonsHold
      <4>2. k \in DOMAIN trail /\ k \in Nat /\ k < i
        BY <2>3, <4>1 DEF TrailInv, TrailType
      <4>3. j = k
        BY <3>4, <4>1, <4>2, OneEntry DEF TrailInv
      <4>4. j \notin T
        BY <2>2, <2>3, <4>2, <4>3
      <4> QED
        BY <3>4, <4>4
    <3> QED
      BY <3>1, <3>2, <3>3, <3>4 DEF Follows
  <2> QED
    BY <2>3, <2>4, <2>5, ReasonForces
<1> QED
  BY <1>1, RootHolds DEF Follows

\* A model that agrees with the decisions agrees with the whole trail.
LEMMA DecisionsForce ==
    ASSUME TrailInv, NEW M \in Models(formula),
           \A i \in DOMAIN trail :
               trail[i].reason = {} /\ trail[i].level > 0 => Holds(M, trail[i].lit)
    PROVE  \A l : True(l) => Holds(M, l)
<1> DEFINE S == {i \in DOMAIN trail : trail[i].reason # {}}
           K == {trail[i].lit : i \in {j \in DOMAIN trail : trail[j].reason = {} /\ trail[j].level > 0}}
<1>1. \A k \in K : Holds(M, k)
  OBVIOUS
<1>2. \A l : True(l) => Follows(l, S, K)
  <2> SUFFICES ASSUME NEW i \in DOMAIN trail PROVE Follows(trail[i].lit, S, K)
    BY DEF True
  <2>1. trail[i].level \in Nat
    BY EntryFacts DEF TrailInv
  <2>2. CASE trail[i].reason # {}
    BY <2>2 DEF Follows
  <2>3. CASE trail[i].reason = {} /\ trail[i].level > 0
    BY <2>3 DEF Follows
  <2>4. CASE trail[i].level = 0
    BY <2>4 DEF Follows, RootTrue, TrueBy
  <2> QED
    BY <2>1, <2>2, <2>3, <2>4
<1>3. Supported(S, K)
  <2> SUFFICES ASSUME NEW i \in S, NEW q \in trail[i].reason \ {trail[i].lit}
               PROVE  Follows(-q, S, K)
    BY DEF Supported
  <2>1. PICK j \in 1..(i - 1) : trail[j].lit = -q
    BY DEF TrailInv, ReasonsHold
  <2>2. i \in DOMAIN trail /\ trail \in Seq(Entry)
    BY DEF TrailInv, TrailType
  <2>3. j \in DOMAIN trail
    BY <2>2
  <2> QED
    BY <1>2, <2>1, <2>3 DEF True
<1> HIDE DEF S, K
<1>4. S \in SUBSET DOMAIN trail
  BY DEF S
<1> QED
  BY <1>1, <1>2, <1>3, <1>4, SupportedHolds

\* Dropping the literals false at the root, also from a clause that is only
\* now added to the formula.
LEMMA StripEntails ==
    ASSUME TrailInv, NEW F, formula \subseteq F, NEW c \in Clauses, Entails(F, c)
    PROVE  Strip(c) \in Clauses /\ Entails(F, Strip(c))
<1>1. Strip(c) \in Clauses
  BY DEF Strip, Clauses
<1>2. ASSUME NEW M \in Models(F) PROVE Satisfies(M, Strip(c))
  <2> M \in Models(formula)
    BY DEF Models
  <2>1. PICK l \in c : Holds(M, l)
    BY DEF Entails, Satisfies
  <2>2. l \in Lits /\ M \in Assignments
    BY DEF Clauses, Models
  <2>3. ~RootFalse(l)
    BY <2>1, <2>2, HoldsNegation, RootHolds DEF RootFalse
  <2> QED
    BY <2>1, <2>3 DEF Strip, Satisfies
<1> QED
  BY <1>1, <1>2 DEF Entails

--------------------------------------------------------------------------------
(***************************************************************************)
(* The inductive invariant in groups, and how each group survives the steps *)
(* that do not aim at it.                                                   *)
(***************************************************************************)
AnswersHold ==
    /\ UnsatIsProof /\ SatIsModel /\ RefutedIsProof /\ ForcedIsImplied
    /\ CoreIsUnsat /\ CoreFromQuery

\* The inductive invariant as the groups the proofs work with.
LEMMA IInvGroups ==
    IInv <=> /\ TypeOK /\ TrailInv
             /\ DbImplied /\ FormulaCovered /\ ResolventHolds
             /\ AssumptionLevels /\ ProbeLevels /\ CallShape
             /\ AnswersHold
  BY DEF IInv, TypeOK, TrailInv, TrailType, AnswersHold

\* A step that clears the answer leaves nothing to show but the core.
LEMMA AnswersReset ==
    ASSUME AnswersHold, formula \subseteq formula', answer' = "none", core' = core \/ core' = {}
    PROVE  AnswersHold'
<1>1. CoreIsUnsat'
  <2> SUFFICES ASSUME core' # {} PROVE Refuted(formula', core')
    BY DEF CoreIsUnsat
  <2>1. Refuted(formula, core) /\ core' = core
    BY DEF AnswersHold, CoreIsUnsat
  <2> QED
    BY <2>1, RefutedMonotone
<1> QED
  BY <1>1 DEF AnswersHold, UnsatIsProof, SatIsModel, RefutedIsProof, ForcedIsImplied, CoreFromQuery

\* Stored clauses and root facts go on covering the clauses added.
LEMMA CoverKept ==
    ASSUME FormulaCovered, originals \subseteq originals', dead => dead',
           \A l : RootTrue(l) => RootTrue(l)'
    PROVE  \A c \in formula : \/ dead'
                              \/ Tautology(c)
                              \/ \E l \in c : RootTrue(l)'
                              \/ \E d \in originals' : d \subseteq c
<1> SUFFICES ASSUME NEW c \in formula
             PROVE  \/ dead'
                    \/ Tautology(c)
                    \/ \E l \in c : RootTrue(l)'
                    \/ \E d \in originals' : d \subseteq c
  OBVIOUS
<1>1. \/ dead
      \/ Tautology(c)
      \/ \E l \in c : RootTrue(l)
      \/ \E d \in originals : d \subseteq c
  BY DEF FormulaCovered
<1> QED
  BY <1>1

\* The levels a step leaves alone keep their assumptions; what it adds at
\* those levels is not a decision.
LEMMA LevelsKept ==
    ASSUME TrailInv, TrailInv', AssumptionLevels,
           NEW n \in 0..Level, SamePrefix(n),
           Owned' \in Nat, Owned' <= n, Owned' <= Owned, Owned \in Nat,
           assumptions \in Seq(Lits), assumptions' \in Seq(Lits),
           \A k \in 1..Owned' : k <= Len(assumptions') =>
               k <= Len(assumptions) /\ assumptions'[k] = assumptions[k],
           \A i \in DOMAIN trail' : i > Cut(n) =>
               \/ trail'[i].reason # {}
               \/ trail'[i].level \notin 1..Owned'
    PROVE  AssumptionLevels'
<1> DEFINE o == Owned'
<1>1. TrailType /\ TrailShape /\ TrailType' /\ n \in Nat /\ Cut(n) \in Nat
  BY KeptFacts DEF TrailInv, TrailType, Level
<1>2. DOMAIN trail' = 1..Len(trail') /\ Len(trail') \in Nat
  BY <1>1 DEF TrailType
<1>3. \A i \in 1..Cut(n) : i \in DOMAIN trail /\ trail'[i] = trail[i]
  BY <1>1, KeptFacts DEF SamePrefix
<1>4. ASSUME NEW i \in DOMAIN trail', trail'[i].reason = {}, trail'[i].level \in 1..o,
             trail'[i].level <= Len(assumptions')
      PROVE  trail'[i].lit = assumptions'[trail'[i].level]
  <2>1. i \in 1..Cut(n)
    BY <1>2, <1>1, <1>4
  <2>2. i \in DOMAIN trail /\ trail'[i] = trail[i] /\ trail[i].reason = {}
        /\ trail[i].level \in 1..o
    BY <1>3, <1>4, <2>1
  <2>3. trail[i].level <= Len(assumptions) /\ assumptions'[trail[i].level] = assumptions[trail[i].level]
    BY <1>4, <2>2
  <2>4. trail[i].level \in 1..Owned
    BY <2>2
  <2>5. trail[i].lit = assumptions[trail[i].level]
    BY <2>2, <2>3, <2>4 DEF AssumptionLevels
  <2> QED
    BY <2>2, <2>3, <2>5
<1>5. ASSUME NEW k \in 1..o, k <= Len(assumptions')
      PROVE  TrueBy(assumptions[k], k)'
  <2>1. k \in 1..Owned /\ k \in 0..n /\ k <= Len(assumptions) /\ assumptions'[k] = assumptions[k]
    BY <1>1, <1>5
  <2>2. TrueBy(assumptions[k], k)
    BY <2>1 DEF AssumptionLevels
  <2>3. TrueBy(assumptions[k], k)' <=>
            \E i \in DOMAIN trail' : trail'[i].lit = assumptions'[k] /\ trail'[i].level <= k
    BY DEF TrueBy
  <2>4. PICK i \in DOMAIN trail : trail[i].lit = assumptions[k] /\ trail[i].level <= k
    BY <2>2 DEF TrueBy
  <2>5. i \in 1..Cut(n)
    <3>1. i \in Nat /\ i >= 1 /\ trail[i].level \in Nat
      BY <1>1, EntryFacts
    <3>2. trail[i].level <= n
      BY <2>1, <2>4, <3>1, <1>1
    <3> QED
      BY <3>1, <3>2, <1>1, KeptFacts
  <2>6. i \in DOMAIN trail' /\ trail'[i] = trail[i]
    BY <1>1, <1>3, <2>5 DEF SamePrefix, TrailType
  <2> QED
    BY <2>1, <2>3, <2>4, <2>6
<1> QED
  BY <1>4, <1>5 DEF AssumptionLevels

\* Steps of a running search or probe that only touch the trail.
LEMMA TrailOnly ==
    ASSUME IInv, UNCHANGED <<dbVars, callVars, resultVars, resolvent, phase>>,
           phase \in {"search", "probe"},
           TrailInv', \A l : RootTrue(l) => RootTrue(l)',
           AssumptionLevels', ProbeLevels'
    PROVE  IInv'
<1>1. /\ formula' = formula /\ originals' = originals /\ learnts' = learnts /\ dead' = dead
      /\ assumptions' = assumptions /\ query' = query /\ base' = base
      /\ core' = core /\ forced' = forced /\ answer' = answer
      /\ resolvent' = resolvent /\ phase' = phase
  BY DEF dbVars, callVars, resultVars
<1>2. TypeOK'
  BY <1>1 DEF TrailInv, TrailType, IInv, TypeOK
<1>3. DbImplied'
  BY <1>1 DEF IInv, DbImplied, Db
<1>4. FormulaCovered'
  <2>1. \A c \in formula : \/ dead'
                           \/ Tautology(c)
                           \/ \E l \in c : RootTrue(l)'
                           \/ \E d \in originals' : d \subseteq c
    BY <1>1, CoverKept DEF IInv
  <2> QED
    BY <1>1, <2>1 DEF FormulaCovered
<1>5. ResolventHolds'
  BY <1>1 DEF ResolventHolds
<1>6. CallShape'
  BY <1>1 DEF IInv, CallShape
<1>7. AnswersHold'
  <2>1. answer' = "none"
    BY <1>1 DEF IInv, CallShape
  <2>2. AnswersHold
    BY IInvGroups
  <2> QED
    BY <1>1, <2>1, <2>2, AnswersReset
<1> QED
  BY <1>2, <1>3, <1>4, <1>5, <1>6, <1>7 DEF IInv, TrailInv, AnswersHold

\* Every assigned literal is true by the current level.
LEMMA TrueAtTop ==
    ASSUME TrailInv, NEW l
    PROVE  True(l) <=> TrueBy(l, Level)
  BY DEF TrailInv, TrailShape, True, TrueBy

\* A clause whose other literals are false at the root gives its last literal.
LEMMA UnitEntails ==
    ASSUME TrailInv, NEW F, formula \subseteq F, NEW c \in Clauses, Entails(F, c), NEW l \in c,
           \A q \in c \ {l} : RootTrue(-q)
    PROVE  Entails(F, {l})
<1> SUFFICES ASSUME NEW M \in Models(F) PROVE Holds(M, l)
  BY DEF Entails, Satisfies
<1> M \in Models(formula)
  BY DEF Models
<1>1. PICK q \in c : Holds(M, q)
  BY DEF Entails, Satisfies
<1>2. q \in Lits /\ M \in Assignments
  BY DEF Clauses, Models
<1>3. ~RootTrue(-q)
  BY <1>1, <1>2, HoldsNegation, RootHolds
<1> QED
  BY <1>1, <1>3

\* A running probe: what is added to the trail is implied or was asked for.
LEMMA ProbeKept ==
    ASSUME TrailInv, TrailInv', ProbeLevels, SamePrefix(Level), Level' >= Level,
           base \in Nat, UNCHANGED <<callVars, phase>>,
           \A i \in DOMAIN trail' : i > Len(trail) =>
               trail'[i].reason # {} \/ trail'[i].lit \in QueryLits
    PROVE  ProbeLevels'
<1>1. base' = base /\ query' = query /\ assumptions' = assumptions /\ phase' = phase
  BY DEF callVars
<1>2. /\ Cut(Level) = Len(trail) /\ Level \in Nat /\ Level' \in Nat
      /\ DOMAIN trail = 1..Len(trail) /\ Len(trail) \in Nat
      /\ DOMAIN trail' = 1..Len(trail') /\ Len(trail') \in Nat
  BY DEF TrailInv, TrailType, Level, Cut
<1>3. \A i \in DOMAIN trail : trail'[i] = trail[i]
  BY <1>2 DEF SamePrefix
<1> SUFFICES ASSUME phase = "probe"
             PROVE  /\ base <= Level'
                    /\ Shared(query, base)
                    /\ \A i \in DOMAIN trail' :
                          trail'[i].reason = {} /\ trail'[i].level > 0 => trail'[i].lit \in QueryLits
  BY <1>1 DEF ProbeLevels, QueryLits, Shared
<1>4. base <= Level /\ Shared(query, base)
  BY DEF ProbeLevels
<1>5. ASSUME NEW i \in DOMAIN trail', trail'[i].reason = {}, trail'[i].level > 0
      PROVE  trail'[i].lit \in QueryLits
  <2>1. CASE i \in DOMAIN trail
    BY <2>1, <1>3, <1>5 DEF ProbeLevels
  <2>2. CASE i > Len(trail)
    BY <2>2, <1>5
  <2> QED
    BY <2>1, <2>2, <1>2
<1> QED
  BY <1>2, <1>4, <1>5

\* The levels that belong to the assumptions are levels of the trail.
LEMMA OwnedFacts ==
    ASSUME IInv
    PROVE  Level \in Nat /\ Owned \in 0..Level
<1>1. Level \in Nat /\ base \in Nat
  BY DEF IInv, TypeOK, Level
<1> QED
  BY <1>1 DEF IInv, ProbeLevels, Owned

\* A unit propagation, in a search or in a probe, preserves the invariant.
LEMMA PropagateStep ==
    ASSUME IInv, NEW c \in Db, NEW l \in c, Propagate(c, l)
    PROVE  IInv'
<1>1. /\ phase \in {"search", "probe"} /\ UnitWith(c, l) /\ Assert(Level, l, c)
      /\ UNCHANGED <<dbVars, callVars, resultVars, resolvent, phase>>
      /\ formula' = formula /\ base' = base /\ assumptions' = assumptions /\ phase' = phase
  BY DEF Propagate, dbVars, callVars
<1>2. TrailInv /\ c \in Clauses /\ l \in Lits /\ Level \in 0..Level /\ Level \in Nat
      /\ Entails(formula, c)
  BY OwnedFacts, IInvGroups DEF Db, Clauses, IInv, TypeOK, DbImplied
<1>3. ~TrueBy(l, Level) /\ ~TrueBy(-l, Level) /\ \A q \in c \ {l} : TrueBy(-q, Level)
  BY <1>1, <1>2, TrueAtTop DEF UnitWith, Undef, False
<1>4. Level = 0 => Entails(formula', {l})
  BY <1>1, <1>2, <1>3, UnitEntails DEF RootTrue
<1>5. /\ TrailInv' /\ Level' = Level
      /\ Len(trail') = Cut(Level) + 1 /\ SamePrefix(Level)
      /\ trail'[Cut(Level) + 1] = [lit |-> l, level |-> Level, reason |-> c]
  BY <1>1, <1>2, <1>3, <1>4, AssertInv
<1>6. /\ Cut(Level) = Len(trail) /\ Len(trail) \in Nat
      /\ \A i \in DOMAIN trail' : i > Len(trail) => trail'[i].reason # {}
  <2>1. Cut(Level) = Len(trail) /\ Len(trail) \in Nat /\ DOMAIN trail' = 1..Len(trail')
    BY <1>2, <1>5 DEF Cut, TrailInv, TrailType
  <2>2. \A i \in DOMAIN trail' : i > Len(trail) => i = Len(trail) + 1
    BY <2>1, <1>5
  <2>3. trail'[Len(trail) + 1].reason # {}
    BY <2>1, <1>5
  <2> QED
    BY <2>1, <2>2, <2>3
<1>7. \A k : RootTrue(k) => RootTrue(k)'
  BY <1>2, <1>5, PrefixRoot DEF TrailInv
<1>8. AssumptionLevels'
  <2>1. Owned' \in Nat /\ Owned' <= Level /\ Owned' <= Owned /\ Owned \in Nat
    <3>1. Owned' = Owned
      BY <1>1, <1>5 DEF Owned
    <3> QED
      BY <3>1, OwnedFacts
  <2>2. AssumptionLevels /\ assumptions \in Seq(Lits) /\ assumptions' \in Seq(Lits)
    BY <1>1 DEF IInv, TypeOK
  <2>3. \A k \in 1..Owned' : k <= Len(assumptions') =>
            k <= Len(assumptions) /\ assumptions'[k] = assumptions[k]
    BY <1>1
  <2>4. \A i \in DOMAIN trail' : i > Cut(Level) =>
            \/ trail'[i].reason # {}
            \/ trail'[i].level \notin 1..Owned'
    BY <1>6
  <2> QED
    BY <1>2, <1>5, <2>1, <2>2, <2>3, <2>4, LevelsKept
<1>9. ProbeLevels'
  <2>1. base \in Nat /\ ProbeLevels /\ Level' >= Level
    BY <1>2, <1>5 DEF IInv, TypeOK
  <2> QED
    BY <1>1, <1>2, <1>5, <1>6, <2>1, ProbeKept
<1> QED
  BY <1>1, <1>5, <1>7, <1>8, <1>9, TrailOnly

\* A restart to any level preserves the invariant.
LEMMA RestartStep ==
    ASSUME IInv, NEW n \in 0..Level, Restart(n)
    PROVE  IInv'
<1>1. /\ phase = "search" /\ CancelUntil(n)
      /\ UNCHANGED <<dbVars, callVars, resultVars, resolvent, phase>>
      /\ formula' = formula /\ assumptions' = assumptions /\ phase' = phase
  BY DEF Restart, dbVars, callVars
<1>2. TrailInv /\ n \in Nat /\ n <= Level /\ Level \in Nat
  BY OwnedFacts, IInvGroups
<1>3. TrailInv' /\ Level' = n /\ Len(trail') = Cut(n) /\ SamePrefix(n)
  BY <1>1, <1>2, CancelInv
<1>4. \A k : RootTrue(k) => RootTrue(k)'
  BY <1>2, <1>3, PrefixRoot DEF TrailInv
<1>5. AssumptionLevels'
  <2>1. Owned' = n /\ Owned = Level
    BY <1>1, <1>3 DEF Owned
  <2>2. AssumptionLevels /\ assumptions \in Seq(Lits) /\ assumptions' \in Seq(Lits)
    BY <1>1 DEF IInv, TypeOK
  <2>3. \A k \in 1..Owned' : k <= Len(assumptions') =>
            k <= Len(assumptions) /\ assumptions'[k] = assumptions[k]
    BY <1>1
  <2>4. \A i \in DOMAIN trail' : ~(i > Cut(n))
    BY <1>2, <1>3, KeptFacts DEF TrailInv, TrailType
  <2> QED
    BY <1>2, <1>3, <2>1, <2>2, <2>3, <2>4, LevelsKept
<1>6. ProbeLevels'
  BY <1>1 DEF ProbeLevels
<1> QED
  BY <1>1, <1>3, <1>4, <1>5, <1>6, TrailOnly

\* A decision of the search: the next assumption, or anything above them.
LEMMA SearchDecision ==
    ASSUME IInv, phase = "search", UNCHANGED <<dbVars, callVars, resultVars, resolvent, phase>>,
           NEW l \in Lits, Undef(l), Decide(l),
           Level < Len(assumptions) => l = assumptions[Level + 1]
    PROVE  IInv'
<1>1. formula' = formula /\ assumptions' = assumptions /\ phase' = phase
  BY DEF dbVars, callVars
<1>2. TrailInv /\ Level \in Nat /\ Level \in 0..Level /\ assumptions \in Seq(Lits)
      /\ Len(assumptions) \in Nat
  BY OwnedFacts, IInvGroups DEF IInv, TypeOK
<1>3. /\ TrailInv' /\ Level' = Level + 1
      /\ Len(trail') = Len(trail) + 1 /\ SamePrefix(Level)
      /\ trail'[Len(trail) + 1] = [lit |-> l, level |-> Level + 1, reason |-> {}]
  BY <1>1, <1>2, DecideInv
<1>4. \A k : RootTrue(k) => RootTrue(k)'
  BY <1>2, <1>3, PrefixRoot DEF TrailInv
<1>5. AssumptionLevels'
  <2>1. Owned' = Level + 1 /\ Owned = Level
    BY <1>1, <1>3 DEF Owned
  <2>2. /\ DOMAIN trail' = 1..(Len(trail) + 1) /\ DOMAIN trail = 1..Len(trail)
        /\ Len(trail) \in Nat /\ Cut(Level) = Len(trail)
    BY <1>2, <1>3 DEF TrailInv, TrailType, Cut
  <2>3. /\ \A i \in DOMAIN trail : trail'[i] = trail[i] /\ trail[i].level <= Level
        /\ \A i \in DOMAIN trail' : i \in DOMAIN trail \/ i = Len(trail) + 1
    BY <1>2, <1>3, <2>2 DEF SamePrefix, TrailInv, TrailShape
  <2>4. ASSUME NEW i \in DOMAIN trail', trail'[i].reason = {}, trail'[i].level \in 1..(Level + 1),
               trail'[i].level <= Len(assumptions)
        PROVE  trail'[i].lit = assumptions[trail'[i].level]
    <3>1. CASE i \in DOMAIN trail
      <4>1. trail[i].level \in 1..Owned
        BY <2>1, <2>3, <2>4, <3>1, <1>2
      <4> QED
        BY <2>3, <2>4, <3>1, <4>1 DEF IInv, AssumptionLevels
    <3>2. CASE i = Len(trail) + 1
      BY <3>2, <1>2, <1>3, <2>4
    <3> QED
      BY <3>1, <3>2, <2>3
  <2>5. ASSUME NEW k \in 1..(Level + 1), k <= Len(assumptions)
        PROVE  TrueBy(assumptions[k], k)'
    <3>1. CASE k <= Level
      <4>1. TrueBy(assumptions[k], k) /\ k \in 0..Level
        BY <2>1, <2>5, <3>1, <1>2 DEF IInv, AssumptionLevels
      <4>2. \E i \in DOMAIN trail : trail[i].lit = assumptions[k] /\ trail[i].level <= k
        BY <4>1 DEF TrueBy
      <4> QED
        BY <4>2, <1>1, <2>2, <2>3 DEF TrueBy
    <3>2. CASE k = Level + 1
      <4>1. /\ trail'[Len(trail) + 1].lit = assumptions[k] /\ trail'[Len(trail) + 1].level <= k
            /\ Len(trail) + 1 \in DOMAIN trail'
        BY <3>2, <1>2, <1>3, <2>2, <2>5
      <4> QED
        BY <4>1, <1>1 DEF TrueBy
    <3> QED
      BY <3>1, <3>2, <1>2
  <2> QED
    BY <1>1, <2>1, <2>4, <2>5 DEF AssumptionLevels
<1>6. ProbeLevels'
  BY <1>1 DEF ProbeLevels
<1> QED
  BY <1>3, <1>4, <1>5, <1>6, TrailOnly

\* Opening the level of the next assumption preserves the invariant.
LEMMA AssumeStep ==
    ASSUME IInv, Assume
    PROVE  IInv'
<1>1. NextAssumption \in Lits
  BY OwnedFacts DEF Assume, Pending, NextAssumption, IInv, TypeOK
<1> QED
  BY <1>1, SearchDecision DEF Assume, Pending, NextAssumption

\* A decision above the assumptions preserves the invariant.
LEMMA BranchStep ==
    ASSUME IInv, NEW l \in Lits, Branch(l)
    PROVE  IInv'
<1>1. ~(Level < Len(assumptions))
  BY OwnedFacts DEF Branch, IInv, TypeOK
<1> QED
  BY <1>1, SearchDecision DEF Branch

\* An empty level for an assumption that is true already preserves the
\* invariant.
LEMMA AlreadyTrueStep ==
    ASSUME IInv, AlreadyTrue
    PROVE  IInv'
<1>1. /\ phase = "search" /\ Level < Len(assumptions) /\ True(assumptions[Level + 1])
      /\ trail' = trail /\ lim' = Append(lim, Len(trail))
      /\ UNCHANGED <<dbVars, callVars, resultVars, resolvent, phase>>
      /\ formula' = formula /\ assumptions' = assumptions /\ phase' = phase
  BY DEF AlreadyTrue, Pending, NextAssumption, dbVars, callVars
<1>2. TrailInv /\ Level \in Nat /\ assumptions \in Seq(Lits) /\ Len(assumptions) \in Nat
  BY OwnedFacts, IInvGroups DEF IInv, TypeOK
<1>3. TrailInv' /\ Level' = Level + 1
  BY <1>1, <1>2, OpenInv
<1>4. \A k : RootTrue(k) => RootTrue(k)'
  BY <1>1 DEF RootTrue, TrueBy
<1>5. AssumptionLevels'
  <2>1. Owned' = Level + 1 /\ Owned = Level
    BY <1>1, <1>3 DEF Owned
  <2>2. \A i \in DOMAIN trail : trail[i].level <= Level
    BY <1>2 DEF TrailInv, TrailShape
  <2>3. ASSUME NEW k \in 1..(Level + 1), k <= Len(assumptions)
        PROVE  TrueBy(assumptions[k], k)'
    <3>1. CASE k <= Level
      <4>1. TrueBy(assumptions[k], k)
        BY <2>1, <2>3, <3>1, <1>2 DEF IInv, AssumptionLevels
      <4> QED
        BY <4>1, <1>1 DEF TrueBy
    <3>2. CASE k = Level + 1
      <4>1. PICK i \in DOMAIN trail : trail[i].lit = assumptions[k]
        BY <1>1, <3>2 DEF True
      <4>2. trail[i].level <= k
        BY <1>2, <2>2, <3>2, EntryFacts DEF TrailInv
      <4> QED
        BY <1>1, <4>1, <4>2 DEF TrueBy
    <3> QED
      BY <3>1, <3>2, <1>2
  <2>4. ASSUME NEW i \in DOMAIN trail', trail'[i].reason = {}, trail'[i].level \in 1..(Level + 1),
               trail'[i].level <= Len(assumptions)
        PROVE  trail'[i].lit = assumptions[trail'[i].level]
    <3>1. trail[i].level \in 1..Owned /\ i \in DOMAIN trail
      BY <1>1, <1>2, <2>1, <2>2, <2>4
    <3> QED
      BY <1>1, <2>4, <3>1 DEF IInv, AssumptionLevels
  <2> QED
    BY <1>1, <2>1, <2>3, <2>4 DEF AssumptionLevels
<1>6. ProbeLevels'
  BY <1>1 DEF ProbeLevels
<1> QED
  BY <1>1, <1>3, <1>4, <1>5, <1>6, TrailOnly

\* A probe that decides one of its assumptions preserves the invariant.
LEMMA ProbeAssumeStep ==
    ASSUME IInv, NEW k \in DOMAIN query, ProbeAssume(k)
    PROVE  IInv'
<1>1. /\ phase = "probe" /\ Undef(query[k]) /\ Decide(query[k])
      /\ UNCHANGED <<dbVars, callVars, resultVars, resolvent, phase>>
      /\ UNCHANGED <<callVars, phase>>
      /\ formula' = formula /\ assumptions' = assumptions /\ phase' = phase /\ base' = base
  BY DEF ProbeAssume, dbVars, callVars
<1>2. /\ TrailInv /\ Level \in Nat /\ Level \in 0..Level /\ query[k] \in Lits
      /\ base \in Nat /\ base <= Level /\ ProbeLevels
  <2>1. TypeOK /\ TrailInv /\ ProbeLevels /\ Level \in Nat
    BY OwnedFacts, IInvGroups
  <2>2. base \in Nat /\ query[k] \in Lits
    BY <2>1 DEF TypeOK
  <2>3. base <= Level
    BY <1>1, <2>1 DEF ProbeLevels
  <2> QED
    BY <2>1, <2>2, <2>3
<1>3. /\ TrailInv' /\ Level' = Level + 1
      /\ Len(trail') = Len(trail) + 1 /\ SamePrefix(Level)
      /\ trail'[Len(trail) + 1] = [lit |-> query[k], level |-> Level + 1, reason |-> {}]
  BY <1>1, <1>2, DecideInv
<1>4. \A l : RootTrue(l) => RootTrue(l)'
  BY <1>2, <1>3, PrefixRoot DEF TrailInv
<1>5. Cut(Level) = Len(trail) /\ \A i \in DOMAIN trail' : i > Len(trail) => i = Len(trail) + 1
  BY <1>2, <1>3 DEF TrailInv, TrailType, Cut
<1>6. AssumptionLevels'
  <2>1. Owned' \in Nat /\ Owned' <= Level /\ Owned' <= Owned /\ Owned \in Nat /\ Owned' = base
    BY <1>1, <1>2 DEF Owned
  <2>2. AssumptionLevels /\ assumptions \in Seq(Lits) /\ assumptions' \in Seq(Lits)
    BY <1>1 DEF IInv, TypeOK
  <2>3. \A j \in 1..Owned' : j <= Len(assumptions') =>
            j <= Len(assumptions) /\ assumptions'[j] = assumptions[j]
    BY <1>1
  <2>4. \A i \in DOMAIN trail' : i > Cut(Level) => trail'[i].level \notin 1..Owned'
    BY <1>2, <1>3, <1>5, <2>1
  <2> QED
    BY <1>2, <1>3, <2>1, <2>2, <2>3, <2>4, LevelsKept
<1>7. ProbeLevels'
  <2>1. \A i \in DOMAIN trail' : i > Len(trail) => trail'[i].lit \in QueryLits
    BY <1>3, <1>5 DEF QueryLits
  <2>2. Level' >= Level
    BY <1>2, <1>3
  <2> QED
    BY <1>1, <1>2, <1>3, <2>1, <2>2, ProbeKept
<1> QED
  BY <1>1, <1>3, <1>4, <1>6, <1>7, TrailOnly

(***************************************************************************)
(* Steps outside probes that leave the trail as it is.                      *)
(***************************************************************************)
LEMMA TrailFixed ==
    ASSUME IInv, UNCHANGED <<formula, originals, dead, trail, lim, assumptions>>,
           learnts' \subseteq learnts, phase # "probe", phase' # "probe"
    PROVE  /\ TrailInv' /\ DbImplied' /\ FormulaCovered' /\ AssumptionLevels' /\ ProbeLevels'
           /\ trail' \in Seq(Entry) /\ lim' \in Seq(Nat)
<1>1. TrailInv /\ TrailInv'
  BY IInvGroups, StayInv
<1>2. DbImplied'
  BY DEF IInv, DbImplied, Db
<1>3. FormulaCovered'
  BY DEF IInv, FormulaCovered, RootTrue, TrueBy
<1>4. AssumptionLevels'
  <2>1. Owned' = Owned
    BY DEF Owned, Level
  <2> QED
    BY <2>1 DEF IInv, AssumptionLevels, TrueBy
<1>5. ProbeLevels'
  BY DEF ProbeLevels
<1> QED
  BY <1>1, <1>2, <1>3, <1>4, <1>5 DEF TrailInv, TrailType

\* A falsified clause: the models of the formula all miss some literal of
\* the trail.
LEMMA FalsifiedRefutes ==
    ASSUME TrailInv, NEW c \in Clauses, Entails(formula, c), Falsified(c),
           NEW M \in Models(formula), \A l : True(l) => Holds(M, l)
    PROVE  FALSE
<1>1. PICK q \in c : Holds(M, q)
  BY DEF Entails, Satisfies
<1>2. q \in Lits /\ M \in Assignments
  BY DEF Clauses, Models
<1>3. Holds(M, -q)
  BY DEF Falsified, False
<1> QED
  BY <1>1, <1>2, <1>3, HoldsNegation

\* A stored clause is a clause the formula entails.
LEMMA DbClauses ==
    ASSUME IInv, NEW c \in Db
    PROVE  c \in Clauses /\ Entails(formula, c)
  BY DEF IInv, TypeOK, Db, DbImplied

\* A conflict at the root leaves the formula without a model, so "unsat" is
\* right whatever the assumptions.
LEMMA RootConflictStep ==
    ASSUME IInv, NEW c \in Db, RootConflict(c)
    PROVE  IInv'
<1>1. /\ phase = "search" /\ Level = 0 /\ Falsified(c) /\ answer' = "unsat" /\ phase' = "idle"
      /\ UNCHANGED <<formula, originals, learnts, dead, trail, lim, assumptions, query, base,
                     core, forced, resolvent>>
  BY DEF RootConflict, dbVars, trailVars, callVars
<1>2. /\ TrailInv' /\ DbImplied' /\ FormulaCovered' /\ AssumptionLevels' /\ ProbeLevels'
      /\ trail' \in Seq(Entry) /\ lim' \in Seq(Nat)
  BY <1>1, TrailFixed
<1>3. Models(formula) = {}
  <2> SUFFICES ASSUME NEW M \in Models(formula) PROVE FALSE
    OBVIOUS
  <2>1. TrailInv
    BY IInvGroups
  <2>2. \A l : True(l) => Holds(M, l)
    BY <1>1, <2>1, TrueAtTop, RootHolds DEF RootTrue
  <2> QED
    BY <1>1, <2>1, <2>2, DbClauses, FalsifiedRefutes
<1>4. TypeOK'
  BY <1>1, <1>2 DEF IInv, TypeOK, Answers, Phases
<1>5. ResolventHolds'
  BY <1>1 DEF ResolventHolds
<1>6. CallShape'
  BY <1>1 DEF IInv, CallShape
<1>7. UnsatIsProof'
  BY <1>1, <1>3, NoModelRefutes DEF UnsatIsProof, QueryLits
<1>8. SatIsModel' /\ RefutedIsProof' /\ ForcedIsImplied'
  BY <1>1 DEF SatIsModel, RefutedIsProof, ForcedIsImplied
<1>9. CoreIsUnsat'
  BY <1>1 DEF IInv, CoreIsUnsat
<1>10. CoreFromQuery'
  <2>1. core = {}
    BY <1>1 DEF IInv, CallShape
  <2> QED
    BY <1>1, <2>1 DEF CoreFromQuery
<1> QED
  BY <1>2, <1>4, <1>5, <1>6, <1>7, <1>8, <1>9, <1>10 DEF IInv, TrailInv

\* A conflict above the root starts analysis on an implied, falsified clause.
LEMMA ConflictStep ==
    ASSUME IInv, NEW c \in Db, Conflict(c)
    PROVE  IInv'
<1>1. /\ phase = "search" /\ Level > 0 /\ Falsified(c)
      /\ resolvent' = Strip(c) /\ phase' = "conflict"
      /\ UNCHANGED <<formula, originals, learnts, dead, trail, lim, assumptions, query, base,
                     core, forced, answer>>
  BY DEF Conflict, dbVars, trailVars, callVars, resultVars
<1>2. /\ TrailInv' /\ DbImplied' /\ FormulaCovered' /\ AssumptionLevels' /\ ProbeLevels'
      /\ trail' \in Seq(Entry) /\ lim' \in Seq(Nat)
  BY <1>1, TrailFixed
<1>3. resolvent' \in Clauses /\ Entails(formula, resolvent')
  BY <1>1, DbClauses, StripEntails, IInvGroups
<1>4. TypeOK'
  BY <1>1, <1>2, <1>3 DEF IInv, TypeOK, Phases
<1>5. ResolventHolds'
  BY <1>1, <1>3 DEF ResolventHolds, Falsified, Strip, False, True, Level
<1>6. CallShape'
  BY <1>1 DEF IInv, CallShape
<1>7. AnswersHold'
  <2>1. answer' = "none"
    BY <1>1 DEF IInv, CallShape
  <2> QED
    BY <1>1, <2>1, AnswersReset, IInvGroups
<1> QED
  BY <1>2, <1>4, <1>5, <1>6, <1>7 DEF IInv, TrailInv, AnswersHold

\* Resolving with a reason keeps the resolvent implied and falsified.
LEMMA ExplainStep ==
    ASSUME IInv, NEW i \in DOMAIN trail, Explain(i)
    PROVE  IInv'
<1> DEFINE p == trail[i].lit
           r == trail[i].reason
           R == (resolvent \ {-p}) \cup (r \ {p})
<1>1. /\ phase = "conflict" /\ -p \in resolvent /\ r # {} /\ resolvent' = Strip(R)
      /\ UNCHANGED <<formula, originals, learnts, dead, trail, lim, assumptions, query, base,
                     core, forced, answer, phase>>
  BY DEF Explain, dbVars, trailVars, callVars, resultVars
<1>2. /\ TrailInv' /\ DbImplied' /\ FormulaCovered' /\ AssumptionLevels' /\ ProbeLevels'
      /\ trail' \in Seq(Entry) /\ lim' \in Seq(Nat)
  BY <1>1, TrailFixed
<1>3. TrailInv /\ ResolventHolds /\ resolvent \in Clauses
  BY IInvGroups DEF TypeOK
<1>4. p \in Lits /\ r \in Clauses
  BY <1>3, EntryFacts DEF TrailInv
<1>5. Entails(formula, r) /\ \A q \in r \ {p} : \E j \in 1..(i - 1) : trail[j].lit = -q
  BY <1>1, <1>3 DEF TrailInv, ReasonsHold
<1>6. Level > 0 /\ Entails(formula, resolvent) /\ \A q \in resolvent : False(q)
  BY <1>1, <1>3 DEF ResolventHolds
<1>7. R \in Clauses /\ Entails(formula, R)
  BY <1>3, <1>4, <1>5, <1>6, Resolution DEF Clauses
<1>8. \A q \in R : False(q)
  <2>1. i \in DOMAIN trail /\ trail \in Seq(Entry)
    BY <1>3 DEF TrailInv, TrailType
  <2>2. \A j \in 1..(i - 1) : j \in DOMAIN trail
    BY <2>1
  <2> QED
    BY <1>5, <1>6, <2>2 DEF False, True
<1> HIDE DEF p, r, R
<1>9. resolvent' \in Clauses /\ Entails(formula, resolvent')
  BY <1>1, <1>3, <1>7, StripEntails
<1>10. TypeOK'
  BY <1>1, <1>2, <1>9 DEF IInv, TypeOK, Phases
<1>11. ResolventHolds'
  BY <1>1, <1>6, <1>8, <1>9 DEF ResolventHolds, Strip, False, True, Level
<1>12. CallShape'
  BY <1>1 DEF IInv, CallShape
<1>13. AnswersHold'
  <2>1. answer' = "none"
    BY <1>1 DEF IInv, CallShape
  <2> QED
    BY <1>1, <2>1, AnswersReset, IInvGroups
<1> QED
  BY <1>2, <1>10, <1>11, <1>12, <1>13 DEF IInv, TrailInv, AnswersHold

\* Deleting learned clauses that are no reasons preserves the invariant.
LEMMA ReduceDbStep ==
    ASSUME IInv, NEW gone \in SUBSET learnts, ReduceDb(gone)
    PROVE  IInv'
<1>1. /\ phase = "search" /\ learnts' = learnts \ gone
      /\ UNCHANGED <<formula, originals, dead, trail, lim, assumptions, query, base,
                     core, forced, answer, resolvent, phase>>
  BY DEF ReduceDb, trailVars, callVars, resultVars
<1>2. /\ TrailInv' /\ DbImplied' /\ FormulaCovered' /\ AssumptionLevels' /\ ProbeLevels'
      /\ trail' \in Seq(Entry) /\ lim' \in Seq(Nat)
  BY <1>1, TrailFixed
<1>3. TypeOK'
  BY <1>1, <1>2 DEF IInv, TypeOK
<1>4. ResolventHolds' /\ CallShape'
  BY <1>1 DEF ResolventHolds, IInv, CallShape
<1>5. AnswersHold'
  <2>1. answer' = "none"
    BY <1>1 DEF IInv, CallShape
  <2> QED
    BY <1>1, <2>1, AnswersReset, IInvGroups
<1> QED
  BY <1>2, <1>3, <1>4, <1>5 DEF IInv, TrailInv, AnswersHold

\* A call to a solver that AddClause found unsatisfiable preserves the
\* invariant.
LEMMA DeadStep ==
    ASSUME IInv, NEW asms \in AssumptionLists, SolveDead(asms) \/ ProbeDead(asms)
    PROVE  IInv'
<1>1. /\ phase = "idle" /\ dead /\ query' = asms /\ forced' = {}
      /\ answer' \in {"unsat", "refuted"}
      /\ UNCHANGED <<formula, originals, learnts, dead, trail, lim, assumptions, base,
                     core, resolvent, phase>>
  BY DEF SolveDead, ProbeDead, dbVars, trailVars
<1>2. /\ TrailInv' /\ DbImplied' /\ FormulaCovered' /\ AssumptionLevels' /\ ProbeLevels'
      /\ trail' \in Seq(Entry) /\ lim' \in Seq(Nat)
  BY <1>1, TrailFixed
<1>3. asms \in Seq(Lits)
  BY InputAssumption
<1>4. TypeOK'
  BY <1>1, <1>2, <1>3 DEF IInv, TypeOK, Answers
<1>5. ResolventHolds' /\ CallShape'
  BY <1>1 DEF ResolventHolds, IInv, CallShape
<1>6. Models(formula) = {}
  BY <1>1 DEF IInv, CallShape
<1>7. UnsatIsProof' /\ RefutedIsProof'
  BY <1>1, <1>6, NoModelRefutes DEF UnsatIsProof, RefutedIsProof, QueryLits
<1>8. SatIsModel' /\ ForcedIsImplied' /\ CoreFromQuery'
  BY <1>1 DEF SatIsModel, ForcedIsImplied, CoreFromQuery
<1>9. CoreIsUnsat'
  BY <1>1 DEF IInv, CoreIsUnsat
<1> QED
  BY <1>2, <1>4, <1>5, <1>7, <1>8, <1>9 DEF IInv, TrailInv

\* The variables true on the trail are a model exactly of what is on it.
LEMMA ModelHolds ==
    ASSUME TrailInv, NEW l \in Lits, True(l)
    PROVE  Holds(Model, l)
<1>1. l \in Int /\ l # 0 /\ -l \in Lits /\ l # -l /\ (l > 0 => l \in Vars)
  BY LitFacts, VarsAssumption DEF Lits
<1>2. PICK i \in DOMAIN trail : trail[i].lit = l
  BY DEF True
<1>3. ~True(-l)
  <2> SUFFICES ASSUME NEW j \in DOMAIN trail, trail[j].lit = -l PROVE FALSE
    BY DEF True
  <2>1. trail[j].lit = -trail[i].lit
    BY <1>2
  <2>2. i = j
    BY <2>1, <1>1, <1>2, OneEntry DEF TrailInv
  <2> QED
    BY <1>1, <1>2, <2>2
<1> QED
  BY <1>1, <1>3 DEF Holds, Model

\* A full trail at a fixpoint is a model of every clause ever added, and of
\* the assumptions.
LEMMA FoundModelStep ==
    ASSUME IInv, FoundModel
    PROVE  IInv'
<1>1. /\ phase = "search" /\ Level >= Len(assumptions) /\ Fixpoint
      /\ \A v \in Vars : ~Undef(v)
      /\ answer' = "sat" /\ phase' = "idle"
      /\ UNCHANGED <<formula, originals, learnts, dead, trail, lim, assumptions, query, base,
                     core, forced, resolvent>>
  BY DEF FoundModel, dbVars, trailVars, callVars
<1>2. /\ TrailInv' /\ DbImplied' /\ FormulaCovered' /\ AssumptionLevels' /\ ProbeLevels'
      /\ trail' \in Seq(Entry) /\ lim' \in Seq(Nat)
  BY <1>1, TrailFixed
<1>3. TypeOK'
  BY <1>1, <1>2 DEF IInv, TypeOK, Answers, Phases
<1>4. ResolventHolds' /\ CallShape'
  BY <1>1 DEF ResolventHolds, IInv, CallShape
<1>5. TrailInv /\ \A l \in Lits : True(l) => Holds(Model, l)
  BY IInvGroups, ModelHolds
<1>6. \A l \in Lits : True(l) \/ False(l)
  <2> SUFFICES ASSUME NEW l \in Lits PROVE True(l) \/ True(-l)
    BY DEF False
  <2>1. PICK v \in Vars : l = v \/ l = -v
    BY DEF Lits
  <2>2. v \in Int /\ -(-v) = v /\ (True(v) \/ True(-v))
    BY <1>1, VarsAssumption DEF Undef, False
  <2> QED
    BY <2>1, <2>2
<1>7. Model \in Models(formula)
  <2>1. Model \in Assignments
    BY DEF Model, Assignments
  <2>2. ASSUME NEW c \in formula PROVE Satisfies(Model, c)
    <3>1. c \in Clauses /\ ~dead
      BY <1>1 DEF IInv, TypeOK, CallShape
    <3>2. CASE Tautology(c)
      BY <3>1, <3>2, <2>1, HoldsNegation DEF Tautology, Satisfies, Clauses
    <3>3. CASE \E l \in c : RootTrue(l)
      BY <3>1, <3>3, <1>5 DEF RootTrue, TrueBy, True, Satisfies, Clauses
    <3>4. ASSUME NEW d \in originals, d \subseteq c
          PROVE  Satisfies(Model, c)
      <4>1. PICK l \in d : ~False(l)
        BY <1>1 DEF Fixpoint, Db, Falsified
      <4>2. l \in c /\ l \in Lits
        BY <4>1, <3>1, <3>4 DEF Clauses
      <4> QED
        BY <4>1, <4>2, <1>5, <1>6 DEF Satisfies
    <3> QED
      BY <3>1, <3>2, <3>3, <3>4 DEF IInv, FormulaCovered
  <2> QED
    BY <2>1, <2>2 DEF Models
<1>8. \A l \in QueryLits : Holds(Model, l)
  <2> SUFFICES ASSUME NEW k \in DOMAIN query PROVE Holds(Model, query[k])
    BY DEF QueryLits
  <2>1. query = assumptions /\ query \in Seq(Lits)
    BY <1>1 DEF IInv, CallShape, TypeOK
  <2>2. k \in 1..Len(assumptions) /\ query[k] \in Lits
    BY <2>1
  <2>3. Owned = Level /\ k \in 1..Owned
    BY <1>1, <2>2, OwnedFacts, <2>1 DEF Owned
  <2>4. TrueBy(assumptions[k], k)
    BY <2>2, <2>3 DEF IInv, AssumptionLevels
  <2>5. True(query[k])
    BY <2>1, <2>4 DEF True, TrueBy
  <2> QED
    BY <2>2, <2>5, <1>5
<1>9. SatIsModel'
  BY <1>1, <1>7, <1>8 DEF SatIsModel, Model, QueryLits, True
<1>10. UnsatIsProof' /\ RefutedIsProof' /\ ForcedIsImplied' /\ CoreFromQuery'
  BY <1>1 DEF UnsatIsProof, RefutedIsProof, ForcedIsImplied, CoreFromQuery
<1>11. CoreIsUnsat'
  BY <1>1 DEF IInv, CoreIsUnsat
<1> QED
  BY <1>2, <1>3, <1>4, <1>9, <1>10, <1>11 DEF IInv, TrailInv

\* An assumption that is false already: the decisions behind it, which are
\* assumptions of this solve, refute the formula with it.
LEMMA ClashStep ==
    ASSUME IInv, NEW S \in SUBSET DOMAIN trail, NEW K, Clash(S, K)
    PROVE  IInv'
<1> DEFINE a == assumptions[Level + 1]
<1>1. /\ phase = "search" /\ Level < Len(assumptions)
      /\ \A l \in K : \E i \in DOMAIN trail :
            trail[i].lit = l /\ trail[i].reason = {} /\ trail[i].level > 0
      /\ Supported(S, K) /\ Follows(-a, S, K)
      /\ core' = K \cup {a} /\ answer' = "unsat" /\ phase' = "idle"
      /\ UNCHANGED <<formula, originals, learnts, dead, trail, lim, assumptions, query, base,
                     forced, resolvent>>
  BY DEF Clash, Pending, NextAssumption, dbVars, trailVars, callVars
<1>2. /\ TrailInv' /\ DbImplied' /\ FormulaCovered' /\ AssumptionLevels' /\ ProbeLevels'
      /\ trail' \in Seq(Entry) /\ lim' \in Seq(Nat)
  BY <1>1, TrailFixed
<1>3. /\ TrailInv /\ assumptions \in Seq(Lits) /\ Level \in Nat
      /\ query = assumptions /\ Len(assumptions) \in Nat
  BY <1>1, OwnedFacts, IInvGroups DEF IInv, CallShape, TypeOK
<1>4. a \in Lits /\ a \in QueryLits
  BY <1>1, <1>3 DEF QueryLits
<1>5. K \subseteq QueryLits
  <2> SUFFICES ASSUME NEW l \in K PROVE l \in QueryLits
    OBVIOUS
  <2>1. PICK i \in DOMAIN trail : trail[i].lit = l /\ trail[i].reason = {} /\ trail[i].level > 0
    BY <1>1
  <2>2. trail[i].level \in Nat /\ trail[i].level <= Level
    BY <1>3, EntryFacts DEF TrailInv, TrailShape
  <2>3. Owned = Level /\ trail[i].level \in 1..Owned /\ trail[i].level <= Len(assumptions)
    BY <1>1, <1>3, <2>1, <2>2 DEF Owned
  <2>4. l = assumptions[trail[i].level]
    BY <2>1, <2>3 DEF IInv, AssumptionLevels
  <2>5. trail[i].level \in DOMAIN query
    BY <1>3, <2>1, <2>2, <2>3
  <2> QED
    BY <1>3, <2>4, <2>5 DEF QueryLits
<1>6. QueryLits \subseteq Lits
  BY DEF QueryLits, IInv, TypeOK
<1>7. Refuted(formula, K \cup {a})
  <2> SUFFICES ASSUME NEW M \in Models(formula), \A k \in K \cup {a} : Holds(M, k)
               PROVE  FALSE
    BY DEF Refuted
  <2>1. Holds(M, -a)
    BY <1>1, <1>3, SupportedHolds
  <2> QED
    BY <1>4, <2>1, HoldsNegation DEF Models
<1>8. TypeOK'
  BY <1>1, <1>2, <1>4, <1>5, <1>6 DEF IInv, TypeOK, Answers, Phases
<1>9. ResolventHolds' /\ CallShape'
  BY <1>1 DEF ResolventHolds, IInv, CallShape
<1>10. CoreIsUnsat' /\ CoreFromQuery'
  BY <1>1, <1>4, <1>5, <1>7 DEF CoreIsUnsat, CoreFromQuery, QueryLits
<1>11. UnsatIsProof'
  <2>1. Refuted(formula, QueryLits)
    BY <1>4, <1>5, <1>7, RefutedMonotone
  <2> QED
    BY <1>1, <2>1 DEF UnsatIsProof, QueryLits
<1>12. SatIsModel' /\ RefutedIsProof' /\ ForcedIsImplied'
  BY <1>1 DEF SatIsModel, RefutedIsProof, ForcedIsImplied
<1> QED
  BY <1>2, <1>8, <1>9, <1>10, <1>11, <1>12 DEF IInv, TrailInv

(***************************************************************************)
(* Learning.                                                                *)
(***************************************************************************)
LEMMA LearnStep ==
    ASSUME IInv, NEW d \in SUBSET resolvent, NEW u \in d, NEW bt \in 0..(Level - 1),
           Learn(u, d, bt)
    PROVE  IInv'
<1> DEFINE r == IF d = {u} THEN {} ELSE d
<1>1. /\ phase = "conflict" /\ phase' = "search" /\ resolvent' = {}
      /\ TrueAt(-u, Level) /\ Assert(bt, u, r)
      /\ learnts' = (IF d = {u} THEN learnts ELSE learnts \cup {d})
      /\ UNCHANGED <<formula, originals, dead, assumptions, query, base, core, forced, answer>>
  BY DEF Learn, callVars, resultVars
<1>2. PICK S \in SUBSET DOMAIN trail :
          /\ Supported(S, Negated(d))
          /\ \A q \in resolvent \ d : Follows(-q, S, Negated(d))
  BY DEF Learn
<1>3. IF d = {u} THEN bt = 0 ELSE \A q \in d \ {u} : TrueBy(-q, bt)
  BY DEF Learn
<1>4. /\ TrailInv /\ resolvent \in Clauses /\ d \in Clauses /\ u \in Lits
      /\ Level \in Nat /\ bt \in Nat /\ bt < Level /\ bt \in 0..Level /\ r \in Clauses
      /\ assumptions \in Seq(Lits)
  <2>1. TrailInv /\ resolvent \in Clauses /\ Level \in Nat /\ assumptions \in Seq(Lits)
    BY OwnedFacts, IInvGroups DEF TypeOK
  <2> QED
    BY <2>1 DEF Clauses
<1>5. Entails(formula, d)
  <2> SUFFICES ASSUME NEW M \in Models(formula), \A l \in d : ~Holds(M, l) PROVE FALSE
    BY DEF Entails, Satisfies
  <2>1. \A k \in Negated(d) : Holds(M, k)
    BY <1>4, HoldsNegation DEF Negated, Clauses, Models
  <2>2. PICK q \in resolvent : Holds(M, q)
    BY <1>1 DEF IInv, ResolventHolds, Entails, Satisfies
  <2>3. Holds(M, -q)
    BY <1>2, <1>4, <2>1, <2>2, SupportedHolds
  <2> QED
    BY <1>4, <2>2, <2>3, HoldsNegation DEF Clauses, Models
<1>6. ~TrueBy(u, bt) /\ ~TrueBy(-u, bt)
  <2>1. PICK i \in DOMAIN trail : trail[i].lit = -u /\ trail[i].level = Level
    BY <1>1 DEF TrueAt
  <2>2. ASSUME NEW j \in DOMAIN trail, trail[j].lit = u \/ trail[j].lit = -u
        PROVE  trail[j].level = Level
    <3>1. -(-u) = u
      BY <1>4, LitFacts
    <3>2. j = i
      BY <1>4, <2>1, <2>2, <3>1, OneEntry DEF TrailInv
    <3> QED
      BY <2>1, <3>2
  <2>3. ~(Level <= bt)
    BY <1>4
  <2> QED
    BY <2>2, <2>3 DEF TrueBy
<1>7. r # {} => /\ u \in r /\ Entails(formula', r) /\ \A q \in r \ {u} : TrueBy(-q, bt)
  BY <1>1, <1>3, <1>5
<1>8. bt = 0 => Entails(formula', {u})
  <2>1. CASE d = {u}
    BY <1>1, <1>5, <2>1
  <2>2. CASE d # {u}
    BY <1>1, <1>3, <1>4, <1>5, <2>2, UnitEntails DEF RootTrue
  <2> QED
    BY <2>1, <2>2
<1>9. (r = {} => bt = 0) /\ formula \subseteq formula'
  BY <1>1, <1>3
<1> HIDE DEF r
<1>10. /\ TrailInv' /\ Level' = bt
       /\ Len(trail') = Cut(bt) + 1 /\ SamePrefix(bt)
       /\ trail'[Cut(bt) + 1] = [lit |-> u, level |-> bt, reason |-> r]
  BY <1>1, <1>4, <1>6, <1>7, <1>8, <1>9, AssertInv
<1>11. TypeOK'
  <2>1. learnts' \subseteq Clauses
    BY <1>1, <1>4 DEF IInv, TypeOK
  <2>2. trail' \in Seq(Entry) /\ lim' \in Seq(Nat)
    BY <1>10 DEF TrailInv, TrailType
  <2> QED
    BY <1>1, <2>1, <2>2 DEF IInv, TypeOK, Phases, Clauses
<1>12. DbImplied'
  BY <1>1, <1>5 DEF IInv, DbImplied, Db
<1>13. FormulaCovered'
  <2>1. \A k : RootTrue(k) => RootTrue(k)'
    BY <1>4, <1>10, PrefixRoot DEF TrailInv
  <2>2. \A c \in formula : \/ dead'
                           \/ Tautology(c)
                           \/ \E l \in c : RootTrue(l)'
                           \/ \E e \in originals' : e \subseteq c
    BY <1>1, <2>1, CoverKept DEF IInv
  <2> QED
    BY <1>1, <2>2 DEF FormulaCovered
<1>14. AssumptionLevels'
  <2>1. Owned' = bt /\ Owned \in Nat /\ Owned' \in Nat /\ Owned' <= bt /\ Owned' <= Owned
    BY <1>1, <1>4, <1>10 DEF Owned
  <2>2. AssumptionLevels /\ assumptions' \in Seq(Lits)
    BY <1>1, <1>4 DEF IInv
  <2>3. \A k \in 1..Owned' : k <= Len(assumptions') =>
            k <= Len(assumptions) /\ assumptions'[k] = assumptions[k]
    BY <1>1
  <2>4. \A i \in DOMAIN trail' : i > Cut(bt) =>
            trail'[i].reason # {} \/ trail'[i].level \notin 1..Owned'
    <3>1. Cut(bt) \in Nat /\ DOMAIN trail' = 1..(Cut(bt) + 1)
      BY <1>4, <1>10, KeptFacts DEF TrailInv, TrailType
    <3>2. \A i \in DOMAIN trail' : i > Cut(bt) => i = Cut(bt) + 1
      BY <3>1
    <3> QED
      BY <1>9, <1>10, <2>1, <3>2
  <2> QED
    BY <1>4, <1>10, <2>1, <2>2, <2>3, <2>4, LevelsKept
<1>15. ResolventHolds' /\ ProbeLevels' /\ CallShape'
  BY <1>1 DEF ResolventHolds, ProbeLevels, IInv, CallShape
<1>16. AnswersHold'
  <2>1. answer' = "none"
    BY <1>1 DEF IInv, CallShape
  <2> QED
    BY <1>1, <2>1, AnswersReset, IInvGroups
<1> QED
  BY <1>10, <1>11, <1>12, <1>13, <1>14, <1>15, <1>16 DEF IInv, TrailInv, AnswersHold

(***************************************************************************)
(* Calls that begin or end by cancelling to a level.                        *)
(***************************************************************************)
LEMMA CancelStep ==
    ASSUME IInv, NEW n \in 0..Level, CancelUntil(n), UNCHANGED dbVars,
           Owned' = n, n <= Owned, assumptions' \in Seq(Lits),
           \A k \in 1..n : k <= Len(assumptions') =>
               k <= Len(assumptions) /\ assumptions'[k] = assumptions[k]
    PROVE  /\ TrailInv' /\ Level' = n /\ DbImplied' /\ FormulaCovered' /\ AssumptionLevels'
           /\ trail' \in Seq(Entry) /\ lim' \in Seq(Nat)
<1>1. formula' = formula /\ originals' = originals /\ learnts' = learnts /\ dead' = dead
  BY DEF dbVars
<1>2. TrailInv /\ n \in Nat /\ Owned \in Nat
  BY OwnedFacts, IInvGroups
<1>3. TrailInv' /\ Level' = n /\ Len(trail') = Cut(n) /\ SamePrefix(n)
  BY <1>1, <1>2, CancelInv
<1>4. DbImplied'
  BY <1>1 DEF IInv, DbImplied, Db
<1>5. FormulaCovered'
  <2>1. \A k : RootTrue(k) => RootTrue(k)'
    BY <1>2, <1>3, PrefixRoot DEF TrailInv
  <2>2. \A c \in formula : \/ dead'
                           \/ Tautology(c)
                           \/ \E l \in c : RootTrue(l)'
                           \/ \E e \in originals' : e \subseteq c
    BY <1>1, <2>1, CoverKept DEF IInv
  <2> QED
    BY <1>1, <2>2 DEF FormulaCovered
<1>6. AssumptionLevels'
  <2>1. Owned' \in Nat /\ Owned' <= n /\ Owned' <= Owned
    BY <1>2
  <2>2. AssumptionLevels /\ assumptions \in Seq(Lits)
    BY DEF IInv, TypeOK
  <2>3. \A i \in DOMAIN trail' : ~(i > Cut(n))
    BY <1>2, <1>3, KeptFacts DEF TrailInv, TrailType
  <2> QED
    BY <1>2, <1>3, <2>1, <2>2, <2>3, LevelsKept
<1> QED
  BY <1>3, <1>4, <1>5, <1>6 DEF TrailInv, TrailType

\* Giving up at the conflict limit preserves the invariant.
LEMMA StopStep ==
    ASSUME IInv, Stop
    PROVE  IInv'
<1>1. /\ phase = "search" /\ CancelUntil(0) /\ answer' = "stopped" /\ phase' = "idle"
      /\ UNCHANGED dbVars
      /\ UNCHANGED <<formula, originals, learnts, dead, assumptions, query, base, core, forced,
                     resolvent>>
  BY DEF Stop, callVars, dbVars
<1>2. 0 \in 0..Level /\ 0 <= Owned /\ assumptions' \in Seq(Lits)
  BY <1>1, OwnedFacts DEF IInv, TypeOK
<1>3. Owned' = 0
  <2>1. TrailInv
    BY IInvGroups
  <2>2. Level' = 0
    BY <1>1, <1>2, <2>1, CancelInv
  <2> QED
    BY <1>1, <2>2 DEF Owned
<1>4. /\ TrailInv' /\ DbImplied' /\ FormulaCovered' /\ AssumptionLevels'
      /\ trail' \in Seq(Entry) /\ lim' \in Seq(Nat)
  BY <1>1, <1>2, <1>3, CancelStep
<1>5. TypeOK'
  BY <1>1, <1>4 DEF IInv, TypeOK, Answers, Phases
<1>6. ResolventHolds' /\ ProbeLevels' /\ CallShape'
  BY <1>1 DEF ResolventHolds, ProbeLevels, IInv, CallShape
<1>7. UnsatIsProof' /\ SatIsModel' /\ RefutedIsProof' /\ ForcedIsImplied' /\ CoreFromQuery'
  BY <1>1 DEF UnsatIsProof, SatIsModel, RefutedIsProof, ForcedIsImplied, CoreFromQuery
<1>8. CoreIsUnsat'
  BY <1>1 DEF IInv, CoreIsUnsat
<1> QED
  BY <1>4, <1>5, <1>6, <1>7, <1>8 DEF IInv, TrailInv

\* Starting a solve on the kept prefix of the trail preserves the invariant.
LEMMA SolveStep ==
    ASSUME IInv, NEW asms \in AssumptionLists, Solve(asms)
    PROVE  IInv'
<1>1. /\ phase = "idle" /\ ~dead /\ assumptions' = asms /\ query' = asms /\ core' = {}
      /\ answer' = "none" /\ forced' = {} /\ phase' = "search"
      /\ UNCHANGED dbVars
      /\ UNCHANGED <<formula, originals, learnts, dead, base, resolvent>>
  BY DEF Solve, dbVars
<1>2. PICK n \in 0..Level : (Shared(asms, n) \/ asms = assumptions) /\ CancelUntil(n)
  BY DEF Solve
<1>3. asms \in Seq(Lits) /\ n \in Nat /\ n <= Owned
  <2>1. asms \in Seq(Lits)
    BY InputAssumption
  <2>2. Owned = Level
    BY <1>1 DEF Owned
  <2>3. n \in Nat /\ n <= Level
    BY OwnedFacts
  <2> QED
    BY <2>1, <2>2, <2>3
<1>4. \A k \in 1..n : k <= Len(assumptions') =>
          k <= Len(assumptions) /\ assumptions'[k] = assumptions[k]
  <2>1. CASE Shared(asms, n)
    <3>1. Len(assumptions) \in Nat
      BY DEF IInv, TypeOK
    <3>2. n <= Len(assumptions) /\ \A k \in 1..n : asms[k] = assumptions[k]
      BY <2>1 DEF Shared
    <3>3. \A k \in 1..n : k <= Len(assumptions)
      BY <3>1, <3>2, <1>3
    <3> QED
      BY <1>1, <3>2, <3>3
  <2>2. CASE asms = assumptions
    BY <1>1, <2>2
  <2> QED
    BY <1>2, <2>1, <2>2
<1>5. Owned' = n
  <2>1. Level' = n
    BY <1>1, <1>2, CancelInv, IInvGroups
  <2> QED
    BY <1>1, <2>1 DEF Owned
<1>6. /\ TrailInv' /\ DbImplied' /\ FormulaCovered' /\ AssumptionLevels'
      /\ trail' \in Seq(Entry) /\ lim' \in Seq(Nat)
  BY <1>1, <1>2, <1>3, <1>4, <1>5, CancelStep
<1>7. TypeOK'
  BY <1>1, <1>3, <1>6 DEF IInv, TypeOK, Answers, Phases
<1>8. ResolventHolds' /\ ProbeLevels' /\ CallShape'
  BY <1>1 DEF ResolventHolds, ProbeLevels, IInv, CallShape
<1>9. AnswersHold'
  BY <1>1, AnswersReset, IInvGroups
<1> QED
  BY <1>6, <1>7, <1>8, <1>9 DEF IInv, TrailInv, AnswersHold

\* A position in a range is a position in a larger one.
LEMMA RangeWiden ==
    ASSUME NEW m \in Nat, NEW n \in Nat, m <= n, NEW k \in 1..m
    PROVE  k \in 1..n
  OBVIOUS

\* Starting a probe on the shared prefix preserves the invariant.
LEMMA ProbeStartStep ==
    ASSUME IInv, NEW asms \in AssumptionLists, Probe(asms)
    PROVE  IInv'
<1>1. /\ phase = "idle" /\ ~dead /\ query' = asms
      /\ answer' = "none" /\ forced' = {} /\ phase' = "probe"
      /\ UNCHANGED dbVars
      /\ UNCHANGED <<formula, originals, learnts, dead, assumptions, core, resolvent>>
  BY DEF Probe, dbVars
<1>2. PICK n \in 0..Level : Shared(asms, n) /\ CancelUntil(n) /\ base' = n
  BY DEF Probe
<1>3. /\ TrailInv /\ asms \in Seq(Lits) /\ n \in Nat /\ n <= Owned
      /\ assumptions \in Seq(Lits) /\ assumptions' \in Seq(Lits)
  <2>1. asms \in Seq(Lits)
    BY InputAssumption
  <2>2. TrailInv /\ assumptions \in Seq(Lits)
    BY IInvGroups DEF TypeOK
  <2>3. Owned = Level
    BY <1>1 DEF Owned
  <2>4. n \in Nat /\ n <= Level
    BY OwnedFacts
  <2>5. assumptions' \in Seq(Lits)
    BY <1>1, <2>2
  <2> QED
    BY <2>1, <2>2, <2>3, <2>4, <2>5
<1>4. /\ TrailInv' /\ DbImplied' /\ FormulaCovered' /\ AssumptionLevels' /\ Level' = n
      /\ trail' \in Seq(Entry) /\ lim' \in Seq(Nat)
  <2>1. Owned' = n
    BY <1>1, <1>2 DEF Owned
  <2>2. \A k \in 1..n : k <= Len(assumptions') =>
            k <= Len(assumptions) /\ assumptions'[k] = assumptions[k]
    BY <1>1
  <2> QED
    BY <1>1, <1>2, <1>3, <2>1, <2>2, CancelStep
<1>5. TypeOK'
  BY <1>1, <1>2, <1>3, <1>4 DEF IInv, TypeOK, Answers, Phases
<1>6. ResolventHolds' /\ CallShape'
  BY <1>1 DEF ResolventHolds, IInv, CallShape
<1>7. ProbeLevels'
  <2>1. Shared(query, base)'
    BY <1>1, <1>2 DEF Shared
  <2>2. ASSUME NEW i \in DOMAIN trail', trail'[i].reason = {}, trail'[i].level > 0
        PROVE  trail'[i].lit \in {asms[k] : k \in DOMAIN asms}
    <3>1. trail'[i].level \in Nat /\ trail'[i].level <= n
      <4>1. TrailType' /\ TrailShape'
        BY <1>4 DEF TrailInv
      <4>2. trail'[i] \in Entry
        BY <2>2, <1>4
      <4>3. trail'[i].level \in Nat
        BY <4>2 DEF Entry
      <4> QED
        BY <1>4, <2>2, <4>1, <4>3 DEF TrailShape
    <3>2. n <= Len(asms) /\ n <= Len(assumptions) /\ \A k \in 1..n : asms[k] = assumptions[k]
      BY <1>2 DEF Shared
    <3>3. Len(asms) \in Nat /\ Len(assumptions) \in Nat /\ DOMAIN asms = 1..Len(asms)
      <4>1. asms \in Seq(Lits) /\ assumptions \in Seq(Lits)
        BY <1>3
      <4> QED
        BY <4>1, LenProperties
    <3>4. trail'[i].level \in 1..n /\ trail'[i].level <= Len(assumptions)
      BY <1>3, <2>2, <3>1, <3>2, <3>3
    <3>5. trail'[i].lit = assumptions[trail'[i].level]
      <4>1. Owned' = n
        BY <1>1, <1>2 DEF Owned
      <4> QED
        BY <1>1, <1>4, <2>2, <3>4, <4>1 DEF AssumptionLevels
    <3>6. trail'[i].level \in DOMAIN asms
      BY <1>3, <3>2, <3>3, <3>4, RangeWiden
    <3> QED
      BY <3>2, <3>4, <3>5, <3>6
  <2>3. base' <= Level'
    BY <1>2, <1>3, <1>4
  <2>4. QueryLits' = {asms[k] : k \in DOMAIN asms}
    BY <1>1 DEF QueryLits
  <2> QED
    BY <2>1, <2>2, <2>3, <2>4 DEF ProbeLevels
<1>8. AnswersHold'
  BY <1>1, AnswersReset, IInvGroups
<1> QED
  BY <1>4, <1>5, <1>6, <1>7, <1>8 DEF IInv, TrailInv, AnswersHold

\* While a probe runs, a model in which its assumptions hold agrees with the
\* whole trail.
LEMMA ProbeForces ==
    ASSUME IInv, phase = "probe", NEW M \in Models(formula), \A k \in QueryLits : Holds(M, k)
    PROVE  \A l : True(l) => Holds(M, l)
<1>1. TrailInv
  BY IInvGroups
<1>2. \A i \in DOMAIN trail :
          trail[i].reason = {} /\ trail[i].level > 0 => Holds(M, trail[i].lit)
  BY DEF IInv, ProbeLevels
<1> QED
  BY <1>1, <1>2, DecisionsForce

\* A probe that fails has refuted the formula with its assumptions.
LEMMA ProbeRefutedStep ==
    ASSUME IInv, NEW n \in 0..Level, ProbeRefuted(n)
    PROVE  IInv'
<1>1. /\ phase = "probe" /\ n <= base /\ CancelUntil(n)
      /\ answer' = "refuted" /\ phase' = "idle" /\ base' = 0
      /\ (\E c \in Db : Falsified(c)) \/ (\E k \in DOMAIN query : False(query[k]))
      /\ UNCHANGED dbVars
      /\ UNCHANGED <<formula, originals, learnts, dead, assumptions, query, core, forced, resolvent>>
  BY DEF ProbeRefuted, dbVars
<1>2. /\ n <= Owned /\ TrailInv
      /\ assumptions \in Seq(Lits) /\ assumptions' \in Seq(Lits) /\ query \in Seq(Lits)
  BY <1>1, IInvGroups DEF Owned, TypeOK
<1>3. Owned' = n
  <2>1. Level' = n
    BY <1>1, <1>2, CancelInv
  <2> QED
    BY <1>1, <2>1 DEF Owned
<1>4. /\ TrailInv' /\ DbImplied' /\ FormulaCovered' /\ AssumptionLevels'
      /\ trail' \in Seq(Entry) /\ lim' \in Seq(Nat)
  BY <1>1, <1>2, <1>3, CancelStep
<1>5. TypeOK'
  BY <1>1, <1>4 DEF IInv, TypeOK, Answers, Phases
<1>6. ResolventHolds' /\ ProbeLevels' /\ CallShape'
  BY <1>1 DEF ResolventHolds, ProbeLevels, IInv, CallShape
<1>7. Refuted(formula, QueryLits)
  <2> SUFFICES ASSUME NEW M \in Models(formula), \A k \in QueryLits : Holds(M, k)
               PROVE  FALSE
    BY DEF Refuted
  <2>1. \A l : True(l) => Holds(M, l)
    BY <1>1, ProbeForces
  <2>2. ASSUME NEW c \in Db, Falsified(c)
        PROVE  FALSE
    BY <1>2, <2>1, <2>2, DbClauses, FalsifiedRefutes
  <2>3. ASSUME NEW k \in DOMAIN query, False(query[k])
        PROVE  FALSE
    <3>1. query[k] \in Lits /\ query[k] \in QueryLits
      BY <1>2 DEF QueryLits
    <3>2. Holds(M, -query[k]) /\ Holds(M, query[k]) /\ M \in Assignments
      BY <2>1, <2>3, <3>1 DEF False, Models
    <3> QED
      BY <3>1, <3>2, HoldsNegation
  <2> QED
    BY <1>1, <2>2, <2>3
<1>8. RefutedIsProof'
  BY <1>1, <1>7 DEF RefutedIsProof, QueryLits
<1>9. UnsatIsProof' /\ SatIsModel' /\ ForcedIsImplied' /\ CoreFromQuery'
  BY <1>1 DEF UnsatIsProof, SatIsModel, ForcedIsImplied, CoreFromQuery
<1>10. CoreIsUnsat'
  BY <1>1 DEF IInv, CoreIsUnsat
<1> QED
  BY <1>4, <1>5, <1>6, <1>8, <1>9, <1>10 DEF IInv, TrailInv

\* A probe that succeeds reads only literals its assumptions imply.
LEMMA ProbeReadStep ==
    ASSUME IInv, ProbeRead
    PROVE  IInv'
<1>1. /\ phase = "probe" /\ CancelUntil(base)
      /\ forced' = {trail[i].lit : i \in DOMAIN trail}
      /\ answer' = "forced" /\ phase' = "idle" /\ base' = 0
      /\ UNCHANGED dbVars
      /\ UNCHANGED <<formula, originals, learnts, dead, assumptions, query, core, resolvent>>
  BY DEF ProbeRead, dbVars
<1>2. /\ TrailInv /\ Owned = base /\ base \in 0..Level /\ base <= Owned
      /\ assumptions \in Seq(Lits) /\ assumptions' \in Seq(Lits)
  <2>1. Owned = base
    BY <1>1 DEF Owned
  <2>2. TrailInv /\ assumptions \in Seq(Lits)
    BY IInvGroups DEF TypeOK
  <2>3. base \in 0..Level /\ base <= base
    BY <2>1, OwnedFacts
  <2> QED
    BY <1>1, <2>1, <2>2, <2>3
<1>3. Owned' = base
  <2>1. Level' = base
    BY <1>1, <1>2, CancelInv
  <2> QED
    BY <1>1, <2>1 DEF Owned
<1>4. /\ TrailInv' /\ DbImplied' /\ FormulaCovered' /\ AssumptionLevels'
      /\ trail' \in Seq(Entry) /\ lim' \in Seq(Nat)
  <2>1. \A k \in 1..base : k <= Len(assumptions') =>
            k <= Len(assumptions) /\ assumptions'[k] = assumptions[k]
    BY <1>1
  <2> QED
    BY <1>1, <1>2, <1>3, <2>1, CancelStep
<1>5. forced' \subseteq Lits
  BY <1>1, <1>2, EntryFacts DEF TrailInv
<1>6. TypeOK'
  BY <1>1, <1>4, <1>5 DEF IInv, TypeOK, Answers, Phases
<1>7. ResolventHolds' /\ ProbeLevels' /\ CallShape'
  BY <1>1 DEF ResolventHolds, ProbeLevels, IInv, CallShape
<1>8. \A l \in forced' : Refuted(formula, QueryLits \cup {-l})
  <2> SUFFICES ASSUME NEW l \in forced', NEW M \in Models(formula),
                      \A k \in QueryLits \cup {-l} : Holds(M, k)
               PROVE  FALSE
    BY DEF Refuted
  <2>1. Holds(M, l)
    BY <1>1, ProbeForces DEF True
  <2> QED
    BY <1>5, <2>1, HoldsNegation DEF Models
<1>9. ForcedIsImplied'
  BY <1>1, <1>8 DEF ForcedIsImplied, QueryLits
<1>10. UnsatIsProof' /\ SatIsModel' /\ RefutedIsProof' /\ CoreFromQuery'
  BY <1>1 DEF UnsatIsProof, SatIsModel, RefutedIsProof, CoreFromQuery
<1>11. CoreIsUnsat'
  BY <1>1 DEF IInv, CoreIsUnsat
<1> QED
  BY <1>4, <1>6, <1>7, <1>9, <1>10, <1>11 DEF IInv, TrailInv

(***************************************************************************)
(* Adding a clause.                                                         *)
(***************************************************************************)
Adding(c) ==
    /\ phase = "idle" /\ formula' = formula \cup {c}
    /\ answer' = "none" /\ query' = <<>> /\ forced' = {}
    /\ UNCHANGED <<learnts, assumptions, base, resolvent, core, phase>>

\* What is left to show of each case of AddClause.
LEMMA AddDone ==
    ASSUME IInv, NEW c \in Clauses, Adding(c),
           TrailInv', AssumptionLevels',
           NEW s \in Clauses, Entails(formula', s),
           originals' = originals \/ originals' = originals \cup {s},
           \A l : RootTrue(l) => RootTrue(l)',
           dead' \in BOOLEAN, dead => dead', dead' => Models(formula') = {},
           \/ dead' \/ Tautology(c)
           \/ \E l \in c : RootTrue(l)'
           \/ \E d \in originals' : d \subseteq c
    PROVE  IInv'
<1>1. \A d : Entails(formula, d) => Entails(formula', d)
  BY EntailsMonotone DEF Adding
<1>2. TypeOK'
  <2>1. formula' \subseteq Clauses /\ originals' \subseteq Clauses
    BY DEF Adding, IInv, TypeOK
  <2>2. trail' \in Seq(Entry) /\ lim' \in Seq(Nat)
    BY DEF TrailInv, TrailType
  <2>3. query' \in Seq(Lits)
    BY DEF Adding
  <2>4. /\ learnts' \subseteq Clauses /\ resolvent' \in Clauses /\ core' \subseteq Lits
        /\ forced' \subseteq Lits /\ answer' \in Answers /\ phase' \in Phases
    BY DEF Adding, IInv, TypeOK, Answers
  <2>5. assumptions' \in Seq(Lits) /\ base' \in Nat
    BY DEF Adding, IInv, TypeOK
  <2> QED
    BY <2>1, <2>2, <2>3, <2>4, <2>5 DEF TypeOK
<1>3. DbImplied'
  BY <1>1 DEF Adding, IInv, DbImplied, Db
<1>4. FormulaCovered'
  <2>1. \A e \in formula : \/ dead'
                           \/ Tautology(e)
                           \/ \E l \in e : RootTrue(l)'
                           \/ \E d \in originals' : d \subseteq e
    BY CoverKept DEF IInv
  <2> QED
    BY <2>1 DEF Adding, FormulaCovered
<1>5. ResolventHolds' /\ ProbeLevels' /\ CallShape'
  BY DEF Adding, ResolventHolds, ProbeLevels, CallShape
<1>6. AnswersHold'
  BY AnswersReset, IInvGroups DEF Adding
<1> QED
  BY <1>2, <1>3, <1>4, <1>5, <1>6 DEF IInv, TrailInv, AnswersHold

\* Adding a clause opens no level and adds no decision.
LEMMA AddLevels ==
    ASSUME IInv, phase = "idle", phase' = "idle", TrailInv', assumptions' = assumptions,
           NEW n \in 0..Level, SamePrefix(n), Level' = n,
           \A i \in DOMAIN trail' : i > Cut(n) =>
               \/ trail'[i].reason # {}
               \/ trail'[i].level = 0
    PROVE  AssumptionLevels'
<1>1. Owned' = n /\ Owned = Level
  BY DEF Owned
<1>2. Level \in Nat /\ n \in Nat /\ n <= Level
  BY OwnedFacts
<1>3. TrailInv /\ AssumptionLevels /\ assumptions \in Seq(Lits)
  BY IInvGroups DEF TypeOK
<1>4. Owned' \in Nat /\ Owned' <= n /\ Owned' <= Owned /\ Owned \in Nat
  BY <1>1, <1>2
<1>5. \A k \in 1..Owned' : k <= Len(assumptions') =>
          k <= Len(assumptions) /\ assumptions'[k] = assumptions[k]
  OBVIOUS
<1>6. \A i \in DOMAIN trail' : i > Cut(n) =>
          \/ trail'[i].reason # {}
          \/ trail'[i].level \notin 1..Owned'
  BY <1>4
<1> QED
  BY <1>3, <1>4, <1>5, <1>6, LevelsKept

\* A tautology, a clause true at the root, a clause for a dead solver.
LEMMA AddIgnoredStep ==
    ASSUME IInv, NEW c \in Clauses, Adding(c), AddIgnored(c)
    PROVE  IInv'
<1>1. /\ formula \subseteq formula' /\ trail' = trail /\ lim' = lim
      /\ originals' = originals /\ dead' = dead
      /\ assumptions' = assumptions /\ phase' = phase /\ phase = "idle"
  BY DEF Adding, AddIgnored, trailVars
<1>2. TrailInv'
  BY <1>1, IInvGroups, StayInv
<1>3. AssumptionLevels'
  <2>1. Owned' = Owned
    BY <1>1 DEF Owned, Level
  <2> QED
    BY <1>1, <2>1 DEF IInv, AssumptionLevels, TrueBy
<1>4. \A l : RootTrue(l) => RootTrue(l)'
  BY <1>1 DEF RootTrue, TrueBy
<1>5. dead' => Models(formula') = {}
  BY <1>1 DEF IInv, CallShape, Models
<1>6. Entails(formula', c)
  BY EntailsMember DEF Adding
<1>7. dead' \in BOOLEAN
  BY <1>1 DEF IInv, TypeOK
<1>8. dead' \/ Tautology(c) \/ \E l \in c : RootTrue(l)'
  BY <1>1, <1>4 DEF AddIgnored
<1> QED
  BY <1>1, <1>2, <1>3, <1>4, <1>5, <1>6, <1>7, <1>8, AddDone

\* A clause that is false at the root leaves the formula without a model.
LEMMA AddEmptyStep ==
    ASSUME IInv, NEW c \in Clauses, Adding(c), AddEmpty(c)
    PROVE  IInv'
<1>1. /\ formula \subseteq formula' /\ CancelUntil(0) /\ Strip(c) = {}
      /\ originals' = originals /\ dead' = TRUE
      /\ assumptions' = assumptions /\ phase' = "idle" /\ phase = "idle"
  BY DEF Adding, AddEmpty
<1>2. TrailInv /\ 0 \in 0..Level
  BY OwnedFacts, IInvGroups
<1>3. TrailInv' /\ Level' = 0 /\ Len(trail') = Cut(0) /\ SamePrefix(0)
  BY <1>1, <1>2, CancelInv
<1>4. AssumptionLevels'
  <2>1. \A i \in DOMAIN trail' : ~(i > Cut(0))
    BY <1>2, <1>3, KeptFacts DEF TrailInv, TrailType
  <2> QED
    BY <1>1, <1>2, <1>3, <2>1, AddLevels
<1>5. \A l : RootTrue(l) => RootTrue(l)'
  BY <1>2, <1>3, PrefixRoot DEF TrailInv
<1>6. Entails(formula', {}) /\ {} \in Clauses
  <2>1. Entails(formula', c)
    BY EntailsMember DEF Adding
  <2> QED
    BY <1>1, <1>2, <2>1, StripEntails
<1>7. Models(formula') = {}
  BY <1>6, EmptyRefutes
<1> QED
  BY <1>1, <1>3, <1>4, <1>5, <1>6, <1>7, AddDone

\* A clause with one literal left becomes a root fact.
LEMMA AddUnitStep ==
    ASSUME IInv, NEW c \in Clauses, Adding(c), NEW u \in Lits, AddUnit(c, u)
    PROVE  IInv'
<1>1. /\ formula \subseteq formula' /\ Assert(0, u, {}) /\ Strip(c) = {u} /\ ~RootTrue(u)
      /\ originals' = originals /\ dead' = dead /\ ~dead
      /\ assumptions' = assumptions /\ phase' = "idle" /\ phase = "idle"
  BY DEF Adding, AddUnit
<1>2. TrailInv /\ 0 \in 0..Level
  BY OwnedFacts, IInvGroups
<1>3. Entails(formula', {u}) /\ {u} \in Clauses /\ {} \in Clauses
  <2>1. Entails(formula', c)
    BY EntailsMember DEF Adding
  <2> QED
    BY <1>1, <1>2, <2>1, StripEntails DEF Clauses
<1>4. ~TrueBy(u, 0) /\ ~TrueBy(-u, 0) /\ u \in c
  BY <1>1 DEF Strip, RootFalse, RootTrue
<1>5. /\ TrailInv' /\ Level' = 0
      /\ Len(trail') = Cut(0) + 1 /\ SamePrefix(0)
      /\ trail'[Cut(0) + 1] = [lit |-> u, level |-> 0, reason |-> {}]
  BY <1>1, <1>2, <1>3, <1>4, AssertInv
<1>6. Cut(0) \in Nat /\ DOMAIN trail' = 1..(Cut(0) + 1)
  BY <1>2, <1>5, KeptFacts DEF TrailInv, TrailType
<1>7. AssumptionLevels'
  <2>1. \A i \in DOMAIN trail' : i > Cut(0) => i = Cut(0) + 1
    BY <1>6
  <2>2. \A i \in DOMAIN trail' : i > Cut(0) => trail'[i].level = 0
    BY <1>5, <2>1
  <2> QED
    BY <1>1, <1>2, <1>5, <2>2, AddLevels
<1>8. \A l : RootTrue(l) => RootTrue(l)'
  BY <1>2, <1>5, PrefixRoot DEF TrailInv
<1>9. RootTrue(u)'
  <2>1. Cut(0) + 1 \in DOMAIN trail'
    BY <1>6
  <2>2. trail'[Cut(0) + 1].lit = u /\ trail'[Cut(0) + 1].level = 0
    BY <1>5
  <2> QED
    BY <2>1, <2>2 DEF RootTrue, TrueBy
<1>10. dead' \in BOOLEAN
  BY <1>1 DEF IInv, TypeOK
<1> QED
  BY <1>1, <1>3, <1>4, <1>5, <1>7, <1>8, <1>9, <1>10, AddDone

\* A stored clause, with the trail cut back to a level where it is not false.
LEMMA AddStoredStep ==
    ASSUME IInv, NEW c \in Clauses, Adding(c), NEW n \in 0..Level, AddStored(c, n)
    PROVE  IInv'
<1> DEFINE s == Strip(c)
<1>1. /\ formula \subseteq formula' /\ originals' = originals \cup {s} /\ dead' = dead /\ ~dead
      /\ assumptions' = assumptions /\ phase' = "idle" /\ phase = "idle"
  BY DEF Adding, AddStored
<1>2. TrailInv /\ Level \in Nat /\ n \in Nat
  BY OwnedFacts, IInvGroups
<1>3. Entails(formula', s) /\ s \in Clauses /\ s \subseteq c
  <2>1. Entails(formula', c)
    BY EntailsMember DEF Adding
  <2> QED
    BY <1>1, <1>2, <2>1, StripEntails DEF Strip
<1>4. ASSUME TrailInv', Level' = n, SamePrefix(n),
             \A i \in DOMAIN trail' : i > Cut(n) => trail'[i].reason # {}
      PROVE  IInv'
  <2>1. AssumptionLevels'
    BY <1>1, <1>4, AddLevels
  <2>2. \A l : RootTrue(l) => RootTrue(l)'
    BY <1>2, <1>4, PrefixRoot DEF TrailInv
  <2> HIDE DEF s
  <2>3. s \in originals'
    BY <1>1
  <2>4. dead' \in BOOLEAN
    BY <1>1 DEF IInv, TypeOK
  <2> QED
    BY <1>1, <1>3, <1>4, <2>1, <2>2, <2>3, <2>4, AddDone
<1>5. CASE CancelUntil(n)
  <2>1. TrailInv' /\ Level' = n /\ Len(trail') = Cut(n) /\ SamePrefix(n)
    BY <1>1, <1>2, <1>5, CancelInv
  <2>2. \A i \in DOMAIN trail' : ~(i > Cut(n))
    BY <1>2, <2>1, KeptFacts DEF TrailInv, TrailType
  <2> QED
    BY <1>4, <2>1, <2>2
<1>6. ASSUME NEW u \in s, ~TrueBy(u, n), ~TrueBy(-u, n),
             \A q \in s \ {u} : TrueBy(-q, n), Assert(n, u, s)
      PROVE  IInv'
  <2> HIDE DEF s
  <2>1. u \in Lits /\ s # {}
    BY <1>3, <1>6 DEF Clauses
  <2>2. n = 0 => Entails(formula', {u})
    BY <1>1, <1>2, <1>3, <1>6, UnitEntails DEF RootTrue
  <2>3. /\ TrailInv' /\ Level' = n
        /\ Len(trail') = Cut(n) + 1 /\ SamePrefix(n)
        /\ trail'[Cut(n) + 1] = [lit |-> u, level |-> n, reason |-> s]
    BY <1>1, <1>2, <1>3, <1>6, <2>1, <2>2, AssertInv
  <2>4. Cut(n) \in Nat /\ DOMAIN trail' = 1..(Cut(n) + 1)
    BY <1>2, <2>3, KeptFacts DEF TrailInv, TrailType
  <2>5. \A i \in DOMAIN trail' : i > Cut(n) => i = Cut(n) + 1
    BY <2>4
  <2>6. \A i \in DOMAIN trail' : i > Cut(n) => trail'[i].reason # {}
    BY <2>1, <2>3, <2>5
  <2> QED
    BY <1>4, <2>3, <2>6
<1> QED
  BY <1>5, <1>6 DEF AddStored

\* add_clause preserves the invariant.
LEMMA AddClauseStep ==
    ASSUME IInv, NEW c \in InputClauses, AddClause(c)
    PROVE  IInv'
<1>1. c \in Clauses /\ Adding(c)
  BY InputAssumption DEF AddClause, Adding
<1> QED
  BY <1>1, AddIgnoredStep, AddEmptyStep, AddUnitStep, AddStoredStep DEF AddClause

\* The invariant reads only the variables of the specification.
LEMMA StutterStep ==
    ASSUME IInv, UNCHANGED vars
    PROVE  IInv'
<1>1. UNCHANGED <<formula, originals, learnts, dead, trail, lim, assumptions, query, base,
                  core, forced, answer, resolvent, phase>>
  BY DEF vars, dbVars, trailVars, callVars, resultVars
<1>2. Owned' = Owned /\ Level' = Level
  BY <1>1 DEF Owned, Level
<1>3. TypeOK' /\ DbImplied' /\ FormulaCovered' /\ CallShape'
  BY <1>1 DEF IInv, TypeOK, DbImplied, Db, FormulaCovered, RootTrue, TrueBy, CallShape
<1>4. TrailInv'
  BY <1>1, IInvGroups, StayInv
<1>5. ResolventHolds'
  BY <1>1, <1>2 DEF IInv, ResolventHolds, False, True
<1>6. AssumptionLevels'
  BY <1>1, <1>2 DEF IInv, AssumptionLevels, TrueBy
<1>7. ProbeLevels'
  BY <1>1, <1>2 DEF IInv, ProbeLevels, Shared, QueryLits
<1>8. UnsatIsProof' /\ RefutedIsProof' /\ ForcedIsImplied' /\ CoreIsUnsat' /\ CoreFromQuery'
  BY <1>1 DEF IInv, UnsatIsProof, RefutedIsProof, ForcedIsImplied, CoreIsUnsat, CoreFromQuery,
              QueryLits
<1>9. SatIsModel'
  BY <1>1 DEF IInv, SatIsModel, Model, True, QueryLits
<1> QED
  BY <1>3, <1>4, <1>5, <1>6, <1>7, <1>8, <1>9 DEF IInv, TrailInv

--------------------------------------------------------------------------------
(***************************************************************************)
(* The invariant, and what it says of every answer.                         *)
(***************************************************************************)
\* The initial states satisfy the invariant.
LEMMA InitIInv == Init => IInv
<1> SUFFICES ASSUME Init PROVE IInv
  OBVIOUS
<1>1. /\ formula = {} /\ originals = {} /\ learnts = {} /\ trail = <<>> /\ lim = <<>>
      /\ assumptions = <<>> /\ query = <<>> /\ base = 0 /\ resolvent = {} /\ core = {}
      /\ forced = {} /\ dead = FALSE /\ answer = "none" /\ phase = "idle"
  BY DEF Init
<1>2. Len(lim) = 0 /\ Level = 0 /\ Owned = 0 /\ DOMAIN trail = {} /\ DOMAIN lim = {}
  BY <1>1 DEF Level, Owned
<1>3. TypeOK
  <2>1. /\ formula \subseteq Clauses /\ originals \subseteq Clauses /\ learnts \subseteq Clauses
        /\ resolvent \in Clauses /\ core \subseteq Lits /\ forced \subseteq Lits
    BY <1>1 DEF Clauses
  <2>2. trail \in Seq(Entry)
    BY <1>1
  <2>3. lim \in Seq(Nat) /\ base \in Nat
    BY <1>1
  <2>4. assumptions \in Seq(Lits) /\ query \in Seq(Lits)
    BY <1>1
  <2>5. dead \in BOOLEAN
    BY <1>1
  <2>6. answer \in Answers /\ phase \in Phases
    BY <1>1 DEF Answers, Phases
  <2> QED
    BY <2>1, <2>2, <2>3, <2>4, <2>5, <2>6 DEF TypeOK
<1>4. TrailShape /\ ReasonsHold /\ RootImplied
  BY <1>2 DEF TrailShape, ReasonsHold, RootImplied
<1>5. DbImplied /\ FormulaCovered
  BY <1>1 DEF DbImplied, Db, FormulaCovered
<1>6. AssumptionLevels
  BY <1>2 DEF AssumptionLevels
<1>7. ResolventHolds /\ ProbeLevels /\ CallShape
  BY <1>1 DEF ResolventHolds, ProbeLevels, CallShape
<1>8. /\ UnsatIsProof /\ SatIsModel /\ RefutedIsProof /\ ForcedIsImplied
      /\ CoreIsUnsat /\ CoreFromQuery
  BY <1>1 DEF UnsatIsProof, SatIsModel, RefutedIsProof, ForcedIsImplied, CoreIsUnsat, CoreFromQuery
<1> QED
  BY <1>3, <1>4, <1>5, <1>6, <1>7, <1>8 DEF IInv

\* Every step preserves the invariant.
LEMMA NextIInv == IInv /\ [Next]_vars => IInv'
<1> SUFFICES ASSUME IInv, [Next]_vars PROVE IInv'
  OBVIOUS
<1>1. CASE Call
  BY <1>1, AddClauseStep, SolveStep, DeadStep, ProbeStartStep DEF Call
<1>2. CASE Deduce
  BY <1>2, PropagateStep, RootConflictStep, ConflictStep, ExplainStep, LearnStep DEF Deduce
<1>3. CASE Manage
  BY <1>3, RestartStep, ReduceDbStep, StopStep DEF Manage
<1>4. CASE Search
  BY <1>4, AssumeStep, AlreadyTrueStep, FoundModelStep, ClashStep, BranchStep DEF Search
<1>5. CASE ProbeStep
  BY <1>5, ProbeAssumeStep, ProbeRefutedStep, ProbeReadStep DEF ProbeStep
<1>6. CASE UNCHANGED vars
  BY <1>6, StutterStep
<1> QED
  BY <1>1, <1>2, <1>3, <1>4, <1>5, <1>6 DEF Next

\* The whole invariant holds in every reachable state, for every set of
\* variables, of clauses a client adds and of assumption lists it solves with.
THEOREM Invariance == Spec => []IInv
  BY InitIInv, NextIInv, PTL DEF Spec

\* The fields of the solver keep their types (the struct Solver, solver.rs).
THEOREM TypeCorrect == Spec => []TypeOK
<1>1. IInv => TypeOK
  BY DEF IInv
<1> QED
  BY <1>1, Invariance, PTL

\* solve_with_assumptions returns Unsat only when no model of the clauses
\* ever added satisfies the assumptions of that call.
THEOREM UnsatSound == Spec => []UnsatIsProof
<1>1. IInv => UnsatIsProof
  BY DEF IInv
<1> QED
  BY <1>1, Invariance, PTL

\* solve_with_assumptions returns Sat only with a trail that satisfies every
\* clause ever added, and the assumptions.
THEOREM SatSound == Spec => []SatIsModel
<1>1. IInv => SatIsModel
  BY DEF IInv
<1> QED
  BY <1>1, Invariance, PTL

\* probe_under_assumptions returns None only when formula and assumptions are
\* unsatisfiable together, and what it reports as forced otherwise holds in every
\* model of both.
THEOREM ProbeSound == Spec => []ProbeRight
<1>1. IInv => ProbeRight
  BY DEF IInv, ProbeRight
<1> QED
  BY <1>1, Invariance, PTL

\* unsat_core: what analyze_final collects is unsatisfiable with the
\* formula, and made of assumptions of the call that was answered.
THEOREM CoreSound == Spec => []CoreRight
<1>1. IInv => CoreRight
  BY DEF IInv, CoreRight
<1> QED
  BY <1>1, Invariance, PTL

\* Learned clauses and root facts follow from the formula alone, so they stay valid when
\* the assumptions of the next solve differ.
THEOREM LearntsSound == Spec => []LearntsImplied
<1>1. ASSUME IInv PROVE LearntsImplied
  <2>1. \A c \in learnts : Entails(formula, c)
    BY <1>1 DEF IInv, DbImplied, Db
  <2>2. ASSUME NEW l \in Lits, RootTrue(l) PROVE Entails(formula, {l})
    <3>1. TrailInv
      BY <1>1, IInvGroups
    <3> QED
      BY <2>2, <3>1, RootHolds DEF Entails, Satisfies
  <2> QED
    BY <2>1, <2>2 DEF LearntsImplied
<1> QED
  BY <1>1, Invariance, PTL
================================================================================
