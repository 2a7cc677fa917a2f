------------------------------ MODULE TrailTheorems ------------------------------
(***************************************************************************)
(* What the operators of module Trail do to a well-formed trail: enqueue,   *)
(* cancel_until, the sorting and swapping of a clause's literals.  The      *)
(* proofs about propagation (module PropagationProofs) see the trail only   *)
(* through these facts.                                                     *)
(***************************************************************************)
EXTENDS Trail, CnfTheorems, FiniteSetTheorems, SequenceTheorems

(***************************************************************************)
(* Least and greatest elements.                                             *)
(***************************************************************************)
\* A nonempty set of natural numbers has its minimum.
LEMMA MinFacts ==
    ASSUME NEW S, S \subseteq Nat, S # {}
    PROVE  Min(S) \in S /\ \A x \in S : Min(S) <= x
  BY LeastPosition DEF Min

\* A greatest element is the maximum.
LEMMA MaxIs ==
    ASSUME NEW S, S \subseteq Int, NEW m \in S, \A x \in S : x <= m
    PROVE  Max(S) = m
<1>1. \A x \in S : m >= x
  OBVIOUS
<1>2. Max(S) \in S /\ \A x \in S : Max(S) >= x
  BY <1>1 DEF Max
<1>3. m \in Int /\ Max(S) \in Int /\ m <= Max(S) /\ Max(S) <= m
  BY <1>2
<1> QED
  BY <1>3

\* A bounded nonempty set of natural numbers has its maximum.
LEMMA MaxFacts ==
    ASSUME NEW S, S \subseteq Nat, S # {}, NEW n \in Nat, \A x \in S : x <= n
    PROVE  Max(S) \in S /\ \A x \in S : x <= Max(S)
<1> DEFINE Bounds == {b \in Nat : \A x \in S : x <= b}
<1>1. PICK b \in Bounds : \A c \in Bounds : b <= c
  BY LeastPosition, n \in Bounds
<1>2. b \in S
  <2> SUFFICES ASSUME b \notin S PROVE FALSE
    OBVIOUS
  <2>1. PICK x \in S : TRUE
    OBVIOUS
  <2>2. x < b
    BY <1>1
  <2>3. b - 1 \in Nat /\ \A y \in S : y <= b - 1
    BY <1>1, <2>2
  <2>4. b - 1 \in Bounds
    BY <2>3
  <2>5. b \in Nat /\ ~(b <= b - 1)
    BY <1>1
  <2> QED
    BY <1>1, <2>4, <2>5
<1>3. S \subseteq Int /\ \A x \in S : x <= b
  BY <1>1
<1>4. Max(S) = b
  BY <1>2, <1>3, MaxIs
<1> QED
  BY <1>2, <1>3, <1>4

(***************************************************************************)
(* The literals of a clause in order.                                       *)
(***************************************************************************)
\* The place of a literal in the order of the packed literals.
Place(l) == 2 * VarOf(l) + IF l < 0 THEN 1 ELSE 0

LEMMA PlaceFacts ==
    ASSUME NEW l \in Lits, NEW k \in Lits
    PROVE  /\ Place(l) \in Nat
           /\ Precedes(l, k) <=> Place(l) < Place(k)
           /\ Place(l) = Place(k) => l = k
  BY VarsAssumption DEF Lits, Place, Precedes, VarOf

\* A finite set of literals has a first one.
LEMMA FirstLiteral ==
    ASSUME NEW c \in Clauses, c # {}
    PROVE  \E l \in c : \A k \in c \ {l} : Precedes(l, k)
<1> DEFINE Places == {Place(l) : l \in c}
<1>1. \A l \in c : l \in Lits
  BY DEF Clauses
<1>2. Places \subseteq Nat /\ Places # {}
  BY <1>1, PlaceFacts
<1>3. PICK p \in Places : \A q \in Places : p <= q
  BY <1>2, LeastPosition
<1>4. PICK l \in c : Place(l) = p
  BY <1>3
<1>5. ASSUME NEW k \in c \ {l} PROVE Precedes(l, k)
  <2>1. Place(k) \in Nat /\ p \in Nat /\ p <= Place(k) /\ Place(l) # Place(k)
    BY <1>1, <1>2, <1>3, <1>4, PlaceFacts
  <2> QED
    BY <1>1, <1>4, <2>1, PlaceFacts
<1> QED
  BY <1>5

\* A sorted enumeration of a finite clause.
Sorts(s, c) == s \in SetToSeqs(c) /\ \A i, j \in DOMAIN s : i < j => Precedes(s[i], s[j])

LEMMA SortedExists ==
    ASSUME NEW c \in Clauses, IsFiniteSet(c)
    PROVE  \E s : Sorts(s, c)
<1> DEFINE Unsorted == {d \in SUBSET c : ~\E s : Sorts(s, d)}
           Sizes == {Cardinality(d) : d \in Unsorted}
<1> SUFFICES ASSUME Unsorted # {} PROVE FALSE
  OBVIOUS
<1>1. \A d \in Unsorted : IsFiniteSet(d) /\ d \in Clauses
  BY FS_Subset DEF Clauses
<1>2. Sizes \subseteq Nat /\ Sizes # {}
  BY <1>1, FS_CardinalityType
<1>3. PICK m \in Sizes : \A n \in Sizes : m <= n
  BY <1>2, LeastPosition
<1>4. PICK d \in Unsorted : Cardinality(d) = m
  BY <1>3
<1>5. d # {}
  <2> SUFFICES ASSUME d = {} PROVE FALSE
    OBVIOUS
  <2>1. Cardinality(d) = 0
    BY FS_EmptySet
  <2>2. << >> \in [1..0 -> d] /\ DOMAIN << >> = 1..0 /\ 1..0 = {}
    OBVIOUS
  <2>3. Sorts(<< >>, d)
    BY <2>1, <2>2 DEF Sorts, SetToSeqs
  <2> QED
    BY <2>3
<1>6. PICK l \in d : \A k \in d \ {l} : Precedes(l, k)
  BY <1>1, <1>5, FirstLiteral
<1>7. IsFiniteSet(d \ {l}) /\ Cardinality(d \ {l}) = m - 1
  BY <1>1, <1>4, FS_RemoveElement
<1>8. m \in Nat /\ m - 1 \in Nat /\ ~(m <= m - 1)
  <2>1. m \in Nat /\ Cardinality(d \ {l}) \in Nat
    BY <1>2, <1>7, FS_CardinalityType
  <2> QED
    BY <1>7, <2>1
<1>9. d \ {l} \notin Unsorted
  BY <1>3, <1>7, <1>8
<1>10. PICK s : Sorts(s, d \ {l})
  BY <1>9
<1>11. /\ s \in [1..(m - 1) -> d \ {l}]
       /\ \A i, j \in 1..(m - 1) : i # j => s[i] # s[j]
       /\ \A i, j \in 1..(m - 1) : i < j => Precedes(s[i], s[j])
  BY <1>7, <1>10 DEF Sorts, SetToSeqs
<1> DEFINE f == [i \in 1..m |-> IF i = 1 THEN l ELSE s[i - 1]]
<1>12. \A i \in 1..m : i # 1 => i - 1 \in 1..(m - 1)
  BY <1>8
<1>13. f \in [1..m -> d]
  BY <1>11, <1>12
<1>14. \A i, j \in 1..m : i # j => f[i] # f[j]
  <2> SUFFICES ASSUME NEW i \in 1..m, NEW j \in 1..m, i # j PROVE f[i] # f[j]
    OBVIOUS
  <2>1. CASE i = 1
    BY <1>11, <1>12, <2>1
  <2>2. CASE j = 1
    BY <1>11, <1>12, <2>2
  <2>3. CASE i # 1 /\ j # 1
    <3>1. i - 1 # j - 1
      OBVIOUS
    <3> QED
      BY <1>11, <1>12, <2>3, <3>1
  <2> QED
    BY <2>1, <2>2, <2>3
<1>15. \A i, j \in 1..m : i < j => Precedes(f[i], f[j])
  <2> SUFFICES ASSUME NEW i \in 1..m, NEW j \in 1..m, i < j PROVE Precedes(f[i], f[j])
    OBVIOUS
  <2>1. j # 1 /\ f[j] = s[j - 1] /\ f[j] \in d \ {l}
    BY <1>11, <1>12
  <2>2. CASE i = 1
    BY <1>6, <2>1, <2>2
  <2>3. CASE i # 1
    <3>1. i - 1 < j - 1
      BY <1>8
    <3> QED
      BY <1>11, <1>12, <2>1, <2>3, <3>1
  <2> QED
    BY <2>2, <2>3
<1>16. Sorts(f, d)
  BY <1>4, <1>13, <1>14, <1>15 DEF Sorts, SetToSeqs
<1> QED
  BY <1>16

\* Sorted enumerates a finite clause.
LEMMA SortedFacts ==
    ASSUME NEW c \in Clauses, IsFiniteSet(c)
    PROVE  /\ Sorted(c) \in Seq(Lits)
           /\ \A i \in 1..Len(Sorted(c)) : Sorted(c)[i] \in c
           /\ \A i, j \in 1..Len(Sorted(c)) : Sorted(c)[i] = Sorted(c)[j] => i = j
<1>1. PICK s : Sorts(s, c)
  BY SortedExists
<1>2. Sorted(c) \in SetToSeqs(c)
  BY <1>1 DEF Sorts, Sorted
<1> DEFINE n == Cardinality(c)
           q == Sorted(c)
<1>3. n \in Nat
  BY FS_CardinalityType
<1>4. q \in [1..n -> c] /\ \A i, j \in 1..n : i # j => q[i] # q[j]
  BY <1>2 DEF SetToSeqs
<1>5. c \subseteq Lits
  BY DEF Clauses
<1> HIDE DEF n, q
<1>6. q \in Seq(Lits) /\ Len(q) = n
  BY <1>3, <1>4, <1>5
<1>7. q \in Seq(Lits) /\ \A i \in 1..Len(q) : q[i] \in c
  BY <1>4, <1>6
<1>8. \A i, j \in 1..Len(q) : q[i] = q[j] => i = j
  BY <1>4, <1>6
<1> QED
  BY <1>7, <1>8 DEF q

(***************************************************************************)
(* Swapping two literals of a clause.                                       *)
(***************************************************************************)
LEMMA SwappedFacts ==
    ASSUME NEW S, NEW s \in Seq(S), NEW i \in 1..Len(s), NEW j \in 1..Len(s)
    PROVE  /\ Swapped(s, i, j) \in Seq(S)
           /\ Len(Swapped(s, i, j)) = Len(s)
           /\ \A k \in 1..Len(s) :
                 Swapped(s, i, j)[k] = IF k = j THEN s[i] ELSE IF k = i THEN s[j] ELSE s[k]
  BY DEF Swapped

\* The elements of a sequence.
LEMMA ToSetFacts ==
    ASSUME NEW S, NEW s \in Seq(S)
    PROVE  /\ ToSet(s) \subseteq S
           /\ \A k \in 1..Len(s) : s[k] \in ToSet(s)
           /\ \A x \in ToSet(s) : \E k \in 1..Len(s) : s[k] = x
  BY DEF ToSet

\* A swap keeps the literals and keeps them apart.
LEMMA SwappedKeeps ==
    ASSUME NEW S, NEW s \in Seq(S), NEW i \in 1..Len(s), NEW j \in 1..Len(s)
    PROVE  /\ ToSet(Swapped(s, i, j)) = ToSet(s)
           /\ IsInjective(s) => IsInjective(Swapped(s, i, j))
<1> DEFINE q == Swapped(s, i, j)
<1>1. /\ q \in Seq(S) /\ Len(q) = Len(s) /\ DOMAIN q = 1..Len(s) /\ DOMAIN s = 1..Len(s)
      /\ \A k \in 1..Len(s) : q[k] = IF k = j THEN s[i] ELSE IF k = i THEN s[j] ELSE s[k]
  BY SwappedFacts
<1> HIDE DEF q
<1>2. ToSet(q) \subseteq ToSet(s)
  BY <1>1, ToSetFacts
<1>3. ASSUME NEW x \in ToSet(s) PROVE x \in ToSet(q)
  <2>1. PICK k \in 1..Len(s) : s[k] = x
    BY ToSetFacts
  <2>2. \E h \in 1..Len(s) : q[h] = x
    BY <1>1, <2>1
  <2> QED
    BY <1>1, <2>2, ToSetFacts
<1>4. ASSUME IsInjective(s) PROVE IsInjective(q)
  BY <1>1, <1>4 DEF IsInjective
<1> QED
  BY <1>2, <1>3, <1>4 DEF q

\* The clause q is s with the literals at i and j swapped.
IsSwap(q, s, i, j) ==
    /\ q \in Seq(Lits) /\ Len(q) = Len(s) /\ ToSet(q) = ToSet(s)
    /\ IsInjective(s) => IsInjective(q)
    /\ q[i] = s[j] /\ q[j] = s[i]
    /\ \A k \in 1..Len(s) : k # i /\ k # j => q[k] = s[k]

LEMMA SwapLits ==
    ASSUME NEW s \in Seq(Lits), NEW i \in 1..Len(s), NEW j \in 1..Len(s)
    PROVE  IsSwap(Swapped(s, i, j), s, i, j)
<1> DEFINE q == Swapped(s, i, j)
<1>1. q \in Seq(Lits) /\ Len(q) = Len(s)
  BY SwappedFacts
<1>2. q[i] = s[j] /\ q[j] = s[i]
  BY DEF Swapped
<1>3. \A k \in 1..Len(s) : k # i /\ k # j => q[k] = s[k]
  BY DEF Swapped
<1>4. ToSet(q) = ToSet(s)
  BY SwappedKeeps
<1>5. IsInjective(s) => IsInjective(q)
  BY SwappedKeeps
<1> QED
  BY <1>1, <1>2, <1>3, <1>4, <1>5 DEF IsSwap

(***************************************************************************)
(* Well-formed trails: one literal per variable, levels that follow the     *)
(* limits, and nothing below the deepest level left to propagate.           *)
(***************************************************************************)
WellFormed(t) ==
    /\ t \in TrailType
    /\ \A i, j \in 1..Len(t.lits) : VarOf(t.lits[i]) = VarOf(t.lits[j]) => i = j
    /\ \A n, m \in 1..Len(t.lim) : n <= m => t.lim[n] <= t.lim[m]
    /\ \A n \in 1..Len(t.lim) : t.lim[n] <= t.qhead
    /\ t.qhead <= Len(t.lits)
    /\ \A i \in 1..Len(t.lits) :
          /\ LitLevel(t, t.lits[i]) \in 0..LevelOf(t)
          /\ \A n \in 1..Len(t.lim) : n <= LitLevel(t, t.lits[i]) <=> t.lim[n] < i

\* The trail u is t cut to its first m literals, with one more at most.
Continues(t, u, m) ==
    /\ WellFormed(t) /\ WellFormed(u)
    /\ m \in 0..Len(t.lits)
    /\ Len(u.lits) = m \/ Len(u.lits) = m + 1
    /\ \A i \in 1..m : u.lits[i] = t.lits[i] /\ u.info[VarOf(t.lits[i])] = t.info[VarOf(t.lits[i])]
    /\ \A i, j \in 1..Len(t.lits) :
          i <= m /\ LitLevel(t, t.lits[j]) <= LitLevel(t, t.lits[i]) => j <= m
    /\ u.qhead <= m /\ u.qhead <= t.qhead
    /\ u.qhead = t.qhead \/ u.qhead = m

\* The parts of a trail have their types.
LEMMA TrailParts ==
    ASSUME NEW t \in TrailType
    PROVE  /\ t.lits \in Seq(Lits) /\ t.lim \in Seq(Nat) /\ t.qhead \in Nat
           /\ t.info \in [Vars -> [level : Nat \cup {-1}, reason : Reasons]]
           /\ Len(t.lits) \in Nat /\ Len(t.lim) \in Nat
           /\ \A i \in 1..Len(t.lits) : t.lits[i] \in Lits
           /\ \A n \in 1..Len(t.lim) : t.lim[n] \in Nat
           /\ t = [lits |-> t.lits, lim |-> t.lim, info |-> t.info, qhead |-> t.qhead]
<1>1. /\ t.lits \in Seq(Lits) /\ t.lim \in Seq(Nat) /\ t.qhead \in Nat
      /\ t.info \in [Vars -> [level : Nat \cup {-1}, reason : Reasons]]
      /\ t = [lits |-> t.lits, lim |-> t.lim, info |-> t.info, qhead |-> t.qhead]
  BY DEF TrailType
<1> QED
  BY <1>1, LenProperties, ElementOfSeq

\* A literal is true at one position, where its negation is not.
LEMMA TruthFacts ==
    ASSUME NEW t, WellFormed(t), NEW l \in Lits
    PROVE  /\ IsTrue(t, l) <=> \E i \in 1..Len(t.lits) : t.lits[i] = l
           /\ IsFalse(t, l) <=> \E i \in 1..Len(t.lits) : t.lits[i] = -l
           /\ ~(IsTrue(t, l) /\ IsFalse(t, l))
           /\ IsFalse(t, l) <=> IsTrue(t, -l)
           /\ LitLevel(t, -l) = LitLevel(t, l)
           /\ \A i, j \in 1..Len(t.lits) : t.lits[i] = l /\ t.lits[j] = l => i = j
           /\ IsTrue(t, l) \/ IsFalse(t, l) => LitLevel(t, l) \in 0..LevelOf(t)
<1>1. /\ IsTrue(t, l) <=> \E i \in 1..Len(t.lits) : t.lits[i] = l
      /\ IsFalse(t, l) <=> \E i \in 1..Len(t.lits) : t.lits[i] = -l
      /\ IsFalse(t, l) <=> IsTrue(t, -l)
  BY DEF IsTrue, IsFalse, Contains
<1>2. VarOf(-l) = VarOf(l) /\ l # -l
  BY LitFacts
<1>3. ~(IsTrue(t, l) /\ IsFalse(t, l))
  BY <1>1, <1>2 DEF WellFormed
<1>4. LitLevel(t, -l) = LitLevel(t, l)
  BY <1>2 DEF LitLevel
<1>5. IsTrue(t, l) \/ IsFalse(t, l) => LitLevel(t, l) \in 0..LevelOf(t)
  BY <1>1, <1>4 DEF WellFormed
<1>6. \A i, j \in 1..Len(t.lits) : t.lits[i] = l /\ t.lits[j] = l => i = j
  BY DEF WellFormed
<1> QED
  BY <1>1, <1>3, <1>4, <1>5, <1>6

\* enqueue appends the literal at the current level.
LEMMA EnqueuedFacts ==
    ASSUME NEW t \in TrailType, NEW l \in Lits, NEW r \in Reasons, NEW u, u = Enqueued(t, l, r)
    PROVE  /\ u \in TrailType
           /\ u.lits = Append(t.lits, l) /\ u.lim = t.lim /\ u.qhead = t.qhead
           /\ Len(u.lits) = Len(t.lits) + 1 /\ u.lits[Len(t.lits) + 1] = l
           /\ \A i \in 1..Len(t.lits) : u.lits[i] = t.lits[i]
           /\ \A v \in Vars : v # VarOf(l) => u.info[v] = t.info[v]
           /\ LitLevel(u, l) = LevelOf(t) /\ ReasonOf(u, l) = r
<1> DEFINE e == [level |-> LevelOf(t), reason |-> r]
<1>1. VarOf(l) \in Vars
  BY LitFacts
<1>2. LevelOf(t) \in Nat
  BY TrailParts DEF LevelOf
<1>3. e \in [level : Nat \cup {-1}, reason : Reasons]
  BY <1>2
<1>4. /\ u = [t EXCEPT !.lits = Append(t.lits, l), !.info = [t.info EXCEPT ![VarOf(l)] = e]]
      /\ u.lits = Append(t.lits, l) /\ u.lim = t.lim
      /\ u.info = [t.info EXCEPT ![VarOf(l)] = e] /\ u.qhead = t.qhead
  BY DEF Enqueued, TrailType
<1>5. Append(t.lits, l) \in Seq(Lits)
  BY TrailParts, AppendProperties
<1>6. /\ [t.info EXCEPT ![VarOf(l)] = e] \in [Vars -> [level : Nat \cup {-1}, reason : Reasons]]
      /\ \A v \in Vars : [t.info EXCEPT ![VarOf(l)] = e][v] = IF v = VarOf(l) THEN e ELSE t.info[v]
  BY <1>1, <1>3, TrailParts
<1>7. u \in TrailType
  BY <1>4, <1>5, <1>6, TrailParts DEF TrailType
<1>8. LitLevel(u, l) = e.level /\ ReasonOf(u, l) = e.reason
  BY <1>1, <1>4, <1>6 DEF LitLevel, ReasonOf
<1>9. /\ Len(u.lits) = Len(t.lits) + 1 /\ u.lits[Len(t.lits) + 1] = l
      /\ \A i \in 1..Len(t.lits) : u.lits[i] = t.lits[i]
  BY <1>4, TrailParts, AppendProperties
<1> QED
  BY <1>4, <1>6, <1>7, <1>8, <1>9

\* enqueue of an open literal keeps the trail well formed.
LEMMA EnqueueContinues ==
    ASSUME NEW t, WellFormed(t), NEW l \in Lits, IsUndef(t, l), NEW r \in Reasons,
           NEW u, u = Enqueued(t, l, r)
    PROVE  Continues(t, u, Len(t.lits))
<1> DEFINE m == Len(t.lits)
<1>1. t \in TrailType /\ m \in Nat /\ t.qhead \in Nat /\ LevelOf(t) \in Nat
  BY TrailParts DEF WellFormed, LevelOf
<1>2. /\ u \in TrailType /\ u.lim = t.lim /\ u.qhead = t.qhead
      /\ Len(u.lits) = m + 1 /\ u.lits[m + 1] = l
      /\ \A i \in 1..m : u.lits[i] = t.lits[i]
      /\ \A v \in Vars : v # VarOf(l) => u.info[v] = t.info[v]
      /\ LitLevel(u, l) = LevelOf(t)
  BY <1>1, EnqueuedFacts
<1>3. \A i \in 1..m : t.lits[i] \in Lits
  BY <1>1, TrailParts
<1>4. \A i \in 1..m : VarOf(t.lits[i]) \in Vars /\ VarOf(t.lits[i]) # VarOf(l)
  <2> TAKE i \in 1..m
  <2>1. t.lits[i] # l /\ t.lits[i] # -l
    BY TruthFacts DEF IsUndef
  <2> QED
    BY <1>3, <2>1, LitFacts
<1>5. \A i \in 1..m : u.info[VarOf(t.lits[i])] = t.info[VarOf(t.lits[i])]
  BY <1>2, <1>4
<1>6. \A i \in 1..m : LitLevel(u, u.lits[i]) = LitLevel(t, t.lits[i])
  BY <1>2, <1>5 DEF LitLevel
<1>7. LevelOf(u) = LevelOf(t)
  BY <1>2 DEF LevelOf
<1>8. \A i, j \in 1..Len(u.lits) : VarOf(u.lits[i]) = VarOf(u.lits[j]) => i = j
  BY SMTT(60), <1>1, <1>2, <1>4 DEF WellFormed
<1>9. \A i \in 1..Len(u.lits) :
          /\ LitLevel(u, u.lits[i]) \in 0..LevelOf(u)
          /\ \A n \in 1..Len(u.lim) : n <= LitLevel(u, u.lits[i]) <=> u.lim[n] < i
  <2> TAKE i \in 1..Len(u.lits)
  <2>1. CASE i \in 1..m
    BY <1>2, <1>6, <1>7, <2>1 DEF WellFormed
  <2>2. CASE i = m + 1
    <3>1. \A n \in 1..Len(t.lim) : t.lim[n] < m + 1 /\ n <= LevelOf(t)
      BY <1>1, TrailParts DEF WellFormed, LevelOf
    <3> QED
      BY <1>1, <1>2, <1>7, <2>2, <3>1
  <2> QED
    BY <1>1, <1>2, <2>1, <2>2
<1>10. WellFormed(u)
  BY <1>1, <1>2, <1>8, <1>9 DEF WellFormed
<1>11. m \in 0..m /\ t.qhead <= m
  BY <1>1 DEF WellFormed
<1> QED
  BY <1>1, <1>2, <1>5, <1>10, <1>11 DEF Continues

\* What is left after cancelling to level n: the first m literals.
CutAt(t, u, n, m) ==
    /\ Continues(t, u, m)
    /\ Len(u.lits) = m
    /\ \A i \in 1..Len(t.lits) : LitLevel(t, t.lits[i]) <= n <=> i <= m
    /\ LevelOf(u) = IF LevelOf(t) <= n THEN LevelOf(t) ELSE n
    /\ n < LevelOf(t) => m = t.lim[n + 1]

\* cancel_until cuts the trail to the literals of the levels it keeps.
LEMMA CancelContinues ==
    ASSUME NEW t, WellFormed(t), NEW n \in Nat, NEW u, u = Cancelled(t, n)
    PROVE  \E m \in 0..Len(t.lits) : CutAt(t, u, n, m)
<1>1. t \in TrailType /\ LevelOf(t) = Len(t.lim)
  BY DEF WellFormed, LevelOf
<1>2. /\ Len(t.lits) \in Nat /\ Len(t.lim) \in Nat /\ t.qhead \in Nat /\ t.qhead <= Len(t.lits)
      /\ \A i \in 1..Len(t.lits) : t.lits[i] \in Lits /\ LitLevel(t, t.lits[i]) \in 0..Len(t.lim)
  BY <1>1, TrailParts DEF WellFormed
<1>3. CASE Len(t.lim) <= n
  <2>1. u = t
    BY <1>1, <1>3 DEF Cancelled
  <2>2. Continues(t, u, Len(t.lits))
    BY <1>2, <2>1 DEF Continues
  <2>3. \A i \in 1..Len(t.lits) : LitLevel(t, t.lits[i]) <= n <=> i <= Len(t.lits)
    BY <1>2, <1>3
  <2>4. CutAt(t, u, n, Len(t.lits))
    BY <1>1, <1>2, <1>3, <2>1, <2>2, <2>3 DEF CutAt
  <2> QED
    BY <1>2, <2>4
<1>4. CASE ~(Len(t.lim) <= n)
  <2> DEFINE cut == t.lim[n + 1]
             gone == {VarOf(t.lits[i]) : i \in (cut + 1)..Len(t.lits)}
             kept == [v \in Vars |-> IF v \in gone THEN Unassigned ELSE t.info[v]]
  <2>1. n + 1 \in 1..Len(t.lim)
    BY <1>2, <1>4
  <2>2. cut \in Nat /\ cut <= t.qhead /\ cut <= Len(t.lits)
    BY <1>1, <1>2, <2>1, TrailParts DEF WellFormed
  <2>3. /\ u.lits = SubSeq(t.lits, 1, cut) /\ u.lim = SubSeq(t.lim, 1, n)
        /\ u.info = kept /\ u.qhead = Cursor(t, cut)
        /\ u = [lits |-> SubSeq(t.lits, 1, cut), lim |-> SubSeq(t.lim, 1, n),
                info |-> kept, qhead |-> Cursor(t, cut)]
    BY <1>1, <1>4 DEF Cancelled
  <2>4. Cursor(t, cut) = cut
    <3>1. {t.qhead, cut} \subseteq Nat
      BY <1>2, <2>2
    <3>2. Min({t.qhead, cut}) \in {t.qhead, cut} /\ \A x \in {t.qhead, cut} : Min({t.qhead, cut}) <= x
      BY <3>1, MinFacts
    <3> QED
      BY <1>2, <2>2, <3>2 DEF Cursor
  <2>5. u.lits \in Seq(Lits) /\ Len(u.lits) = cut /\ \A i \in 1..cut : u.lits[i] = t.lits[i]
    BY <1>2, <2>2, <2>3, SubSeqProperties
  <2>6. u.lim \in Seq(Nat) /\ Len(u.lim) = n /\ \A k \in 1..n : u.lim[k] = t.lim[k]
    <3>1. \A k \in 1..n : t.lim[k] \in Nat
      BY <1>1, <2>1, TrailParts
    <3> QED
      BY <2>3, <3>1, SubSeqProperties
  <2>7. kept \in [Vars -> [level : Nat \cup {-1}, reason : Reasons]]
    BY <1>1, TrailParts, VarsAssumption DEF Unassigned, Decision, Reasons
  <2>8. u \in TrailType
    BY <2>2, <2>3, <2>4, <2>5, <2>6, <2>7 DEF TrailType
  <2>9. \A i \in 1..cut : VarOf(t.lits[i]) \in Vars /\ VarOf(t.lits[i]) \notin gone
    <3> TAKE i \in 1..cut
    <3>1. i \in 1..Len(t.lits) /\ t.lits[i] \in Lits
      BY <1>2, <2>2
    <3>2. \A j \in (cut + 1)..Len(t.lits) : VarOf(t.lits[i]) # VarOf(t.lits[j])
      BY <2>2, <3>1 DEF WellFormed
    <3> QED
      BY <3>1, <3>2, LitFacts
  <2>10. \A i \in 1..cut : u.info[VarOf(t.lits[i])] = t.info[VarOf(t.lits[i])]
    BY <2>3, <2>9
  <2>11. \A i \in 1..cut : LitLevel(u, u.lits[i]) = LitLevel(t, t.lits[i])
    BY <2>5, <2>10 DEF LitLevel
  <2> HIDE DEF gone, kept, cut
  <2>12. \A i \in 1..Len(t.lits) : LitLevel(t, t.lits[i]) <= n <=> i <= cut
    <3> TAKE i \in 1..Len(t.lits)
    <3>1. n + 1 <= LitLevel(t, t.lits[i]) <=> cut < i
      BY <2>1 DEF WellFormed, cut
    <3> QED
      BY <1>2, <2>2, <3>1
  <2>13. \A k \in 1..n : k \in 1..Len(t.lim) /\ t.lim[k] <= cut
    BY <2>1 DEF WellFormed, cut
  <2>14. \A i \in 1..cut :
            /\ LitLevel(u, u.lits[i]) \in 0..n
            /\ \A k \in 1..n : k <= LitLevel(u, u.lits[i]) <=> u.lim[k] < i
    <3> TAKE i \in 1..cut
    <3>1. i \in 1..Len(t.lits) /\ LitLevel(u, u.lits[i]) = LitLevel(t, t.lits[i])
      BY <1>2, <2>2, <2>11
    <3>2. LitLevel(t, t.lits[i]) \in 0..n
      BY <1>2, <2>12, <3>1
    <3>3. \A k \in 1..n : k <= LitLevel(t, t.lits[i]) <=> t.lim[k] < i
      BY <2>13, <3>1 DEF WellFormed
    <3> QED
      BY <2>6, <3>1, <3>2, <3>3
  <2>15. \A i, j \in 1..cut : VarOf(u.lits[i]) = VarOf(u.lits[j]) => i = j
    <3>1. \A i \in 1..cut : i \in 1..Len(t.lits)
      BY <1>2, <2>2
    <3> QED
      BY <2>5, <3>1 DEF WellFormed
  <2>16. \A k, h \in 1..n : k <= h => u.lim[k] <= u.lim[h]
    BY <2>6, <2>13 DEF WellFormed
  <2>17. u.qhead = cut /\ \A k \in 1..n : u.lim[k] <= cut
    BY <2>3, <2>4, <2>6, <2>13
  <2>18. WellFormed(u)
    BY <2>2, <2>5, <2>6, <2>8, <2>14, <2>15, <2>16, <2>17 DEF WellFormed, LevelOf
  <2>19. \A i, j \in 1..Len(t.lits) :
            i <= cut /\ LitLevel(t, t.lits[j]) <= LitLevel(t, t.lits[i]) => j <= cut
    BY <1>2, <2>12
  <2>20. Continues(t, u, cut)
    BY <1>2, <2>2, <2>5, <2>10, <2>17, <2>18, <2>19 DEF Continues
  <2>21. LevelOf(u) = n /\ cut \in 0..Len(t.lits)
    BY <1>2, <2>2, <2>6 DEF LevelOf
  <2>22. ~(LevelOf(t) <= n) /\ n < LevelOf(t)
    BY <1>1, <1>2, <1>4
  <2>23. CutAt(t, u, n, cut)
    BY <2>5, <2>12, <2>20, <2>21, <2>22 DEF CutAt, cut
  <2> QED
    BY <2>21, <2>23
<1> QED
  BY <1>2, <1>3, <1>4

\* A cut and then one enqueued literal continue the trail as well.
LEMMA CutThenEnqueue ==
    ASSUME NEW t, NEW u, NEW m, Continues(t, u, m), Len(u.lits) = m,
           NEW l \in Lits, IsUndef(u, l), NEW r \in Reasons, NEW w, w = Enqueued(u, l, r)
    PROVE  Continues(t, w, m) /\ Len(w.lits) = m + 1 /\ w.lits[m + 1] = l
<1>1. Continues(u, w, m)
  BY EnqueueContinues DEF Continues
<1>2. u \in TrailType /\ t \in TrailType
  BY DEF Continues, WellFormed
<1>3. Len(w.lits) = m + 1 /\ w.lits[m + 1] = l /\ w.qhead = u.qhead
  BY <1>2, EnqueuedFacts
<1>4. m \in Nat /\ t.qhead \in Nat /\ u.qhead \in Nat
  BY <1>2, TrailParts DEF Continues
<1>5. \A i \in 1..m : /\ w.lits[i] = t.lits[i]
                      /\ w.info[VarOf(t.lits[i])] = t.info[VarOf(t.lits[i])]
  BY <1>1 DEF Continues
<1> QED
  BY <1>1, <1>3, <1>4, <1>5 DEF Continues

\* A level opens when everything before it has been propagated.
LEMMA OpenContinues ==
    ASSUME NEW t, WellFormed(t), t.qhead = Len(t.lits), NEW w, w = Opened(t)
    PROVE  /\ Continues(t, w, Len(t.lits)) /\ w.lits = t.lits /\ w.info = t.info
           /\ w.lim = Append(t.lim, Len(t.lits))
<1> DEFINE u == Opened(t)
           m == Len(t.lits)
<1>1. t \in TrailType /\ m \in Nat /\ Len(t.lim) \in Nat
  BY TrailParts DEF WellFormed
<1>2. u.lits = t.lits /\ u.lim = Append(t.lim, m) /\ u.info = t.info /\ u.qhead = t.qhead
  BY <1>1 DEF Opened, TrailType
<1>3. /\ u.lim \in Seq(Nat) /\ Len(u.lim) = Len(t.lim) + 1 /\ u.lim[Len(t.lim) + 1] = m
      /\ \A n \in 1..Len(t.lim) : u.lim[n] = t.lim[n]
  BY <1>1, <1>2, TrailParts, AppendProperties
<1>4. u \in TrailType
  BY <1>1, <1>3 DEF Opened, TrailType
<1>5. \A i \in 1..m : LitLevel(u, u.lits[i]) = LitLevel(t, t.lits[i])
  BY <1>2 DEF LitLevel
<1>6. \A n \in 1..Len(t.lim) : t.lim[n] \in Nat /\ t.lim[n] <= m
  BY <1>1, TrailParts DEF WellFormed
<1> HIDE DEF u
<1>7. \A n, k \in 1..Len(u.lim) : n <= k => u.lim[n] <= u.lim[k]
  <2> SUFFICES ASSUME NEW n \in 1..Len(u.lim), NEW k \in 1..Len(u.lim), n <= k
               PROVE  u.lim[n] <= u.lim[k]
    OBVIOUS
  <2>1. CASE k \in 1..Len(t.lim)
    <3>1. n \in 1..Len(t.lim)
      BY <2>1
    <3>2. t.lim[n] <= t.lim[k]
      BY <2>1, <3>1 DEF WellFormed
    <3> QED
      BY <1>3, <2>1, <3>1, <3>2
  <2>2. CASE k = Len(t.lim) + 1
    <3>1. u.lim[k] = m /\ m \in Nat
      BY <1>1, <1>3, <2>2
    <3>2. CASE n \in 1..Len(t.lim)
      <4>1. u.lim[n] = t.lim[n] /\ t.lim[n] <= m
        BY <1>3, <1>6, <3>2
      <4> QED
        BY <3>1, <4>1
    <3>3. CASE n = k
      BY <3>1, <3>3
    <3>4. n \in 1..Len(t.lim) \/ n = k
      BY <1>1, <1>3, <2>2
    <3> QED
      BY <3>2, <3>3, <3>4
  <2>3. k \in 1..Len(t.lim) \/ k = Len(t.lim) + 1
    BY <1>1, <1>3
  <2> QED
    BY <2>1, <2>2, <2>3
<1>8. \A n \in 1..Len(u.lim) : u.lim[n] <= u.qhead
  BY <1>1, <1>2, <1>3, <1>6 DEF WellFormed
<1>9. \A i \in 1..m :
         /\ LitLevel(u, u.lits[i]) \in 0..LevelOf(u)
         /\ \A n \in 1..Len(u.lim) : n <= LitLevel(u, u.lits[i]) <=> u.lim[n] < i
  <2> TAKE i \in 1..m
  <2>1. LitLevel(t, t.lits[i]) \in 0..Len(t.lim)
    BY DEF WellFormed, LevelOf
  <2>2. \A n \in 1..Len(t.lim) : n <= LitLevel(u, u.lits[i]) <=> u.lim[n] < i
    BY <1>3, <1>5 DEF WellFormed
  <2>3. Len(t.lim) + 1 <= LitLevel(u, u.lits[i]) <=> u.lim[Len(t.lim) + 1] < i
    BY <1>1, <1>3, <1>5, <2>1
  <2> QED
    BY SMTT(60), <1>1, <1>3, <1>5, <2>1, <2>2, <2>3 DEF LevelOf
<1>10. WellFormed(u)
  BY <1>2, <1>4, <1>7, <1>8, <1>9 DEF WellFormed
<1>11. m \in 0..m /\ t.qhead <= m
  BY <1>1
<1>12. Continues(t, u, m)
  BY <1>2, <1>10, <1>11 DEF Continues
<1> QED
  BY <1>2, <1>12 DEF u

\* A decision opens a level when everything before it has been propagated.
LEMMA DecideContinues ==
    ASSUME NEW t, WellFormed(t), t.qhead = Len(t.lits), NEW l \in Lits, IsUndef(t, l),
           NEW w, w = Enqueued(Opened(t), l, Decision)
    PROVE  /\ Continues(t, w, Len(t.lits))
           /\ Len(w.lits) = Len(t.lits) + 1 /\ w.lits[Len(t.lits) + 1] = l
           /\ ReasonOf(w, l) = Decision
           /\ w.lim = Append(t.lim, Len(t.lits)) /\ LitLevel(w, l) = LevelOf(t) + 1
<1>1. PICK u, m : u = Opened(t) /\ m = Len(t.lits)
  OBVIOUS
<1>2. Continues(t, u, m) /\ u.lits = t.lits /\ u.lim = Append(t.lim, m)
  BY <1>1, OpenContinues
<1>3. IsUndef(u, l) /\ Decision \in Reasons /\ Len(u.lits) = m /\ w = Enqueued(u, l, Decision)
  BY <1>1, <1>2 DEF IsUndef, IsTrue, IsFalse, Contains, Decision, Reasons
<1>4. Continues(t, w, m) /\ Len(w.lits) = m + 1 /\ w.lits[m + 1] = l
  BY <1>2, <1>3, CutThenEnqueue
<1>5. u \in TrailType /\ t.lim \in Seq(Nat) /\ m \in Nat
  BY <1>1, <1>2, TrailParts DEF Continues, WellFormed
<1>6. ReasonOf(w, l) = Decision /\ w.lim = u.lim /\ LitLevel(w, l) = LevelOf(u)
  BY <1>3, <1>5, EnqueuedFacts
<1>7. LevelOf(u) = LevelOf(t) + 1
  BY <1>2, <1>5, AppendProperties DEF LevelOf
<1> QED
  BY <1>1, <1>2, <1>4, <1>6, <1>7

\* The deepest false level of a clause is the level of one of its false
\* literals, if it has any.
LEMMA DeepestFacts ==
    ASSUME NEW t, WellFormed(t), NEW s \in Seq(Lits), NEW d, d = DeepestFalse(t, s)
    PROVE  /\ d \in 0..LevelOf(t)
           /\ \A l \in ToSet(s) : IsFalse(t, l) => LitLevel(t, l) <= d
           /\ \A k \in ToSet(s) : IsFalse(t, k) =>
                 \E l \in ToSet(s) : IsFalse(t, l) /\ LitLevel(t, l) = d
<1> DEFINE falses == {k \in ToSet(s) : IsFalse(t, k)}
           levels == {0} \cup {LitLevel(t, l) : l \in falses}
<1>1. LevelOf(t) \in Nat
  BY TrailParts DEF WellFormed, LevelOf
<1>2. \A l \in falses : LitLevel(t, l) \in 0..LevelOf(t)
  <2> TAKE l \in falses
  <2>1. l \in Lits
    BY ToSetFacts
  <2> QED
    BY <2>1, TruthFacts
<1>3. levels \subseteq Nat /\ levels # {} /\ \A x \in levels : x <= LevelOf(t)
  BY <1>1, <1>2
<1>4. d = Max(levels)
  BY DEF DeepestFalse
<1> HIDE DEF levels
<1>5. d \in levels /\ \A x \in levels : x <= d
  BY <1>1, <1>3, <1>4, MaxFacts
<1> USE DEF levels
<1>6. d \in 0..LevelOf(t)
  BY <1>1, <1>2, <1>5
<1>7. \A l \in falses : LitLevel(t, l) <= d
  BY <1>5
<1>8. ASSUME NEW k \in falses PROVE \E l \in falses : LitLevel(t, l) = d
  <2>1. CASE \E l \in falses : LitLevel(t, l) = d
    BY <2>1
  <2>2. CASE d = 0
    <3>1. LitLevel(t, k) \in Nat /\ LitLevel(t, k) <= 0
      BY <1>2, <1>7, <1>8, <2>2
    <3> QED
      BY <2>2, <3>1
  <2> QED
    BY <1>5, <2>1, <2>2
<1> QED
  BY <1>6, <1>7, <1>8

\* Taking the next literal from the queue.
LEMMA DequeueWellFormed ==
    ASSUME NEW t, WellFormed(t), t.qhead < Len(t.lits),
           NEW u, u = [t EXCEPT !.qhead = t.qhead + 1]
    PROVE  /\ WellFormed(u) /\ u.lits = t.lits /\ u.lim = t.lim /\ u.info = t.info
           /\ u.qhead = t.qhead + 1
<1>1. t \in TrailType /\ t.qhead \in Nat /\ Len(t.lits) \in Nat
  BY TrailParts DEF WellFormed
<1> DEFINE q == t.qhead + 1
<1>q. q \in Nat /\ u = [t EXCEPT !.qhead = q]
  BY <1>1
<1> HIDE DEF q
<1>2. /\ u.lits = t.lits /\ u.lim = t.lim /\ u.info = t.info /\ u.qhead = q
      /\ u \in TrailType
  BY <1>1, <1>q DEF TrailType
<1> USE DEF q
<1>3. u.qhead <= Len(u.lits) /\ \A n \in 1..Len(u.lim) : u.lim[n] <= u.qhead
  <2> USE <1>1, <1>2
  <2>1. u.qhead <= Len(u.lits)
    OBVIOUS
  <2>2. \A n \in 1..Len(t.lim) : t.lim[n] \in Nat /\ t.lim[n] <= t.qhead
    BY TrailParts DEF WellFormed
  <2> QED
    BY <2>1, <2>2
<1>4. \A l : LitLevel(u, l) = LitLevel(t, l)
  BY <1>2 DEF LitLevel
<1>5. LevelOf(u) = LevelOf(t)
  BY <1>2 DEF LevelOf
<1>6. \A i \in 1..Len(u.lits) :
          /\ LitLevel(u, u.lits[i]) \in 0..LevelOf(u)
          /\ \A n \in 1..Len(u.lim) : n <= LitLevel(u, u.lits[i]) <=> u.lim[n] < i
  BY <1>2, <1>4, <1>5 DEF WellFormed
<1> QED
  BY <1>2, <1>3, <1>6 DEF WellFormed

\* A cut after a cut, with one more literal at most.
LEMMA CutThenContinue ==
    ASSUME NEW t, NEW u, NEW m, Continues(t, u, m), Len(u.lits) = m,
           NEW w, NEW k, Continues(u, w, k)
    PROVE  Continues(t, w, k)
<1>1. /\ WellFormed(t) /\ WellFormed(u) /\ WellFormed(w)
      /\ m \in 0..Len(t.lits) /\ k \in 0..m
      /\ Len(w.lits) = k \/ Len(w.lits) = k + 1
  BY DEF Continues
<1>2. /\ Len(t.lits) \in Nat /\ t.qhead \in Nat /\ u.qhead \in Nat /\ w.qhead \in Nat
      /\ u.qhead <= m /\ u.qhead <= t.qhead /\ (u.qhead = t.qhead \/ u.qhead = m)
      /\ w.qhead <= k /\ w.qhead <= u.qhead /\ (w.qhead = u.qhead \/ w.qhead = k)
  BY <1>1, TrailParts DEF Continues, WellFormed
<1>3. /\ w.qhead <= k /\ w.qhead <= t.qhead /\ (w.qhead = t.qhead \/ w.qhead = k)
      /\ k \in 0..Len(t.lits)
  BY <1>1, <1>2
<1>4. \A i \in 1..m : u.lits[i] = t.lits[i] /\ u.info[VarOf(t.lits[i])] = t.info[VarOf(t.lits[i])]
  BY DEF Continues
<1>5. \A i \in 1..k : w.lits[i] = t.lits[i] /\ w.info[VarOf(t.lits[i])] = t.info[VarOf(t.lits[i])]
  <2> TAKE i \in 1..k
  <2>1. i \in 1..m
    BY <1>1
  <2>2. w.lits[i] = u.lits[i] /\ w.info[VarOf(u.lits[i])] = u.info[VarOf(u.lits[i])]
    BY DEF Continues
  <2> QED
    BY <1>4, <2>1, <2>2
<1>6. ASSUME NEW i \in 1..Len(t.lits), NEW j \in 1..Len(t.lits),
             i <= k, LitLevel(t, t.lits[j]) <= LitLevel(t, t.lits[i])
      PROVE  j <= k
  <2>1. i \in 1..m /\ i <= m
    BY <1>1, <1>6
  <2>2. j <= m
    BY <1>6, <2>1 DEF Continues
  <2>3. j \in 1..m
    BY <1>1, <2>2
  <2>4. LitLevel(u, u.lits[j]) <= LitLevel(u, u.lits[i])
    BY <1>4, <1>6, <2>1, <2>3 DEF LitLevel
  <2> QED
    BY <1>6, <2>1, <2>3, <2>4 DEF Continues
<1> QED
  BY <1>1, <1>3, <1>5, <1>6 DEF Continues

\* The level and the reason of what the cut leaves stay.
LEMMA SamePast ==
    ASSUME NEW t, NEW u, NEW m, Continues(t, u, m), NEW i \in 1..m, NEW l \in Lits,
           t.lits[i] = l \/ t.lits[i] = -l
    PROVE  /\ LitLevel(u, l) = LitLevel(t, l) /\ ReasonOf(u, l) = ReasonOf(t, l)
           /\ LitLevel(t, l) = LitLevel(t, t.lits[i])
           /\ i \in 1..Len(t.lits) /\ i \in 1..Len(u.lits) /\ u.lits[i] = t.lits[i]
<1>1. VarOf(t.lits[i]) = VarOf(l)
  BY LitFacts
<1>2. u.info[VarOf(l)] = t.info[VarOf(l)] /\ u.lits[i] = t.lits[i]
  BY <1>1 DEF Continues
<1>3. m \in Nat /\ m <= Len(t.lits) /\ Len(t.lits) \in Nat /\ (Len(u.lits) = m \/ Len(u.lits) = m + 1)
  BY TrailParts DEF Continues, WellFormed
<1> QED
  BY <1>1, <1>2, <1>3 DEF LitLevel, ReasonOf

\* What cancel_until leaves of a literal's value.
LEMMA CancelledTruth ==
    ASSUME NEW t, WellFormed(t), NEW n \in Nat, NEW u, u = Cancelled(t, n), NEW l \in Lits
    PROVE  /\ IsTrue(u, l) <=> IsTrue(t, l) /\ LitLevel(t, l) <= n
           /\ IsFalse(u, l) <=> IsFalse(t, l) /\ LitLevel(t, l) <= n
           /\ IsTrue(u, l) \/ IsFalse(u, l) => LitLevel(u, l) = LitLevel(t, l)
<1>1. PICK m \in 0..Len(t.lits) :
          /\ Continues(t, u, m) /\ Len(u.lits) = m
          /\ \A i \in 1..Len(t.lits) : LitLevel(t, t.lits[i]) <= n <=> i <= m
  BY CancelContinues DEF CutAt
<1>2. WellFormed(u) /\ \A i \in 1..m : u.lits[i] = t.lits[i]
  BY <1>1 DEF Continues
<1>3. ASSUME NEW k \in Lits
      PROVE  /\ IsTrue(u, k) <=> IsTrue(t, k) /\ LitLevel(t, k) <= n
             /\ IsTrue(u, k) => LitLevel(u, k) = LitLevel(t, k)
  <2>1. ASSUME IsTrue(u, k)
        PROVE  IsTrue(t, k) /\ LitLevel(t, k) <= n /\ LitLevel(u, k) = LitLevel(t, k)
    <3>1. PICK i \in 1..m : u.lits[i] = k
      BY <1>1, <1>2, <2>1, TruthFacts
    <3>2. i \in 1..Len(t.lits) /\ t.lits[i] = k /\ i <= m
      BY <1>1, <1>2, <3>1
    <3>3. LitLevel(u, k) = LitLevel(t, k)
      BY <1>1, <3>1, <3>2, SamePast
    <3> QED
      BY <1>1, <3>2, <3>3, TruthFacts
  <2>2. ASSUME IsTrue(t, k), LitLevel(t, k) <= n PROVE IsTrue(u, k)
    <3>1. PICK i \in 1..Len(t.lits) : t.lits[i] = k
      BY <2>2, TruthFacts
    <3>2. i \in 1..m
      BY <1>1, <2>2, <3>1
    <3> QED
      BY <1>1, <1>2, <3>1, <3>2, TruthFacts
  <2> QED
    BY <2>1, <2>2
<1>4. -l \in Lits
  BY LitFacts
<1>5. /\ IsFalse(u, l) <=> IsTrue(u, -l)
      /\ IsFalse(t, l) <=> IsTrue(t, -l)
      /\ LitLevel(u, -l) = LitLevel(u, l) /\ LitLevel(t, -l) = LitLevel(t, l)
  BY <1>2, TruthFacts
<1>6. /\ IsTrue(u, -l) <=> IsTrue(t, -l) /\ LitLevel(t, -l) <= n
      /\ IsTrue(u, -l) => LitLevel(u, -l) = LitLevel(t, -l)
  BY <1>3, <1>4
<1>7. /\ IsTrue(u, l) <=> IsTrue(t, l) /\ LitLevel(t, l) <= n
      /\ IsTrue(u, l) => LitLevel(u, l) = LitLevel(t, l)
  BY <1>3
<1> QED
  BY <1>5, <1>6, <1>7

\* The false literals are finitely many.
LEMMA FalseFinite ==
    ASSUME NEW t, WellFormed(t), NEW c, c \subseteq {l \in Lits : IsFalse(t, l)}
    PROVE  IsFiniteSet(c)
<1> DEFINE falses == {l \in Lits : IsFalse(t, l)}
           f == [i \in 1..Len(t.lits) |-> -t.lits[i]]
<1>1. Len(t.lits) \in Nat /\ \A i \in 1..Len(t.lits) : t.lits[i] \in Lits
  BY TrailParts DEF WellFormed
<1>2. ASSUME NEW i \in 1..Len(t.lits) PROVE f[i] \in falses
  <2>1. t.lits[i] \in Lits /\ -t.lits[i] \in Lits /\ -(-t.lits[i]) = t.lits[i]
    BY <1>1, LitFacts
  <2>2. PICK k : k = -t.lits[i] /\ k \in Lits /\ -k = t.lits[i]
    BY <2>1
  <2>3. IsFalse(t, k)
    BY <2>2, TruthFacts
  <2> QED
    BY <2>2, <2>3
<1>3. f \in Seq(falses) /\ Len(f) = Len(t.lits)
  <2>1. f \in [1..Len(t.lits) -> falses]
    BY <1>2
  <2> HIDE DEF f, falses
  <2>2. f \in Seq(falses)
    BY <1>1, <2>1
  <2>3. DOMAIN f = 1..Len(t.lits)
    BY <2>1
  <2> QED
    BY <1>1, <2>2, <2>3, LenProperties
<1>4. ASSUME NEW l \in falses PROVE \E i \in 1..Len(f) : f[i] = l
  <2>1. PICK i \in 1..Len(t.lits) : t.lits[i] = -l
    BY TruthFacts
  <2>2. -(-l) = l
    BY LitFacts
  <2> QED
    BY <1>3, <2>1, <2>2
<1> HIDE DEF f, falses
<1>5. IsFiniteSet(falses)
  BY <1>3, <1>4 DEF IsFiniteSet
<1> QED
  BY <1>5, FS_Subset DEF falses
================================================================================
