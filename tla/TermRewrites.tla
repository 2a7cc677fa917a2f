------------------------------ MODULE TermRewrites ------------------------------
(***************************************************************************)
(* A client of the term constructors, the normalisation of sums under        *)
(* comparisons (bv.rs), and what a term denotes.  Every step builds one      *)
(* term from those built before.                                            *)
(***************************************************************************)
EXTENDS Terms

CONSTANT
    Clients   \* what clients there are, records: the variables and the literals
              \* are sets of terms, the shapes a sequence that gives for every
              \* step the operations it may build, and no term built is wider
              \* than the width

ASSUME TermRewritesAssumption == \A c \in Clients : c.width \in Nat \ {0}

VARIABLES
    client,  \* never changes
    pool,    \* the terms built so far
    made,    \* the last operation: its operands and the term built for it
    step     \* how many operations there were

vars == <<client, pool, made, step>>

Sums == {"add", "sub", "neg"}
Comparisons == {"eq", "ult", "ule", "slt", "sle"}
Overflows == {"uadd_overflow", "sadd_overflow", "usub_overflow", "ssub_overflow",
              "umul_overflow", "smul_overflow", "neg_overflow", "sdiv_overflow"}
Unary == {"not", "neg", "popcount", "clz", "ctz"}
Binary == {"and", "or", "xor", "add", "sub", "mul", "udiv", "urem", "sdiv", "srem", "smod",
           "shl", "lshr", "ashr", "rotate_left", "rotate_right"}
BoolBinary == {"and_b", "or_b", "implies"}

Pairs(kids) == LET t == [kids |-> kids]
               IN  [i \in DOMAIN Selectors(t) |-> <<Selectors(t)[i], Values(t)[i]>>]

Build(op, k, arg) ==
    CASE op = "not" -> bv_not(k[1])
      [] op = "neg" -> bv_neg(k[1])
      [] op = "popcount" -> bv_popcount(k[1])
      [] op = "clz" -> bv_clz(k[1])
      [] op = "ctz" -> bv_ctz(k[1])
      [] op = "and" -> bv_and(k[1], k[2])
      [] op = "or" -> bv_or(k[1], k[2])
      [] op = "xor" -> bv_xor(k[1], k[2])
      [] op = "add" -> bv_add(k[1], k[2])
      [] op = "sub" -> bv_sub(k[1], k[2])
      [] op = "mul" -> bv_mul(k[1], k[2])
      [] op = "udiv" -> bv_udiv(k[1], k[2])
      [] op = "urem" -> bv_urem(k[1], k[2])
      [] op = "sdiv" -> bv_sdiv(k[1], k[2])
      [] op = "srem" -> bv_srem(k[1], k[2])
      [] op = "smod" -> bv_smod(k[1], k[2])
      [] op = "shl" -> bv_shl(k[1], k[2])
      [] op = "lshr" -> bv_lshr(k[1], k[2])
      [] op = "ashr" -> bv_ashr(k[1], k[2])
      [] op = "rotate_left" -> bv_rotate_left_dyn(k[1], k[2])
      [] op = "rotate_right" -> bv_rotate_right_dyn(k[1], k[2])
      [] op = "extract" -> bv_extract(k[1], arg[1], arg[2])
      [] op = "concat" -> bv_concat(k[1], k[2])
      [] op = "zero_extend" -> bv_zero_extend(k[1], arg[1])
      [] op = "sign_extend" -> bv_sign_extend(k[1], arg[1])
      [] op = "ite" -> bv_ite(k[1], k[2], k[3])
      [] op = "select" -> bv_select(Pairs(k), k[1])
      [] op = "not_b" -> bool_not(k[1])
      [] op = "and_b" -> bool_and(k[1], k[2])
      [] op = "or_b" -> bool_or(k[1], k[2])
      [] op = "implies" -> bool_implies(k[1], k[2])
      [] op = "eq" -> bv_eq(k[1], k[2])
      [] op = "ult" -> bv_ult(k[1], k[2])
      [] op = "ule" -> bv_ule(k[1], k[2])
      [] op = "slt" -> bv_slt(k[1], k[2])
      [] op = "sle" -> bv_sle(k[1], k[2])
      [] op \in Overflows -> bv_overflow(op, k[1], k[2])

--------------------------------------------------------------------------------
(***************************************************************************)
(* Normalisation.  A sum is a function from its addends to coefficients      *)
(* modulo 2^w, and a constant.                                              *)
(***************************************************************************)
RECURSIVE norm(_), flatten_add(_, _, _)

NoSum == [occs |-> <<>>, acc |-> 0]

Added(s, t, c, m) ==
    LET old == IF t \in DOMAIN s.occs THEN s.occs[t] ELSE 0
    IN  [s EXCEPT !.occs = [u \in DOMAIN s.occs \cup {t} |->
                               IF u = t THEN (old + c) % m ELSE s.occs[u]]]

\* ~x is -x - 1.
Complemented(s, c, m) == [s EXCEPT !.acc = (@ - c) % m]

flatten_add(t, c, s) ==
    LET m == Size(t.w)
        a == First(t)
        b == Second(t)
    IN  IF c % m = 0 THEN s
        ELSE IF HasVal(t) THEN [s EXCEPT !.acc = (@ + c * Val(t)) % m]
        ELSE IF t.op = "add" THEN flatten_add(b, c, flatten_add(a, c, s))
        ELSE IF t.op = "sub" THEN flatten_add(b, -c, flatten_add(a, c, s))
        ELSE IF t.op = "neg" THEN flatten_add(a, -c, s)
        ELSE IF t.op = "not" THEN flatten_add(a, -c, Complemented(s, c, m))
        ELSE IF ByVal(t, "mul") THEN flatten_add(a, c * Val(b), s)
        ELSE IF t.op = "mul" /\ HasVal(a) THEN flatten_add(b, c * Val(a), s)
        ELSE Added(s, norm(t), c, m)

Scaled(t, c) ==
    IF c = 1 THEN t ELSE IF c = mask(t.w) THEN bv_neg(t) ELSE bv_mul(t, bv_const(c, t.w))

\* The addends of a sum in turn, and its constant last.
SumOf(scaled, acc, w) ==
    IF scaled = <<>> THEN bv_const(acc, w)
    ELSE FoldLeft(bv_add, Head(scaled), Tail(scaled) \o (IF acc = 0 THEN <<>> ELSE <<bv_const(acc, w)>>))

rebuild_add(occs, acc, w) ==
    LET live == SetToSeq({t \in DOMAIN occs : occs[t] # 0})
    IN  SumOf([i \in DOMAIN live |-> Scaled(live[i], occs[live[i]])], acc, w)

Rebuilt(s, w) == rebuild_add(s.occs, s.acc, w)

canon_add(t) == IF t.w > WORD THEN t ELSE Rebuilt(flatten_add(t, 1, NoSum), t.w)

\* Everything moves to one side; the addends with a negative coefficient move
\* back, but the least number is its own negation and stays.
Sides(s, w) ==
    LET moves(t) == s.occs[t] > Size(w - 1)
        left == [t \in {u \in DOMAIN s.occs : ~moves(u)} |-> s.occs[t]]
        right == [t \in {u \in DOMAIN s.occs : moves(u)} |-> Size(w) - s.occs[t]]
    IN  <<[occs |-> left, acc |-> 0], [occs |-> right, acc |-> (-s.acc) % Size(w)]>>

norm_eq_add(a, b) ==
    LET sides == IF a.w > WORD \/ {a.op, b.op} \cap Sums = {} THEN <<a, b>>
                 ELSE LET ss == Sides(flatten_add(b, -1, flatten_add(a, 1, NoSum)), a.w)
                      IN  [i \in 1..2 |-> Rebuilt(ss[i], a.w)]
    IN  bv_eq(sides[1], sides[2])

norm(t) ==
    LET ks == [i \in DOMAIN t.kids |-> norm(t.kids[i])]
    IN  IF t.kids = <<>> THEN t
        ELSE IF t.op \in Sums THEN canon_add(t)
        ELSE IF t.op = "eq" THEN norm_eq_add(ks[1], ks[2])
        ELSE IF t.op \in Comparisons \/ ks # t.kids THEN Build(t.op, ks, t.arg)
        ELSE t

--------------------------------------------------------------------------------
(***************************************************************************)
(* The client.                                                              *)
(***************************************************************************)
Bvs == {t \in pool : t.w > 0}
Bools == {t \in pool : t.w = 0}

\* The operands an operation can be given.
Operands(op) ==
    CASE op \in Unary -> {<<x>> : x \in Bvs}
      [] op \in Binary \cup Comparisons \cup Overflows ->
             {k \in Bvs \X Bvs : k[1].w = k[2].w}
      [] op = "concat" -> {k \in Bvs \X Bvs : k[1].w + k[2].w <= client.width}
      [] op \in {"extract", "zero_extend", "sign_extend"} -> {<<x>> : x \in Bvs}
      [] op = "ite" -> {k \in Bools \X Bvs \X Bvs : k[2].w = k[3].w}
      [] op = "select" ->
             {k \in Bvs \X Bools \X Bools \X Bvs \X Bvs : k[1].w = k[4].w /\ k[1].w = k[5].w}
      [] op = "not_b" -> {<<x>> : x \in Bools}
      [] op \in BoolBinary -> Bools \X Bools

Arguments(op, k) ==
    CASE op = "extract" -> {<<hi, lo>> \in (0..(k[1].w - 1)) \X (0..(k[1].w - 1)) : lo <= hi}
      [] op \in {"zero_extend", "sign_extend"} -> {<<n>> : n \in 1..(client.width - k[1].w)}
      [] OTHER -> {<<>>}

Init ==
    /\ client \in Clients
    /\ pool = client.variables \cup client.literals
    /\ made = [op |-> "none", kids |-> <<>>, arg |-> <<>>, term |-> True]
    /\ step = 0

\* The next term has the last one among its operands.
Make ==
    /\ step < Len(client.shapes)
    /\ step' = step + 1
    /\ UNCHANGED client
    /\ \E op \in client.shapes[step + 1] : \E k \in Operands(op) : \E arg \in Arguments(op, k) :
          /\ step = 0 \/ made.term \in ToSet(k)
          /\ made' = [op |-> op, kids |-> k, arg |-> arg, term |-> Build(op, k, arg)]
          /\ pool' = pool \cup {made'.term}

Next == Make

Spec == Init /\ [][Next]_vars

--------------------------------------------------------------------------------
(***************************************************************************)
(* What an operation denotes, on numbers; a truth value is 0 or 1.           *)
(***************************************************************************)
Bit(b) == IF b THEN 1 ELSE 0

\* SMT-LIB's signed division, by cases on the signs.
SignedBy(f(_, _), a, b, m) == LET q == f(Abs(a), Abs(b)) IN IF Away(a, b) THEN (-q) % m ELSE q

Meaning(op, k, v, arg) ==
    LET w == k[1].w
        m == Size(w)
        a == v[1]
        b == v[2]
        x == sign_extend_to_i128(a, w)
        y == sign_extend_to_i128(b, w)
        n == Min({b, w})
        fits(i) == i \in -Size(w - 1)..(Size(w - 1) - 1)
        chosen == {i \in 1..((Len(v) - 1) \div 2) : v[1 + i] = 1}
    IN  CASE op = "not" -> m - 1 - a
          [] op = "neg" -> (-a) % m
          [] op = "popcount" -> Cardinality(BitsOf(a, w)) % m
          [] op = "clz" -> (w - 1 - Max(BitsOf(a, w) \cup {-1})) % m
          [] op = "ctz" -> Min(BitsOf(a, w) \cup {w}) % m
          [] op = "and" -> Number(BitsOf(a, w) \cap BitsOf(b, w))
          [] op = "or" -> Number(BitsOf(a, w) \cup BitsOf(b, w))
          [] op = "xor" -> Number(Differing(BitsOf(a, w), BitsOf(b, w)))
          [] op = "add" -> (a + b) % m
          [] op = "sub" -> (a - b) % m
          [] op = "mul" -> (a * b) % m
          [] op = "udiv" -> IF b = 0 THEN m - 1 ELSE a \div b
          [] op = "urem" -> IF b = 0 THEN a ELSE a % b
          [] op = "sdiv" -> SignedBy(LAMBDA p, q : IF q = 0 THEN m - 1 ELSE p \div q, x, y, m)
          [] op = "srem" -> IF b = 0 THEN a ELSE IF x < 0 THEN (-(Abs(x) % Abs(y))) % m ELSE x % Abs(y)
          [] op = "smod" ->
                 LET r == IF b = 0 THEN 0 ELSE x % Abs(y)
                 IN  IF b = 0 THEN a ELSE IF r = 0 \/ y > 0 THEN r ELSE (r + y) % m
          [] op = "shl" -> (a * 2^n) % m
          [] op = "lshr" -> a \div 2^n
          [] op = "ashr" -> (x \div 2^n) % m
          [] op = "rotate_left" -> Number({(i + b) % w : i \in BitsOf(a, w)})
          [] op = "rotate_right" -> Number({(i - b) % w : i \in BitsOf(a, w)})
          [] op = "extract" -> (a \div 2^arg[2]) % 2^(arg[1] - arg[2] + 1)
          [] op = "concat" -> a * 2^(k[2].w) + b
          [] op = "zero_extend" -> a
          [] op = "sign_extend" -> x % Size(w + arg[1])
          [] op = "ite" -> IF a = 1 THEN b ELSE v[3]
          [] op = "select" -> IF chosen = {} THEN a ELSE v[1 + (Len(v) - 1) \div 2 + Min(chosen)]
          [] op = "not_b" -> 1 - a
          [] op = "and_b" -> a * b
          [] op = "or_b" -> Max({a, b})
          [] op = "implies" -> Bit(a <= b)
          [] op = "eq" -> Bit(a = b)
          [] op \in {"ult", "usub_overflow"} -> Bit(a < b)
          [] op = "ule" -> Bit(a <= b)
          [] op = "slt" -> Bit(x < y)
          [] op = "sle" -> Bit(x <= y)
          [] op = "uadd_overflow" -> Bit(a + b >= m)
          [] op = "umul_overflow" -> Bit(a * b >= m)
          [] op = "sadd_overflow" -> Bit(~fits(x + y))
          [] op = "ssub_overflow" -> Bit(~fits(x - y))
          [] op = "smul_overflow" -> Bit(~fits(x * y))
          [] op = "neg_overflow" -> Bit(~fits(-x))
          [] op = "sdiv_overflow" -> Bit(y = -1 /\ ~fits(-x))

RECURSIVE Value(_, _)
Value(t, env) ==
    CASE t.op = "const" -> t.arg[1]
      [] t.op = "true" -> 1
      [] t.op = "false" -> 0
      [] t.op \in {"var", "bool_var"} -> env[t]
      [] OTHER -> Meaning(t.op, t.kids, [i \in DOMAIN t.kids |-> Value(t.kids[i], env)], t.arg)

Range2(t) == 0..(IF t.w = 0 THEN 1 ELSE Size(t.w) - 1)
EnvironmentsOf ==
    [c \in Clients |-> {e \in [c.variables -> 0..(Size(c.width) - 1)] :
                           \A t \in c.variables : e[t] \in Range2(t)}]
Environments == EnvironmentsOf[client]

\* The caller of bv_select promises that no two different selectors hold.
Exclusive(k, env) ==
    \A p, q \in ToSet(Selectors([kids |-> k])) :
        Value(p, env) = 1 /\ Value(q, env) = 1 => p = q

MeaningIn(env) ==
    Meaning(made.op, made.kids, [i \in DOMAIN made.kids |-> Value(made.kids[i], env)], made.arg)

Built == step > 0

--------------------------------------------------------------------------------
\* Whatever rules a constructor applies, the term it returns denotes the
\* operation on the operands.
Denotes ==
    Built => \A env \in Environments :
        \/ made.op = "select" /\ ~Exclusive(made.kids, env)
        \/ Value(made.term, env) = MeaningIn(env)

\* A bit that a term is known to have is the bit of its value, always.
KnownBitsHold ==
    \A env \in Environments : made.term.w \in 1..WORD =>
        LET bits == BitsOf(Value(made.term, env), made.term.w)
        IN  made.term.known.ones \subseteq bits /\ made.term.known.zeros \cap bits = {}

\* Normalisation keeps what a term denotes.
SameValue(t, u) == t = u \/ \A env \in Environments : Value(t, env) = Value(u, env)

NormalForm == SameValue(norm(made.term), made.term)
================================================================================
