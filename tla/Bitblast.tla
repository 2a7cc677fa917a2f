-------------------------------- MODULE Bitblast --------------------------------
(***************************************************************************)
(* The circuits that bitblast_bv and bitblast_bool (smt.rs) build for the   *)
(* bit-vector operations.  A vector is the sequence of its bits, the least  *)
(* significant first, and a gate is taken at the value it has under one     *)
(* assignment of the inputs, so a circuit is a function of two operands.    *)
(***************************************************************************)
EXTENDS Integers, Sequences, SequencesExt

CONSTANTS
    Widths,       \* the widths of the two operands
    CountWidths,  \* the widths that are counted as well
    LIMB          \* the bits of a machine word; a literal of two words is inline

VARIABLES
    a, b,    \* the operands
    op,      \* the operation whose circuit was built last
    out      \* what it computes

vars == <<a, b, op, out>>

Bits(w) == [1..w -> BOOLEAN]
Zeros(w) == [i \in 1..w |-> FALSE]
Ones(w) == [i \in 1..w |-> TRUE]

\* The same sequence, with every entry evaluated.
Wired(x) == x \o <<>>

Inverted(x) == Wired([i \in DOMAIN x |-> ~x[i]])
Upto(n) == [i \in 1..n |-> i]

--------------------------------------------------------------------------------
(***************************************************************************)
(* Adders.                                                                  *)
(***************************************************************************)
Xor(x, y) == x # y

FullAdder(x, y, c) ==
    [sum |-> Xor(Xor(x, y), c), carry |-> (x /\ y) \/ (c /\ Xor(x, y))]

ripple_carry_add(x, y, cin) ==
    FoldLeft(LAMBDA s, i : LET f == FullAdder(x[i], y[i], s.carry)
                           IN  [sum |-> Append(s.sum, f.sum), carry |-> f.carry],
             [sum |-> <<>>, carry |-> cin], Upto(Len(x)))

Plus(x, y) == ripple_carry_add(x, y, FALSE).sum

Minus(x, y) == ripple_carry_add(x, Inverted(y), TRUE).sum

mk_neg(x) == ripple_carry_add(Zeros(Len(x)), Inverted(x), TRUE).sum

mux_vec(s, t, e) == IF s THEN t ELSE e

Sign(x) == x[Len(x)]

mk_abs(x) == mux_vec(Sign(x), mk_neg(x), x)

mk_all_zero(x) == \A i \in DOMAIN x : ~x[i]
mk_any_set(x) == \E i \in DOMAIN x : x[i]

--------------------------------------------------------------------------------
(***************************************************************************)
(* Columns of bits, compressed three to two until a ripple adder can add    *)
(* what is left.                                                            *)
(***************************************************************************)
Triples(col) == Len(col) \div 3

Triple(col, i) == FullAdder(col[3 * i - 2], col[3 * i - 1], col[3 * i])

Sums(col) == [i \in 1..Triples(col) |-> Triple(col, i).sum]
Carries(col) == [i \in 1..Triples(col) |-> Triple(col, i).carry]
Left(col) == SubSeq(col, 3 * Triples(col) + 1, Len(col))

\* One round over n columns; a carry out of the last one is lost.
Round(cols, n) ==
    Wired([k \in 1..n |->
        (IF k > 1 THEN Carries(cols[k - 1]) ELSE <<>>)
        \o (IF k <= Len(cols) THEN Sums(cols[k]) \o Left(cols[k]) ELSE <<>>)])

Row(cols, r) == Wired([k \in DOMAIN cols |-> Len(cols[k]) >= r /\ cols[k][r]])

Tall(cols) == \E k \in DOMAIN cols : Len(cols[k]) > 2

\* mk_popcount compresses at least once, a column more if there is a carry.
Grown(cols) == Round(cols, Len(cols) + (IF Carries(Last(cols)) = <<>> THEN 0 ELSE 1))

RECURSIVE Counted(_)
Counted(cols) ==
    LET next == Grown(cols)
    IN  IF \E k \in 1..Len(cols) : Len(next[k]) > 2 THEN Counted(next) ELSE next

Resized(x, w) == [i \in 1..w |-> i <= Len(x) /\ x[i]]

mk_popcount(x, w) ==
    IF Len(x) = 1 THEN Resized(x, w)
    ELSE LET cols == Counted(<<x>>)
             total == ripple_carry_add(Row(cols, 1), Row(cols, 2), FALSE)
         IN  Resized(Append(total.sum, total.carry), w)

RECURSIVE OrFolded(_, _)
OrFolded(x, k) ==
    IF k >= Len(x) THEN x
    ELSE OrFolded(Wired([i \in DOMAIN x |-> x[i] \/ (i + k <= Len(x) /\ x[i + k])]), 2 * k)

mk_clz(x, w) ==
    IF Len(x) = 1 THEN Resized(Inverted(x), w) ELSE mk_popcount(Inverted(OrFolded(x, 1)), w)

mk_ctz(x, w) ==
    IF Len(x) = 1 THEN Resized(Inverted(x), w)
    ELSE LET less == Plus(x, Ones(Len(x)))
         IN  mk_popcount([i \in DOMAIN x |-> ~x[i] /\ less[i]], w)

--------------------------------------------------------------------------------
(***************************************************************************)
(* Multiplication.                                                          *)
(***************************************************************************)
\* The partial products of column j.  One with an operand bit that is the
\* constant false, as the sets kx and ky know, is left out.
Products(x, y, kx, ky, j) ==
    LET rows == SelectSeq(Upto(j), LAMBDA i :
                    ~(i \in ky /\ ~y[i]) /\ ~((j - i + 1) \in kx /\ ~x[j - i + 1]))
    IN  Wired([r \in DOMAIN rows |-> x[j - rows[r] + 1] /\ y[rows[r]]])

RECURSIVE Reduced(_)
Reduced(cols) == IF Tall(cols) THEN Reduced(Round(cols, Len(cols))) ELSE cols

mk_mul(x, y, kx, ky) ==
    LET cols == Reduced(Wired([j \in DOMAIN x |-> Products(x, y, kx, ky, j)]))
    IN  Plus(Row(cols, 1), Row(cols, 2))

Widened(x, bit) == x \o [i \in DOMAIN x |-> bit]

UpperHalf(x) == SubSeq(x, Len(x) \div 2 + 1, Len(x))
LowerHalf(x) == SubSeq(x, 1, Len(x) \div 2)

mk_umul_hi(x, y) ==
    LET pad == (Len(x) + 1)..(2 * Len(x))
    IN  UpperHalf(mk_mul(Widened(x, FALSE), Widened(y, FALSE), pad, pad))

mk_smul_full(x, y) == mk_mul(Widened(x, Sign(x)), Widened(y, Sign(y)), {}, {})

\* The digits of c in non-adjacent form below the limit: <<sign, position>>.
RECURSIVE Naf(_, _, _)
Naf(c, pos, limit) ==
    IF c = 0 THEN <<>>
    ELSE LET digit == IF c % 4 = 1 THEN 1 ELSE -1
             rest == (IF c % 2 = 0 THEN c ELSE (c - digit) % 2^(2 * LIMB)) \div 2
         IN  (IF c % 2 = 1 /\ pos < limit THEN <<<<digit, pos>>>> ELSE <<>>)
             \o Naf(rest, pos + 1, limit)

mk_shl_const(x, amt) == Wired([i \in DOMAIN x |-> i > amt /\ x[i - amt]])

\* One adder for each digit; only the low word of the constant is looked at.
mk_mul_const(x, c) ==
    LET n == Len(x)
        low == c % 2^(IF n < LIMB THEN n ELSE LIMB)
    IN  FoldLeft(LAMBDA r, d : IF d[1] > 0 THEN Plus(r, mk_shl_const(x, d[2]))
                               ELSE Minus(r, mk_shl_const(x, d[2])),
                 Zeros(n), Naf(low, 0, n))

--------------------------------------------------------------------------------
(***************************************************************************)
(* Division: the divisor is subtracted from a remainder that is not         *)
(* negative and added to a negative one; two bits more than the operands'.  *)
(***************************************************************************)
\* A bug Slack must not have: the doubled remainder overflows.
SlackOne == 1

Slack == 2

DivStep(x, y) ==
    LET ext == Len(x) + Slack
        wide == y \o Zeros(Slack)
        Step(s, i) ==
            LET r == <<x[i]>> \o SubSeq(s.r, 1, ext - 1)
                minus == ~Sign(r)
                new == ripple_carry_add(r, Wired([k \in 1..ext |-> Xor(wide[k], minus)]), minus).sum
            IN  [r |-> new, q |-> <<~Sign(new)>> \o s.q]
        end == FoldLeft(Step, [r |-> Zeros(ext), q |-> <<>>], Reverse(Upto(Len(x))))
    IN  [end EXCEPT !.r = mux_vec(Sign(@), Plus(@, wide), @)]

mk_udivmod(x, y) ==
    [quotient |-> DivStep(x, y).q, remainder |-> SubSeq(DivStep(x, y).r, 1, Len(x))]

udiv(x, y) == mux_vec(mk_all_zero(y), Ones(Len(x)), mk_udivmod(x, y).quotient)

urem(x, y) == mux_vec(mk_all_zero(y), x, mk_udivmod(x, y).remainder)

One(w) == [i \in 1..w |-> i = 1]

mk_sdiv(x, y) ==
    LET q == mk_udivmod(mk_abs(x), mk_abs(y)).quotient
        by_zero == mux_vec(Sign(x), One(Len(x)), Ones(Len(x)))
    IN  mux_vec(mk_all_zero(y), by_zero, mux_vec(Xor(Sign(x), Sign(y)), mk_neg(q), q))

\* The remainder with the sign of the dividend.
Signed(x, y) ==
    LET r == mk_udivmod(mk_abs(x), mk_abs(y)).remainder IN mux_vec(Sign(x), mk_neg(r), r)

mk_srem(x, y) == mux_vec(mk_all_zero(y), x, Signed(x, y))

mk_smod(x, y) ==
    LET r == Signed(x, y)
        adjusted == mux_vec(Xor(Sign(x), Sign(y)), Plus(r, y), r)
    IN  mux_vec(mk_all_zero(y), x, mux_vec(mk_all_zero(r), Zeros(Len(x)), adjusted))

--------------------------------------------------------------------------------
(***************************************************************************)
(* Shifts: one layer of muxes for each bit of the amount that can matter.   *)
(***************************************************************************)
ceil_log2(n) == CHOOSE k \in 0..n : 2^k >= n /\ (k = 0 \/ 2^(k - 1) < n)

Shifted(x, amt, left, fill) ==
    Wired([i \in DOMAIN x |->
        LET from == IF left THEN i - amt ELSE i + amt
        IN  IF from \in DOMAIN x THEN x[from] ELSE fill])

maybe_fill_on_overflow(cur, amt, log_n, fill) ==
    IF log_n >= Len(amt) THEN cur
    ELSE mux_vec(mk_any_set(SubSeq(amt, log_n + 1, Len(amt))), [i \in DOMAIN cur |-> fill], cur)

Barrel(x, amt, left, fill) ==
    LET n == Len(x)
        layer(cur, i) ==
            IF 2^(i - 1) >= n THEN cur
            ELSE mux_vec(amt[i], Shifted(cur, 2^(i - 1), left, fill), cur)
    IN  maybe_fill_on_overflow(FoldLeft(layer, x, Upto(ceil_log2(n))), amt, ceil_log2(n), fill)

mk_shl(x, amt) == Barrel(x, amt, TRUE, FALSE)
mk_shr(x, amt, fill) == Barrel(x, amt, FALSE, fill)

mk_shr_const(x, amt, fill) ==
    [i \in DOMAIN x |-> IF i + amt <= Len(x) THEN x[i + amt] ELSE fill]

RotatedBy(x, amt, left) ==
    Wired([i \in DOMAIN x |-> x[((i - 1 + (IF left THEN -amt ELSE amt)) % Len(x)) + 1]])

\* The value a vector stands for.
RECURSIVE Val(_)
Val(x) == IF x = <<>> THEN 0 ELSE (IF Head(x) THEN 1 ELSE 0) + 2 * Val(Tail(x))

OfVal(v, w) == [i \in 1..w |-> (v \div 2^(i - 1)) % 2 = 1]

\* A width that is a power of two rotates bit by bit of the amount; another
\* one by two shifts.
build_rotate_dyn_expansion(x, amt, left) ==
    LET w == Len(x)
        n == urem(amt, OfVal(w, w))
        rest == Minus(OfVal(w, w), n)
        power == 2^ceil_log2(w) = w
        layer(cur, i) == mux_vec(amt[i], RotatedBy(cur, 2^(i - 1), left), cur)
        high == IF left THEN mk_shl(x, n) ELSE mk_shr(x, n, FALSE)
        low == IF left THEN mk_shr(x, rest, FALSE) ELSE mk_shl(x, rest)
    IN  IF power THEN FoldLeft(layer, x, Upto(ceil_log2(w)))
        ELSE [i \in DOMAIN x |-> high[i] \/ low[i]]

--------------------------------------------------------------------------------
(***************************************************************************)
(* Comparison and overflow.                                                 *)
(***************************************************************************)
mk_ult(x, y) == ~ripple_carry_add(x, Inverted(y), TRUE).carry

flip_msb(x) == [x EXCEPT ![Len(x)] = ~@]

sadd_overflow(x, y) == ~Xor(Sign(x), Sign(y)) /\ Xor(Sign(x), Sign(Plus(x, y)))
ssub_overflow(x, y) == Xor(Sign(x), Sign(y)) /\ Xor(Sign(x), Sign(Minus(x, y)))

umul_overflow(x, y) == mk_any_set(mk_umul_hi(x, y))

smul_overflow(x, y) ==
    LET p == mk_smul_full(x, y)
    IN  mk_any_set([i \in DOMAIN x |-> Xor(UpperHalf(p)[i], Sign(LowerHalf(p)))])

IsMin(x) == Sign(x) /\ \A i \in 1..(Len(x) - 1) : ~x[i]

--------------------------------------------------------------------------------
(***************************************************************************)
(* bitblast_bv and bitblast_bool.  A literal operand is a case of its own:  *)
(* its bits are constants, and some circuits look at its value.             *)
(***************************************************************************)
Blasted(o) ==
    CASE o = "not" -> Inverted(a)
      [] o = "and" -> [i \in DOMAIN a |-> a[i] /\ b[i]]
      [] o = "or" -> [i \in DOMAIN a |-> a[i] \/ b[i]]
      [] o = "xor" -> [i \in DOMAIN a |-> Xor(a[i], b[i])]
      [] o = "add" -> Plus(a, b)
      [] o = "sub" -> Minus(a, b)
      [] o = "neg" -> mk_neg(a)
      [] o = "udiv" -> udiv(a, b)
      [] o = "urem" -> urem(a, b)
      [] o = "sdiv" -> mk_sdiv(a, b)
      [] o = "srem" -> mk_srem(a, b)
      [] o = "smod" -> mk_smod(a, b)
      [] o = "shl" -> mk_shl(a, b)
      [] o = "lshr" -> mk_shr(a, b, FALSE)
      [] o = "ashr" -> mk_shr(a, b, Sign(a))
      [] o = "shl_const" -> mk_shl_const(a, Val(b))
      [] o = "lshr_const" -> mk_shr_const(a, Val(b), FALSE)
      [] o = "ashr_const" -> mk_shr_const(a, Val(b), Sign(a))
      [] o = "rotate_left" -> build_rotate_dyn_expansion(a, b, TRUE)
      [] o = "rotate_right" -> build_rotate_dyn_expansion(a, b, FALSE)
      [] o = "concat" -> b \o a
      [] o = "zero_extend" -> a \o Zeros(Len(b))
      [] o = "sign_extend" -> a \o [i \in DOMAIN b |-> Sign(a)]

Compared(o) ==
    CASE o = "eq" -> \A i \in DOMAIN a : ~Xor(a[i], b[i])
      [] o = "ult" -> mk_ult(a, b)
      [] o = "ule" -> ~mk_ult(b, a)
      [] o = "slt" -> mk_ult(flip_msb(a), flip_msb(b))
      [] o = "sle" -> ~mk_ult(flip_msb(b), flip_msb(a))
      [] o = "uadd_overflow" -> ripple_carry_add(a, b, FALSE).carry
      [] o = "sadd_overflow" -> sadd_overflow(a, b)
      [] o = "usub_overflow" -> mk_ult(a, b)
      [] o = "ssub_overflow" -> ssub_overflow(a, b)
      [] o = "umul_overflow" -> umul_overflow(a, b)
      [] o = "smul_overflow" -> smul_overflow(a, b)
      [] o = "neg_overflow" -> IsMin(a)
      [] o = "sdiv_overflow" -> IsMin(a) /\ \A i \in DOMAIN b : b[i]

Counting(o) ==
    CASE o = "popcount" -> mk_popcount(a, Len(a))
      [] o = "clz" -> mk_clz(a, Len(a))
      [] o = "ctz" -> mk_ctz(a, Len(a))

Inline(w) == w <= 2 * LIMB

\* What const_bv_value reads of a literal: a wide one has no inline value.
const_bv_value(x) == IF Inline(Len(x)) THEN Val(x) ELSE 0

Arithmetic == {"not", "and", "or", "xor", "add", "sub", "neg"}
Division == {"udiv", "urem", "sdiv", "srem", "smod"}
Shifting == {"shl", "lshr", "ashr", "shl_const", "lshr_const", "ashr_const",
             "rotate_left", "rotate_right"}
Wiring == {"concat", "zero_extend", "sign_extend"}
Comparing == {"eq", "ult", "ule", "slt", "sle"}
Overflowing == {"uadd_overflow", "sadd_overflow", "usub_overflow", "ssub_overflow",
                "umul_overflow", "smul_overflow", "neg_overflow", "sdiv_overflow"}

Init ==
    /\ \/ \E w \in Widths : a \in Bits(w) /\ b \in Bits(w)
       \/ \E w \in CountWidths : a \in Bits(w) /\ b = <<>>
    /\ op = "none" /\ out = <<>>

Fresh == op = "none" /\ UNCHANGED <<a, b>>

BlastBv ==
    /\ Fresh /\ b # <<>>
    /\ op' \in Arithmetic \cup Division \cup Shifting \cup Wiring
    /\ Len(a) = 1 => op' \notin {"rotate_left", "rotate_right"}
    /\ out' = Blasted(op')

BlastBool ==
    /\ Fresh /\ b # <<>>
    /\ op' \in Comparing \cup Overflowing
    /\ out' = Compared(op')

BlastCount ==
    /\ Fresh
    /\ op' \in {"popcount", "clz", "ctz"}
    /\ out' = Counting(op')

\* Any bits of the operands may be constants.
BlastMul ==
    /\ Fresh /\ b # <<>>
    /\ op' = "mul"
    /\ \E ka, kb \in SUBSET DOMAIN a : out' = mk_mul(a, b, ka, kb)

BlastMulConst ==
    /\ Fresh /\ b # <<>>
    /\ op' = "mul_const"
    /\ out' = mk_mul_const(a, const_bv_value(b))

Next == BlastBv \/ BlastBool \/ BlastCount \/ BlastMul \/ BlastMulConst

Spec == Init /\ [][Next]_vars

--------------------------------------------------------------------------------
(***************************************************************************)
(* What the operations mean, on the integers.                               *)
(***************************************************************************)
Size == 2^Len(a)
A == Val(a)
B == Val(b)
SVal(x) == Val(x) - (IF Sign(x) THEN 2^Len(x) ELSE 0)
Magnitude(v) == IF v < 0 THEN -v ELSE v
Out == Val(out)

\* Division towards zero.
Quotient(v, w) ==
    LET q == Magnitude(v) \div Magnitude(w) IN IF (v < 0) # (w < 0) THEN -q ELSE q

Remainder(v, w) == v - w * Quotient(v, w)

\* The circuits compute the ring operations modulo 2^w, whichever bits are
\* known to be constants.
RingIsRight ==
    /\ op = "add" => Out = (A + B) % Size
    /\ op = "sub" => Out = (A - B) % Size
    /\ op = "neg" => Out = (-A) % Size
    /\ op = "mul" => Out = (A * B) % Size
    /\ op = "not" => Out = Size - 1 - A

\* Multiplication by a literal is multiplication.
MulConstIsRight == op = "mul_const" => Out = (A * B) % Size

\* Division rounds towards zero, the remainder takes the sign of the dividend,
\* the modulus that of the divisor, and division by zero is SMT-LIB's.
DivisionIsRight ==
    LET x == SVal(a)
        y == SVal(b)
    IN  /\ op = "udiv" => Out = IF B = 0 THEN Size - 1 ELSE A \div B
        /\ op = "urem" => Out = IF B = 0 THEN A ELSE A % B
        /\ op = "sdiv" => Out = (IF y = 0 THEN (IF x < 0 THEN 1 ELSE -1) ELSE Quotient(x, y)) % Size
        /\ op = "srem" => Out = (IF y = 0 THEN x ELSE Remainder(x, y)) % Size
        /\ op = "smod" => IF y = 0 THEN Out = A
                          ELSE /\ (SVal(out) - x) % Magnitude(y) = 0
                               /\ Magnitude(SVal(out)) < Magnitude(y)
                               /\ SVal(out) # 0 => (SVal(out) < 0) = (y < 0)

\* A shift by the width or more leaves zeros or signs, a literal amount is no
\* different from another one, and a rotation is by the amount modulo the width.
ShiftsAreRight ==
    LET w == Len(a)
        left(n) == (A * 2^n) % Size
        rotation(n) == (left(n) + A \div 2^(w - n)) % Size
    IN  /\ op \in {"shl", "shl_const"} => Out = left(B)
        /\ op \in {"lshr", "lshr_const"} => Out = A \div 2^B
        /\ op \in {"ashr", "ashr_const"} => Out = (SVal(a) \div 2^B) % Size
        /\ op = "rotate_left" => Out = rotation(B % w)
        /\ op = "rotate_right" => Out = rotation((w - (B % w)) % w)

\* The column compression always ends in two rows and counts every bit once.
CountsAreRight ==
    LET ones == {i \in DOMAIN a : a[i]}
        ends(bits, w) == Out = IF ones = {} THEN w ELSE bits
    IN  /\ op = "popcount" => Out = Cardinality(ones) % Size
        /\ op = "clz" => ends(Len(a) - Max(ones), Len(a) % Size)
        /\ op = "ctz" => ends(Min(ones) - 1, Len(a) % Size)

\* Orders and overflow predicates agree with the integers.
PredicatesAreRight ==
    LET x == SVal(a)
        y == SVal(b)
        fits(v) == v \in -(Size \div 2)..(Size \div 2 - 1)
    IN  /\ op = "eq" => out = (A = B)
        /\ op \in {"ult", "usub_overflow"} => out = (A < B)
        /\ op = "ule" => out = (A <= B)
        /\ op = "slt" => out = (x < y)
        /\ op = "sle" => out = (x <= y)
        /\ op = "uadd_overflow" => out = (A + B >= Size)
        /\ op = "umul_overflow" => out = (A * B >= Size)
        /\ op = "sadd_overflow" => out = ~fits(x + y)
        /\ op = "ssub_overflow" => out = ~fits(x - y)
        /\ op = "smul_overflow" => out = ~fits(x * y)
        /\ op = "neg_overflow" => out = ~fits(-x)
        /\ op = "sdiv_overflow" => out = (y # 0 /\ ~fits(Quotient(x, y)))
================================================================================
