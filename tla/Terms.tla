--------------------------------- MODULE Terms ---------------------------------
(***************************************************************************)
(* The term constructors of BvContext (bv.rs).  Each returns a term that     *)
(* denotes its operation on the operands, after the rewrite rules it tries   *)
(* in order.                                                                 *)
(***************************************************************************)
EXTENDS BvNodes

CONSTANT
    PUSHDOWN     \* whether an equality with a literal is pushed through an ite

RECURSIVE bv_not(_), bv_and(_, _), bv_or(_, _), bv_xor(_, _), bv_add(_, _), bv_mul(_, _)
RECURSIVE bv_extract(_, _, _), bv_concat(_, _), bv_zero_extend(_, _), bv_sign_extend(_, _)
RECURSIVE bv_shl(_, _), bv_lshr(_, _), bv_ite(_, _, _), bool_and(_, _), bv_eq(_, _)

Both(x, y) == HasVal(x) /\ HasVal(y)
First(t) == t.kids[1]
Second(t) == t.kids[2]

\* The right operand of t, an operation with that operator, is a literal.
ByVal(t, op) == t.op = op /\ HasVal(Second(t))

Bitwise2(f(_, _), x, y) == Number(f(BitsOf(Val(x), x.w), BitsOf(Val(y), y.w)))
Common(s, t) == s \cap t
Joined(s, t) == s \cup t
Differing(s, t) == (s \ t) \cup (t \ s)

--------------------------------------------------------------------------------
(***************************************************************************)
(* Bitwise operations.                                                      *)
(***************************************************************************)
bv_not(x) ==
    IF HasVal(x) THEN bv_const(mask(x.w) - Val(x), x.w)
    ELSE IF x.op = "not" THEN First(x)
    ELSE IF x.op = "ite" /\ Both(Second(x), x.kids[3])
    THEN bv_ite(First(x), bv_not(Second(x)), bv_not(x.kids[3]))
    ELSE push_bv("not", x.w, <<x>>, <<>>)

bv_and(x0, y0) ==
    LET p == canonicalize_commutative(x0, y0)
        x == p[1]
        y == p[2]
        w == x.w
    IN  IF x = y THEN x
        ELSE IF Both(x, y) THEN bv_const(Bitwise2(Common, x, y), w)
        ELSE IF HasVal(y) /\ Val(y) = 0 THEN bv_const(0, w)
        ELSE IF HasVal(y) /\ Val(y) = mask(w) THEN x
        ELSE IF HasVal(y) /\ ByVal(x, "and")
        THEN bv_and(First(x), bv_const(Bitwise2(Common, Second(x), y), w))
        ELSE push_bv("and", w, <<x, y>>, <<>>)

bv_or(x0, y0) ==
    LET p == canonicalize_commutative(x0, y0)
        x == p[1]
        y == p[2]
        w == x.w
    IN  IF x = y THEN x
        ELSE IF Both(x, y) THEN bv_const(Bitwise2(Joined, x, y), w)
        ELSE IF HasVal(y) /\ Val(y) = 0 THEN x
        ELSE IF HasVal(y) /\ Val(y) = mask(w) THEN bv_const(mask(w), w)
        ELSE IF HasVal(y) /\ ByVal(x, "or")
        THEN bv_or(First(x), bv_const(Bitwise2(Joined, Second(x), y), w))
        ELSE push_bv("or", w, <<x, y>>, <<>>)

bv_xor(x0, y0) ==
    LET p == canonicalize_commutative(x0, y0)
        x == p[1]
        y == p[2]
        w == x.w
    IN  IF x = y THEN bv_const(0, w)
        ELSE IF Both(x, y) THEN bv_const(Bitwise2(Differing, x, y), w)
        ELSE IF HasVal(y) /\ Val(y) = 0 THEN x
        ELSE IF HasVal(y) /\ Val(y) = mask(w) THEN bv_not(x)
        ELSE IF HasVal(y) /\ ByVal(x, "xor")
        THEN bv_xor(First(x), bv_const(Bitwise2(Differing, Second(x), y), w))
        ELSE push_bv("xor", w, <<x, y>>, <<>>)

--------------------------------------------------------------------------------
(***************************************************************************)
(* Addition, and counting bits.                                             *)
(***************************************************************************)
bv_add(x0, y0) ==
    LET p == canonicalize_commutative(x0, y0)
        x == p[1]
        y == p[2]
        w == x.w
    IN  IF Both(x, y) THEN bv_const(Val(x) + Val(y), w)
        ELSE IF HasVal(y) /\ Val(y) = 0 THEN x
        ELSE IF HasVal(y) /\ ByVal(x, "add")
        THEN bv_add(First(x), bv_const(Val(Second(x)) + Val(y), w))
        ELSE IF HasVal(y) /\ ByVal(x, "sub")
        THEN bv_add(First(x), bv_const(Val(y) - Val(Second(x)), w))
        ELSE push_bv("add", w, <<x, y>>, <<>>)

bv_sub(x, y) ==
    IF x = y THEN bv_const(0, x.w)
    ELSE IF Both(x, y) THEN bv_const(Val(x) - Val(y), x.w)
    ELSE IF HasVal(y) /\ Val(y) = 0 THEN x
    ELSE IF HasVal(y) THEN bv_add(x, bv_const(-Val(y), x.w))
    ELSE push_bv("sub", x.w, <<x, y>>, <<>>)

bv_neg(x) ==
    IF HasVal(x) THEN bv_const(-Val(x), x.w)
    ELSE IF x.op = "neg" THEN First(x) ELSE push_bv("neg", x.w, <<x>>, <<>>)

bv_popcount(x) ==
    IF HasVal(x) THEN bv_const(Cardinality(BitsOf(Val(x), x.w)), x.w)
    ELSE IF x.w = 1 THEN x ELSE push_bv("popcount", x.w, <<x>>, <<>>)

bv_clz(x) ==
    IF HasVal(x)
    THEN bv_const(IF Val(x) = 0 THEN x.w ELSE x.w - 1 - Max(BitsOf(Val(x), x.w)), x.w)
    ELSE IF x.w = 1 THEN bv_not(x) ELSE push_bv("clz", x.w, <<x>>, <<>>)

bv_ctz(x) ==
    IF HasVal(x) THEN bv_const(IF Val(x) = 0 THEN x.w ELSE Min(BitsOf(Val(x), x.w)), x.w)
    ELSE IF x.w = 1 THEN bv_not(x) ELSE push_bv("ctz", x.w, <<x>>, <<>>)

--------------------------------------------------------------------------------
(***************************************************************************)
(* Slices.                                                                  *)
(***************************************************************************)
\* Operations whose low bits depend on the low bits of the operands only.
Narrowing(op, ks) ==
    CASE op = "add" -> bv_add(ks[1], ks[2])
      [] op = "sub" -> bv_sub(ks[1], ks[2])
      [] op = "mul" -> bv_mul(ks[1], ks[2])
      [] op = "neg" -> bv_neg(ks[1])
      [] op = "and" -> bv_and(ks[1], ks[2])
      [] op = "or" -> bv_or(ks[1], ks[2])
      [] op = "xor" -> bv_xor(ks[1], ks[2])
      [] op = "not" -> bv_not(ks[1])

bv_extract_uncached(x, high, low) ==
    LET w == high - low + 1
        lo == Second(x).w
        inner == First(x)
    IN  IF HasVal(x) THEN bv_const(Val(x) \div 2^low, w)
        ELSE IF x.op = "extract" THEN bv_extract(inner, x.arg[2] + high, x.arg[2] + low)
        ELSE IF x.op = "concat" /\ high < lo THEN bv_extract(Second(x), high, low)
        ELSE IF x.op = "concat" /\ low >= lo THEN bv_extract(inner, high - lo, low - lo)
        ELSE IF x.op = "concat"
        THEN bv_concat(bv_extract(inner, high - lo, 0), bv_extract(Second(x), lo - 1, low))
        ELSE IF x.op \in {"zero_extend", "sign_extend"} /\ high < inner.w
        THEN bv_extract(inner, high, low)
        ELSE IF high + 1 < x.w /\ x.op \in {"add", "sub", "mul", "neg", "and", "or", "xor", "not"}
        THEN bv_extract(Narrowing(x.op, [i \in DOMAIN x.kids |-> bv_extract(x.kids[i], high, 0)]),
                        high, low)
        ELSE push_bv("extract", w, <<x>>, <<high, low>>)

bv_extract(x, high, low) ==
    IF low = 0 /\ high + 1 = x.w THEN x ELSE bv_extract_uncached(x, high, low)

\* The word in which two literals are put side by side.
Merged(x, y) == bv_const(WordShl(Val(x), y.w) + Val(y), x.w + y.w)

bv_concat(x, y) ==
    IF Both(x, y) THEN Merged(x, y)
    ELSE IF HasVal(y) /\ ByVal(x, "concat") THEN bv_concat(First(x), Merged(Second(x), y))
    ELSE IF HasVal(x) /\ y.op = "concat" /\ HasVal(First(y))
    THEN bv_concat(Merged(x, First(y)), Second(y))
    ELSE IF x.op = "extract" /\ y.op = "extract" /\ First(x) = First(y)
            /\ x.arg[2] = y.arg[1] + 1
    THEN bv_extract(First(x), x.arg[1], y.arg[2])
    ELSE push_bv("concat", x.w + y.w, <<x, y>>, <<>>)

bv_zero_extend(x, n) ==
    IF n = 0 THEN x
    ELSE IF HasVal(x) THEN bv_const(Val(x), x.w + n)
    ELSE IF x.op = "zero_extend" THEN bv_zero_extend(First(x), x.arg[1] + n)
    ELSE push_bv("zero_extend", x.w + n, <<x>>, <<n>>)

bv_sign_extend(x, n) ==
    LET above == BitsOf(mask(x.w + n), WORD) \ Positions(x.w)
        negative == Val(x) >= Size(x.w - 1)
    IN  IF n = 0 THEN x
        ELSE IF HasVal(x)
        THEN bv_const(Val(x) + (IF negative THEN Number(above) ELSE 0), x.w + n)
        ELSE IF x.op = "sign_extend" THEN bv_sign_extend(First(x), x.arg[1] + n)
        ELSE push_bv("sign_extend", x.w + n, <<x>>, <<n>>)

--------------------------------------------------------------------------------
(***************************************************************************)
(* Shifts and rotations.                                                    *)
(***************************************************************************)
bv_shl(x, y) ==
    LET w == x.w
    IN  IF Both(x, y) THEN bv_const(IF Val(y) >= w THEN 0 ELSE Val(x) * 2^Val(y), w)
        ELSE IF HasVal(y) /\ Val(y) = 0 THEN x
        ELSE IF HasVal(y) /\ ByVal(x, "shl")
        THEN bv_shl(First(x), bv_const(Min({Val(Second(x)) + Val(y), w}), w))
        ELSE IF HasVal(y) /\ Val(y) >= w THEN bv_const(0, w)
        ELSE IF HasVal(y)
        THEN bv_concat(bv_extract(x, w - 1 - Val(y), 0), bv_const(0, Val(y)))
        ELSE push_bv("shl", w, <<x, y>>, <<>>)

bv_lshr(x, y) ==
    LET w == x.w
    IN  IF Both(x, y) THEN bv_const(IF Val(y) >= w THEN 0 ELSE Val(x) \div 2^Val(y), w)
        ELSE IF HasVal(y) /\ Val(y) = 0 THEN x
        ELSE IF HasVal(y) /\ ByVal(x, "lshr")
        THEN bv_lshr(First(x), bv_const(Min({Val(Second(x)) + Val(y), w}), w))
        ELSE IF HasVal(y) /\ Val(y) >= w THEN bv_const(0, w)
        ELSE IF HasVal(y)
        THEN bv_concat(bv_const(0, Val(y)), bv_extract(x, w - 1, Val(y)))
        ELSE push_bv("lshr", w, <<x, y>>, <<>>)

bv_ashr(x, y) ==
    LET w == x.w
        n == Min({Val(y), w})
        fill == IF Val(x) >= Size(w - 1) THEN Size(w) - 2^(w - n) ELSE 0
    IN  IF Both(x, y) THEN bv_const(Val(x) \div 2^n + fill, w)
        ELSE IF HasVal(y) /\ Val(y) = 0 THEN x
        ELSE IF HasVal(y) /\ n >= w THEN bv_sign_extend(bv_extract(x, w - 1, w - 1), w - 1)
        ELSE IF HasVal(y) THEN bv_sign_extend(bv_extract(x, w - 1, n), n)
        ELSE push_bv("ashr", w, <<x, y>>, <<>>)

bv_rotate_left(x, n) ==
    LET k == n % x.w
    IN  IF k = 0 THEN x
        ELSE bv_or(bv_shl(x, bv_const(k, x.w)), bv_lshr(x, bv_const(x.w - k, x.w)))

bv_rotate_right(x, n) ==
    LET k == n % x.w
    IN  IF k = 0 THEN x
        ELSE bv_or(bv_lshr(x, bv_const(k, x.w)), bv_shl(x, bv_const(x.w - k, x.w)))

Rotated(v, k, w) == IF k = 0 THEN v ELSE ((v * 2^k) % Size(w)) + (v \div 2^(w - k))

bv_rotate_left_dyn(x, y) ==
    IF Both(x, y) THEN bv_const(Rotated(Val(x), Val(y) % x.w, x.w), x.w)
    ELSE IF HasVal(y) THEN bv_rotate_left(x, Val(y) % x.w)
    ELSE IF x.w = 1 THEN x
    ELSE push_bv("rotate_left", x.w, <<x, y>>, <<>>)

bv_rotate_right_dyn(x, y) ==
    IF Both(x, y) THEN bv_const(Rotated(Val(x), (x.w - (Val(y) % x.w)) % x.w, x.w), x.w)
    ELSE IF HasVal(y) THEN bv_rotate_right(x, Val(y) % x.w)
    ELSE IF x.w = 1 THEN x
    ELSE push_bv("rotate_right", x.w, <<x, y>>, <<>>)

--------------------------------------------------------------------------------
(***************************************************************************)
(* Multiplication and division.                                             *)
(***************************************************************************)
bv_mul(x0, y0) ==
    LET p == canonicalize_commutative(x0, y0)
        x == p[1]
        y == p[2]
        w == x.w
        k == power_of_two_exp(Val(y))
    IN  IF Both(x, y) THEN bv_const(Val(x) * Val(y), w)
        ELSE IF x.op = "neg" /\ y.op = "neg" THEN bv_mul(First(x), First(y))
        ELSE IF HasVal(y) /\ Val(y) = 0 THEN bv_const(0, w)
        ELSE IF HasVal(y) /\ Val(y) = 1 THEN x
        ELSE IF HasVal(y) /\ k >= 0 THEN bv_shl(x, bv_const(k, w))
        ELSE IF HasVal(y) /\ ByVal(x, "mul")
        THEN bv_mul(First(x), bv_const(Val(Second(x)) * Val(y), w))
        ELSE push_bv("mul", w, <<x, y>>, <<>>)

\* The quotient by a constant, from the high half of a product.
MagicHigh(x, f) ==
    bv_extract(bv_mul(bv_zero_extend(x, x.w), bv_const(f, 2 * x.w)), 2 * x.w - 1, x.w)
MagicSum(x, high) == bv_add(bv_lshr(bv_sub(x, high), bv_const(1, x.w)), high)
MagicShifted(sum, n) == IF n = 0 THEN sum ELSE bv_lshr(sum, bv_const(n, sum.w))

bv_udiv_by_magic(x, m) == MagicShifted(MagicSum(x, MagicHigh(x, m[1])), m[2] - 1)

bv_udiv(x, y) ==
    LET w == x.w
        k == power_of_two_exp(Val(y))
        magic == unsigned_magic(Val(y), w)
    IN  IF Both(x, y) THEN bv_const(IF Val(y) = 0 THEN mask(w) ELSE Val(x) \div Val(y), w)
        ELSE IF HasVal(y) /\ Val(y) = 1 THEN x
        ELSE IF HasVal(y) /\ k >= 0 THEN bv_lshr(x, bv_const(k, w))
        ELSE IF HasVal(y) /\ magic # <<>> THEN bv_udiv_by_magic(x, magic)
        ELSE push_bv("udiv", w, <<x, y>>, <<>>)

bv_urem(x, y) ==
    LET w == x.w
        magic == unsigned_magic(Val(y), w)
    IN  IF Both(x, y) THEN bv_const(IF Val(y) = 0 THEN Val(x) ELSE Val(x) % Val(y), w)
        ELSE IF HasVal(y) /\ Val(y) = 1 THEN bv_const(0, w)
        ELSE IF HasVal(y) /\ power_of_two_exp(Val(y)) >= 0
        THEN bv_and(x, bv_const(Val(y) - 1, w))
        ELSE IF HasVal(y) /\ magic # <<>> THEN bv_sub(x, bv_mul(y, bv_udiv_by_magic(x, magic)))
        ELSE push_bv("urem", w, <<x, y>>, <<>>)

Signed(x) == sign_extend_to_i128(Val(x), x.w)
Away(a, b) == (a < 0) # (b < 0)
Abs(v) == IF v < 0 THEN -v ELSE v

\* Division of machine integers, towards zero.
Div(a, b) == IF Away(a, b) THEN -(Abs(a) \div Abs(b)) ELSE Abs(a) \div Abs(b)
Rem(a, b) == a - b * Div(a, b)

bv_sdiv(x, y) ==
    LET a == Signed(x)
        b == Signed(y)
    IN  IF Both(x, y) THEN bv_const(IF b # 0 THEN Div(a, b) ELSE IF a < 0 THEN 1 ELSE -1, x.w)
        ELSE push_bv("sdiv", x.w, <<x, y>>, <<>>)

bv_srem(x, y) ==
    IF Both(x, y)
    THEN bv_const(IF Val(y) = 0 THEN Signed(x) ELSE Rem(Signed(x), Signed(y)), x.w)
    ELSE push_bv("srem", x.w, <<x, y>>, <<>>)

bv_smod(x, y) ==
    LET r == Rem(Signed(x), Signed(y))
    IN  IF Both(x, y)
        THEN bv_const(IF Val(y) = 0 THEN Signed(x)
                      ELSE IF r # 0 /\ Away(r, Signed(y)) THEN r + Signed(y) ELSE r, x.w)
        ELSE push_bv("smod", x.w, <<x, y>>, <<>>)

--------------------------------------------------------------------------------
(***************************************************************************)
(* Choices.                                                                 *)
(***************************************************************************)
Then(t) == t.kids[2]
Else(t) == t.kids[3]
IsIte(t, cs) == t.op = "ite" /\ First(t) \in cs


bv_ite(c, t, e) ==
    LET nc == bool_not(c)
    IN  IF IsTruth(c) THEN IF c = True THEN t ELSE e
        ELSE IF t = e THEN t
        ELSE IF IsIte(t, {c}) THEN bv_ite(c, Then(t), e)
        ELSE IF IsIte(t, {nc}) THEN bv_ite(c, Else(t), e)
        ELSE IF IsIte(e, {c}) THEN bv_ite(c, t, Else(e))
        ELSE IF IsIte(e, {nc}) THEN bv_ite(c, t, Then(e))
        ELSE IF t.op = "ite" /\ IsIte(e, {First(t)}) /\ Then(t) = Then(e)
        THEN bv_ite(First(t), Then(t), bv_ite(c, Else(t), Else(e)))
        ELSE IF t.op = "ite" /\ IsIte(e, {First(t)}) /\ Else(t) = Else(e)
        THEN bv_ite(First(t), bv_ite(c, Then(t), Then(e)), Else(t))
        ELSE push_bv("ite", t.w, <<c, t, e>>, <<>>)

\* A select is its pairs <<selector, value>> and its default, here as operands
\* in the order default, selectors, values.
Selectors(t) == SubSeq(t.kids, 2, 1 + (Len(t.kids) - 1) \div 2)
Values(t) == SubSeq(t.kids, 2 + (Len(t.kids) - 1) \div 2, Len(t.kids))
Firsts(ps) == [i \in DOMAIN ps |-> ps[i][1]]
Seconds(ps) == [i \in DOMAIN ps |-> ps[i][2]]

\* The pairs that can be reached, up to a selector that is true: its value is
\* the default of those before it.
Reachable(pairs, default) ==
    FoldLeft(LAMBDA s, p :
                 IF s.done \/ p[1] = False THEN s
                 ELSE IF p[1] = True THEN [s EXCEPT !.default = p[2], !.done = TRUE]
                 ELSE IF \E q \in ToSet(s.pairs) : q[1] = p[1] THEN s
                 ELSE [s EXCEPT !.pairs = Append(@, p)],
             [pairs |-> <<>>, default |-> default, done |-> FALSE], pairs)

SameTable(t, sels) == t.op = "select" /\ Selectors(t) = sels

RECURSIVE ChasedDefault(_, _), ChasedValue(_, _, _), Trimmed(_, _)
ChasedDefault(t, sels) == IF SameTable(t, sels) THEN ChasedDefault(First(t), sels) ELSE t
ChasedValue(t, sels, i) ==
    IF SameTable(t, sels) THEN ChasedValue(Values(t)[i], sels, i) ELSE t
Trimmed(pairs, d) ==
    IF pairs # <<>> /\ Last(pairs)[2] = d THEN Trimmed(Front(pairs), d) ELSE pairs

bv_select(pairs, default) ==
    LET r == Reachable(pairs, default)
        kept == SelectSeq(r.pairs, LAMBDA p : p[2] # r.default)
        sels == Firsts(kept)
        d == ChasedDefault(r.default, sels)
        chased == [i \in DOMAIN kept |-> <<kept[i][1], ChasedValue(kept[i][2], sels, i)>>]
        last == Trimmed(chased, d)
    IN  IF kept = <<>> THEN r.default
        ELSE IF last = <<>> THEN d
        ELSE push_bv("select", default.w, <<d>> \o Firsts(last) \o Seconds(last), <<>>)

--------------------------------------------------------------------------------
(***************************************************************************)
(* Boolean terms.                                                           *)
(***************************************************************************)
\* A comparison with one literal: the other side, the literal, and whether the
\* literal is on the left.
IsBound(t) ==
    t.op \in {"ult", "ule", "slt", "sle"} /\ HasVal(First(t)) # HasVal(Second(t))

extract_const_bound(t) ==
    LET left == HasVal(First(t))
    IN  [of |-> IF left THEN Second(t) ELSE First(t), op |-> t.op, left |-> left,
         val |-> IF left THEN First(t) ELSE Second(t)]

is_tighter(new, old) ==
    LET num(b) == IF b.op \in {"ult", "ule"} THEN Val(b.val) ELSE Signed(b.val)
    IN  IF new.left THEN num(new) > num(old) ELSE num(new) < num(old)

bool_and(x, y) ==
    LET new == extract_const_bound(y)
        old == extract_const_bound(Second(x))
    IN  IF x = y \/ y = True THEN x
        ELSE IF x = True THEN y
        ELSE IF False \in {x, y} \/ is_complement(x, y) THEN False
        ELSE IF /\ x.op = "and_b" /\ IsBound(y) /\ IsBound(Second(x))
                /\ new.of = old.of /\ new.op = old.op /\ new.left = old.left
        THEN IF is_tighter(new, old) THEN bool_and(First(x), y) ELSE x
        ELSE push_bool("and_b", <<x, y>>, <<>>)

bool_or(x, y) ==
    IF x = y \/ y = False THEN x
    ELSE IF x = False THEN y
    ELSE IF True \in {x, y} \/ is_complement(x, y) THEN True
    ELSE push_bool("or_b", <<x, y>>, <<>>)

bool_implies(x, y) == bool_or(bool_not(x), y)

\* An equality with a literal, pushed through an ite: worth it if an arm folds.
Pushed(x, y) ==
    LET c == First(x)
        hit == bool_and(c, bv_eq(Then(x), y))
        miss == bool_and(bool_not(c), bv_eq(Else(x), y))
    IN  IF IsTruth(hit) \/ IsTruth(miss) \/ hit = c \/ miss = bool_not(c)
        THEN <<bool_or(hit, miss)>> ELSE <<>>

\* An equality of a sum and a literal, solved for the other operand.
Solved(x, v) ==
    LET a == First(x)
        b == Second(x)
    IN  CASE x.op = "neg" -> <<a, -v>>
          [] x.op = "add" /\ HasVal(b) -> <<a, v - Val(b)>>
          [] x.op = "add" /\ HasVal(a) -> <<b, v - Val(a)>>
          [] x.op = "sub" /\ HasVal(a) -> <<b, Val(a) - v>>
          [] x.op = "sub" /\ HasVal(b) -> <<a, v + Val(b)>>
          [] OTHER -> <<>>

bv_eq(x0, y0) ==
    LET p == canonicalize_commutative(x0, y0)
        x == p[1]
        y == p[2]
        ones == BitsOf(Val(y), y.w)
        chosen == {i \in 2..3 : Val(x.kids[i]) = Val(y)}
        pushed == Pushed(x, y)
        solved == Solved(x, Val(y))
    IN  IF x = y THEN True
        ELSE IF Both(x, y) THEN Truth(Val(x) = Val(y))
        ELSE IF HasVal(y) /\ (x.known.ones \ ones # {} \/ x.known.zeros \cap ones # {})
        THEN False
        ELSE IF HasVal(y) /\ x.op = "ite" /\ Both(Then(x), Else(x))
        THEN IF chosen = {2} THEN First(x)
             ELSE IF chosen = {3} THEN bool_not(First(x)) ELSE Truth(chosen # {})
        ELSE IF HasVal(y) /\ Val(y) = 0 /\ x.op = "sub" THEN bv_eq(First(x), Second(x))
        ELSE IF x.op \in {"zero_extend", "sign_extend"} /\ y.op = x.op /\ x.arg = y.arg
        THEN bv_eq(First(x), First(y))
        ELSE IF PUSHDOWN /\ HasVal(y) /\ x.op = "ite" /\ pushed # <<>> THEN pushed[1]
        ELSE IF HasVal(y) /\ solved # <<>> THEN bv_eq(solved[1], bv_const(solved[2], x.w))
        ELSE push_bool("eq", <<x, y>>, <<>>)

\* The interval of a term, from its known bits.
unsigned_interval(x) == [lo |-> Number(x.known.ones), hi |-> mask(x.w) - Number(x.known.zeros)]

bv_ult(x, y) ==
    LET i == unsigned_interval(x)
        j == unsigned_interval(y)
    IN  IF x = y THEN False
        ELSE IF Both(x, y) THEN Truth(Val(x) < Val(y))
        ELSE IF x.w <= WORD /\ i.hi < j.lo THEN True
        ELSE IF x.w <= WORD /\ i.lo >= j.hi THEN False
        ELSE push_bool("ult", <<x, y>>, <<>>)

bv_ule(x, y) ==
    LET i == unsigned_interval(x)
        j == unsigned_interval(y)
    IN  IF x = y THEN True
        ELSE IF Both(x, y) THEN Truth(Val(x) <= Val(y))
        ELSE IF x.w <= WORD /\ i.hi <= j.lo THEN True
        ELSE IF x.w <= WORD /\ i.lo > j.hi THEN False
        ELSE push_bool("ule", <<x, y>>, <<>>)

bv_slt(x, y) ==
    IF x = y THEN False
    ELSE IF Both(x, y) THEN Truth(Signed(x) < Signed(y)) ELSE push_bool("slt", <<x, y>>, <<>>)

bv_sle(x, y) ==
    IF x = y THEN True
    ELSE IF Both(x, y) THEN Truth(Signed(x) <= Signed(y)) ELSE push_bool("sle", <<x, y>>, <<>>)

Outside(v, w) == v < -Size(w - 1) \/ v >= Size(w - 1)

\* What a signed machine word keeps of v (wrapping_add, wrapping_sub): at the width
\* of the word no sum is out of range any more.
Wrapped(v) == ((v + Size(WORD - 1)) % Size(WORD)) - Size(WORD - 1)

\* An overflow predicate; an operand of one argument is given twice.
bv_overflow(op, x, y) ==
    LET w == x.w
        a == Signed(x)
        b == Signed(y)
        overflows ==
            CASE op = "uadd_overflow" -> Val(x) + Val(y) > mask(w)
              [] op = "umul_overflow" -> Val(x) * Val(y) > mask(w)
              [] op = "sadd_overflow" -> Outside(Wrapped(a + b), w)
              [] op = "ssub_overflow" -> Outside(Wrapped(a - b), w)
              [] op = "smul_overflow" -> Outside(a * b, w)
              [] op = "neg_overflow" -> a = -Size(w - 1)
              [] op = "sdiv_overflow" -> a = -Size(w - 1) /\ b = -1
    IN  IF op = "usub_overflow" THEN bv_ult(x, y)
        ELSE IF Both(x, y) THEN Truth(overflows)
        ELSE push_bool(op, <<x, y>>, <<>>)
================================================================================
