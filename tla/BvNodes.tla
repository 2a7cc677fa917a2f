-------------------------------- MODULE BvNodes --------------------------------
(***************************************************************************)
(* The nodes of bit-vector and Boolean terms (bv.rs).  A term is its node    *)
(* with its operands in place, so that equal terms are one term, as hash     *)
(* consing makes them in the arena.  A Boolean term has width 0.             *)
(***************************************************************************)
EXTENDS Integers, Sequences, FiniteSets, SequencesExt, FiniteSetsExt

CONSTANT
    WORD      \* the bits of the machine word of an inline literal, 128 in the code

ASSUME BvNodesAssumption == WORD \in Nat \ {0}

Size(w) == 2^w
Positions(w) == 0..(w - 1)

\* The number whose one bits are the set s, and back.
RECURSIVE Number(_)
Number(s) == IF s = {} THEN 0 ELSE LET i == CHOOSE i \in s : TRUE IN 2^i + Number(s \ {i})
BitsOf(v, w) == {i \in Positions(w) : (v \div 2^i) % 2 = 1}

\* A machine word shifted left: an amount of a word or more wraps around.
WordShl(v, n) == (v * 2^(n % WORD)) % Size(WORD)

mask(w) == IF w = WORD THEN Size(WORD) - 1 ELSE WordShl(1, w) - 1

sign_extend_to_i128(v, w) == IF v >= Size(w - 1) THEN v - Size(w) ELSE v

\* The exponent of a power of two, none (-1) of anything else.
power_of_two_exp(v) ==
    LET e == {i \in Positions(WORD) : 2^i = v} IN IF e = {} THEN -1 ELSE Max(e)

CeilDiv(a, b) == (a + b - 1) \div b

\* The multiplier and the shift of a division by the constant d, or none.
unsigned_magic(d, w) ==
    LET l == Min({i \in 1..WORD : d <= 2^i})
    IN  IF d <= 1 \/ power_of_two_exp(d) >= 0 \/ w + l >= WORD THEN <<>>
        ELSE <<CeilDiv(2^(w + l), d) - 2^w, l>>

--------------------------------------------------------------------------------
(***************************************************************************)
(* Known bits: the positions a node is known to have a one, or a zero, at.   *)
(***************************************************************************)
Known(o, z) == [ones |-> o, zeros |-> z]
Unknown == Known({}, {})

Flipped(k) == Known(k.zeros, k.ones)

Moved(s, n, w) == {i + n : i \in s} \cap Positions(w)

\* The addition of known bits stops at the first bit that is not known.
RECURSIVE Carried(_, _, _, _, _)
Carried(x, y, i, w, carry) ==
    IF i = w \/ i \notin x.ones \cup x.zeros \/ i \notin y.ones \cup y.zeros
    THEN Unknown
    ELSE LET total == carry + Cardinality({k \in {<<1, x>>, <<2, y>>} : i \in k[2].ones})
             rest == Carried(x, y, i + 1, w, total \div 2)
         IN  IF total % 2 = 1 THEN Known(rest.ones \cup {i}, rest.zeros)
             ELSE Known(rest.ones, rest.zeros \cup {i})

\* A bug add_known_bits must not have: the carry into the first bit is lost.
add_known_bits_carry(x, y, w, cin) == Carried(x, y, 0, w, 0)

add_known_bits(x, y, w, cin) == Carried(x, y, 0, w, cin)

trailing_known_zeros(zeros, w) == Min({i \in 0..w : i \notin zeros \/ i = w})

IsConst(t) == t.op = "const"

\* The value of an inline literal; a wide one is not folded.
HasVal(t) == IsConst(t) /\ t.w <= WORD
Val(t) == t.arg[1]

\* Bits moved right by n, the top filled with what is known of the sign.
KnownRight(x, n, w, sign) ==
    LET top == {i \in Positions(w) : i + n >= w}
    IN  Known(Moved(x.ones, -n, w) \cup (IF sign = "one" THEN top ELSE {}),
              Moved(x.zeros, -n, w) \cup (IF sign = "zero" THEN top ELSE {}))

KnownSign(x, w) ==
    IF w - 1 \in x.ones THEN "one" ELSE IF w - 1 \in x.zeros THEN "zero" ELSE "unknown"

KnownBranches(ks) ==
    Known({i \in ks[1].ones : \A j \in DOMAIN ks : i \in ks[j].ones},
          {i \in ks[1].zeros : \A j \in DOMAIN ks : i \in ks[j].zeros})

\* What is known of a node whose operands are known as k.
KnownFrom(k, op, w, kids, arg) ==
    LET shift == IF HasVal(kids[2]) THEN Min({Val(kids[2]), w}) ELSE -1
        values == SelectSeq(kids, LAMBDA t : t.w > 0)
    IN  CASE w > WORD \/ op = "var" -> Unknown
          [] op = "const" -> Known(BitsOf(arg[1], w), Positions(w) \ BitsOf(arg[1], w))
          [] op = "not" -> Flipped(k[1])
          [] op = "and" -> Known(k[1].ones \cap k[2].ones, k[1].zeros \cup k[2].zeros)
          [] op = "or" -> Known(k[1].ones \cup k[2].ones, k[1].zeros \cap k[2].zeros)
          [] op = "xor" -> Known((k[1].ones \cap k[2].zeros) \cup (k[1].zeros \cap k[2].ones),
                                 (k[1].ones \cap k[2].ones) \cup (k[1].zeros \cap k[2].zeros))
          [] op = "add" -> add_known_bits(k[1], k[2], w, 0)
          [] op = "sub" -> add_known_bits(k[1], Flipped(k[2]), w, 1)
          [] op = "neg" -> add_known_bits(Flipped(k[1]), Known({}, Positions(w)), w, 1)
          [] op = "mul" -> Known({}, {i \in Positions(w) :
                              i < trailing_known_zeros(k[1].zeros, w)
                                  + trailing_known_zeros(k[2].zeros, w)})
          [] op = "shl" /\ shift >= 0 ->
                 Known(Moved(k[1].ones, shift, w),
                       Moved(k[1].zeros, shift, w) \cup {i \in Positions(w) : i < shift})
          [] op = "lshr" /\ shift >= 0 -> KnownRight(k[1], shift, w, "zero")
          [] op = "ashr" /\ shift >= 0 -> KnownRight(k[1], shift, w, KnownSign(k[1], w))
          [] op = "extract" -> Known(Moved(k[1].ones, -arg[2], w), Moved(k[1].zeros, -arg[2], w))
          [] op = "concat" ->
                 Known(k[2].ones \cup Moved(k[1].ones, kids[2].w, w),
                       k[2].zeros \cup Moved(k[1].zeros, kids[2].w, w))
          [] op = "zero_extend" -> Known(k[1].ones, k[1].zeros \cup kids[1].w..(w - 1))
          [] op = "sign_extend" ->
                 LET sign == KnownSign(k[1], kids[1].w)
                     top == kids[1].w..(w - 1)
                 IN  Known(k[1].ones \cup (IF sign = "one" THEN top ELSE {}),
                           k[1].zeros \cup (IF sign = "zero" THEN top ELSE {}))
          [] op \in {"ite", "select"} ->
                 KnownBranches([i \in DOMAIN values |-> values[i].known])
          [] op \in {"popcount", "clz", "ctz"} ->
                 Known({}, {i \in Positions(w) : 2^i > w})
          [] OTHER -> Unknown

compute_known_bits(op, w, kids, arg) ==
    KnownFrom([i \in DOMAIN kids |-> kids[i].known], op, w, kids, arg)

--------------------------------------------------------------------------------
(***************************************************************************)
(* Making nodes.                                                            *)
(***************************************************************************)
Node(op, w, kids, arg) ==
    [op |-> op, w |-> w, kids |-> kids, arg |-> arg,
     known |-> compute_known_bits(op, w, kids, arg)]

\* A literal is a machine word, cut to its width; one wider than a word has
\* zeros above it.
Literal(v, w) ==
    [op |-> "const", w |-> w, kids |-> <<>>, arg |-> <<v>>,
     known |-> IF w > WORD THEN Unknown ELSE Known(BitsOf(v, w), Positions(w) \ BitsOf(v, w))]

bv_const(v, w) == Literal(v % Size(Min({w, WORD})), w)

\* A node all of whose bits are known is a literal.
Folded(n) ==
    IF n.w <= WORD /\ n.known.ones \cup n.known.zeros = Positions(n.w)
    THEN bv_const(Number(n.known.ones), n.w)
    ELSE n

push_bv(op, w, kids, arg) == Folded(Node(op, w, kids, arg))

bv_var(id, w) == Node("var", w, <<>>, <<id>>)

push_bool(op, kids, arg) ==
    [op |-> op, w |-> 0, kids |-> kids, arg |-> arg, known |-> Unknown]

bool_var(id) == push_bool("bool_var", <<>>, <<id>>)
True == push_bool("true", <<>>, <<>>)
False == push_bool("false", <<>>, <<>>)
Truth(b) == IF b THEN True ELSE False

IsTruth(t) == t.op \in {"true", "false"}

bool_not(x) ==
    IF IsTruth(x) THEN Truth(x = False)
    ELSE IF x.op = "not_b" THEN x.kids[1] ELSE push_bool("not_b", <<x>>, <<>>)

is_complement(x, y) ==
    \/ x.op = "not_b" /\ x.kids[1] = y
    \/ y.op = "not_b" /\ y.kids[1] = x

\* A literal goes to the right of a commutative operation.
canonicalize_commutative(x, y) == IF IsConst(x) /\ ~IsConst(y) THEN <<y, x>> ELSE <<x, y>>
================================================================================
