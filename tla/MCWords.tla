-------------------------------- MODULE MCWords --------------------------------
(***************************************************************************)
(* Words, as terms and as circuits.  A behaviour is one of a client of the  *)
(* constructors or one that builds a circuit.                               *)
(***************************************************************************)
EXTENDS TermRewrites

VARIABLES
    left, right, circuit, output,   \* the operands, what is built, what comes out
    part   \* "terms" or "circuits"; it never changes

circuitVars == <<left, right, circuit, output>>

\* All operands of one to four bits, and vectors of six and of nine bits to
\* count: the first width at which a column of carries is compressed as well.
Circuits == INSTANCE Bitblast WITH
    Widths <- 1..4, CountWidths <- {6, 9}, LIMB <- 8,
    a <- left, b <- right, op <- circuit, out <- output

\* Slices, shifts and divisions of one variable.
Slices == [
    variables |-> {bv_var(1, 3)},
    literals |-> {bv_const(v, 3) : v \in {0, 2, 3}},
    width |-> 4,
    shapes |-> <<Unary \cup Binary \cup Comparisons \cup Overflows
                     \cup {"extract", "concat", "zero_extend", "sign_extend"},
                 {"not", "neg", "and", "or", "xor", "add", "mul", "shl", "lshr", "ashr",
                  "extract", "concat", "zero_extend", "sign_extend", "eq"}>>]

\* Sums of two variables and bounds on one.
TwoSums == [
    variables |-> {bv_var(1, 2), bv_var(2, 2)},
    literals |-> {bv_const(v, 2) : v \in {1, 3}}
                     \cup {bv_slt(bv_var(1, 2), bv_const(v, 2)) : v \in {1, 3}}
                     \cup {bv_slt(bv_const(1, 2), bv_var(1, 2)), bv_ult(bv_var(1, 2), bv_const(3, 2))},
    width |-> 2,
    shapes |-> <<{"not", "neg", "add", "mul", "and_b"},
                 {"neg", "add", "sub", "and_b"}, {"eq", "ult"}>>]

\* Choices by two conditions; selections whose selectors may be choices.
Decisions == [
    variables |-> {bv_var(1, 1), bv_var(2, 1), bool_var(3), bool_var(4)},
    literals |-> {bv_const(v, 1) : v \in 0..1},
    width |-> 1,
    shapes |-> <<{"not_b", "ite", "eq"}, {"ite", "and_b", "or_b"}, {"ite", "eq"}>>]

Selections == [Decisions EXCEPT
    !.literals = {bv_const(0, 1), True},
    !.shapes = <<{"not_b", "ite", "select"}, {"select"}>>]

\* Literals as wide as the machine word, where the masks, shifts, signs and products
\* of a fold have no spare bit.  The two overflow predicates whose folds wrap there
\* are left out.
FullWords == [
    variables |-> {},
    literals |-> {bv_const(v, 12) : v \in {1, 2047, 2048, 4095}},
    width |-> 12,
    shapes |-> <<Unary \cup Binary \cup Comparisons \cup (Overflows \ {"sadd_overflow", "ssub_overflow"})>>]

MCClients == {Slices, TwoSums, Decisions, Selections, FullWords}

NoTerm == [op |-> "none", kids |-> <<>>, arg |-> <<>>, term |-> True]

MCInit ==
    \/ part = "terms" /\ Init 
       /\ left = <<>> /\ right = <<>> /\ circuit = "none" /\ output = <<>>
    \/ part = "circuits" /\ Circuits!Init
       /\ client = Slices /\ pool = {} /\ made = NoTerm /\ step = 0

MCNext ==
    \/ part = "terms" /\ Next /\ UNCHANGED <<circuitVars, part>>
    \/ part = "circuits" /\ Circuits!Next /\ UNCHANGED <<vars, part>>

MCSpec == MCInit /\ [][MCNext]_<<vars, circuitVars, part>>

--------------------------------------------------------------------------------

\* Every circuit the bit-blaster builds computes the operation on words that
\* SMT-LIB means, on all operands, whichever bits are known.
CircuitsAreRight ==
    /\ Circuits!RingIsRight /\ Circuits!MulConstIsRight /\ Circuits!DivisionIsRight
    /\ Circuits!ShiftsAreRight /\ Circuits!CountsAreRight /\ Circuits!PredicatesAreRight
================================================================================
