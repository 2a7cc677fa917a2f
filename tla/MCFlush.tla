--------------------------------- MODULE MCFlush ---------------------------------
(***************************************************************************)
(* What a flush puts between the bit-blaster and the search: the clauses of *)
(* a batch are simplified, its parities are eliminated, and the rows that   *)
(* result are propagated by the solver.  A behaviour is of one part: small  *)
(* batches, batches around a gate, the system of parities, or the rows.     *)
(***************************************************************************)
EXTENDS Integers, FiniteSets, Sequences, FiniteSetsExt

VARIABLES
    batch, frozen, p, at, queue, queued, heap, failCost, result,
    rows, told,
    formula, learnts, trail, level, xvars, xrhs, chains, xqhead, pc, conflict, learned,
    assumptions, reusable, answer, core, solves,
    part    \* never changes

batchVars == <<batch, frozen, p, at, queue, queued, heap, failCost, result>>
systemVars == <<rows, told>>
rowVars == <<formula, learnts, trail, level, xvars, xrhs, chains, xqhead, pc, conflict, learned,
             assumptions, reusable, answer, core, solves>>

--------------------------------------------------------------------------------
(***************************************************************************)
(* Batches of at most three clauses over three variables.                   *)
(***************************************************************************)
Tautology(c) == \E l \in c : -l \in c
Over(vs) == {c \in SUBSET (vs \cup {-v : v \in vs}) : ~Tautology(c)}

\* Clauses by the number their literals are the bits of, and lists of them.
Rank(c) == MapThenSumSet(LAMBDA l : IF l > 0 THEN 4 ^ l ELSE 2 * 4 ^ (-l), c)
Pairs(S) == {<<c, d>> \in S \X S : Rank(c) < Rank(d)}
Triples(S) == {Append(t, c) : t \in Pairs(S), c \in S}

\* Clauses of one to three literals over 1..3, and a tautology.
Pool == {c \in Over(1..3) : Cardinality(c) \in 1..3} \cup {{2, -2}}

Binary == {c \in Pool : Cardinality(c) = 2 /\ ~Tautology(c)}

SmallBatches ==
    Pairs(Pool) \cup {t \in Triples(Pool) : {t[1], t[2]} \subseteq Over(1..2)}
        \cup {Append(t, c) : t \in Pairs(Binary), c \in Pool} \cup {<<{}>>}

Small == INSTANCE Preprocess WITH
    Vars <- 1..3, Batches <- SmallBatches, FrozenSets <- {{}, {1}, 2..3},
    CLAUSE_LIM <- 4, VE_PRODUCT_LIM <- 4, VE_SUB_PAIR_LIM <- 12, SUB_OCC_LIM <- 8,
    GateSubst <- TRUE

--------------------------------------------------------------------------------
(***************************************************************************)
(* A gate, 1 or -1 is the conjunction of 2 and 3, with what surrounds it.   *)
(***************************************************************************)
Gates == {<<{1, -2, -3}, {-1, 2}, {-1, 3}>>, <<{-1, -2, -3}, {1, 2}, {1, 3}>>}

Around == {{1, 4}, {-1, 4}, {1, 5}, {-1, -5}, {1, -4, -5}, {-1, 2, 4}, {3, -4}}

GateBatches == {s \o t : s \in Gates, t \in Triples(Around)}

Gated == INSTANCE Preprocess WITH
    Vars <- 1..5, Batches <- GateBatches, FrozenSets <- {{}, 2..5, 4..5},
    CLAUSE_LIM <- 3, VE_PRODUCT_LIM <- 4, VE_SUB_PAIR_LIM <- 12, SUB_OCC_LIM <- 8,
    GateSubst <- TRUE

--------------------------------------------------------------------------------
(***************************************************************************)
(* Gates that share inputs, an equality, units and a gate with a repeated   *)
(* input, over five variables.                                              *)
(***************************************************************************)
System == INSTANCE ParitySystem WITH
    Vars <- 1..5,
    Inputs <- {<<1, 2, 3>>, <<1, 4, 5>>, <<4, 2, 3>>, <<3, 5>>, <<2>>, <<5>>, <<1, 4, 1>>},
    MaxLens <- {2, 5}, EmitLens <- {0, 3}, NativeMin <- 4, MaxRows <- 4

--------------------------------------------------------------------------------
(***************************************************************************)
(* Two gates, 1 = 4 + 5 and 2 + 3 = 4 + 5 + 1, whose sum is a row that unit *)
(* propagation does not see; the other clauses make rows break and chain.   *)
(* The variable 6 is purged and is another gate afterwards, of no row.      *)
(***************************************************************************)
Gate(vs, odd) ==
    {{IF v \in n THEN -v ELSE v : v \in vs} :
        n \in {s \in SUBSET vs : (Cardinality(s) % 2 = 1) # odd}}
Row(vs, odd) == [vars |-> vs, rhs |-> odd]

Formula ==
    Gate({1, 4, 5}, FALSE) \cup Gate({2, 3, 4, 5}, TRUE)
        \cup {{-1, 4, 2}, {-1, 4, 3}, {-3, 1, 5}, {-6, 3}, {-1, -6, 4}, {-1, -6, -4}}

\* Only the row sees that this has no model.
Refutable == Formula \cup {{2}, {3}, {-1}}

Rows == INSTANCE ParityRows WITH
    Vars <- 1..6, Formulas <- {Formula, Refutable},
    RowSets <- {<<Row(<<1, 2, 3>>, TRUE), Row(<<1, 4, 5>>, FALSE)>>,
                <<Row(<<3, 2, 5, 4>>, TRUE), Row(<<2, 1, 3>>, TRUE)>>},
    AssumptionLists <- {<<1>>, <<2, 3, 1>>, <<2, -3>>, <<2, -3, 1>>, <<2, 6, -1>>},
    DecisionLits <- {1, -2, -4, 6}, MaxSolves <- 2, Installing <- "root",
    Retired <- {6}, Redefined <- {{-6, -2}, {6, 2}}

--------------------------------------------------------------------------------
NoBatch ==
    /\ batch = <<>> /\ frozen = {} /\ p = Small!from_flat(<<>>) /\ at = "done"
    /\ queue = <<>> /\ queued = {} /\ heap = {} /\ failCost = <<>> /\ result = <<>>

NoRows ==
    /\ formula = {} /\ learnts = {} /\ trail = <<>> /\ level = 0 /\ xvars = <<>> /\ xrhs = <<>>
    /\ chains = <<>> /\ xqhead = 0 /\ pc = "idle" /\ conflict = {}
    /\ learned = [uip |-> 0, rest |-> {}] /\ assumptions = <<>> /\ reusable = FALSE
    /\ answer = "none" /\ core = {} /\ solves = 0

MCInit ==
    /\ System!Init
    /\ \/ part = "small" /\ Small!Init /\ NoRows
       \/ part = "gates" /\ Gated!Init /\ NoRows
       \/ part = "system" /\ NoBatch /\ NoRows
       \/ part = "rows" /\ NoBatch /\ Rows!Init

MCNext ==
    \/ part = "small" /\ Small!Next /\ UNCHANGED <<systemVars, rowVars, part>>
    \/ part = "gates" /\ Gated!Next /\ UNCHANGED <<systemVars, rowVars, part>>
    \/ part = "system" /\ System!Next /\ UNCHANGED <<batchVars, rowVars, part>>
    \/ part = "rows" /\ Rows!Next /\ UNCHANGED <<batchVars, systemVars, part>>

allVars == <<batchVars, systemVars, rowVars, part>>

\* The passes run to their end; flushes and solves come when the client wants.
MCSpec == MCInit /\ [][MCNext]_allVars /\ WF_allVars(part \in {"small", "gates"} /\ MCNext)

--------------------------------------------------------------------------------
\* What the batch says of the variables that survive is kept by every pass, a
\* variable that is gone is in no clause, and no live clause is missed for want of
\* an occurrence.
BatchKept ==
    /\ part = "small" => Small!ProjectionKept /\ Small!EliminatedGone /\ Small!OccurrencesFound
    /\ part = "gates" => Gated!ProjectionKept /\ Gated!EliminatedGone /\ Gated!OccurrencesFound

\* The worklists of the passes empty.
PassesEnd == part \in {"small", "gates"} => <>(at = "done")

\* A flush tells the solver what the parities imply, all of it if no row was
\* dropped, and nothing else.
SystemTold == System!ToldIsImplied /\ System!ToldIsComplete

\* With rows a Sat is a model and an Unsat a proof, and what conflict analysis
\* makes of row reasons is implied and asserting.
RowAnswersRight == Rows!AnswersRight /\ Rows!LearnedIsImplied /\ Rows!LearnedIsAsserting

\* No row that has become a unit is missed, a row that is a reason forces, and
\* the chains that are walked and changed at once name each row twice.
RowsPropagate ==
    part = "rows" => Rows!RowsPropagated /\ Rows!RowReasonsForce /\ Rows!ChainsMatch
================================================================================
