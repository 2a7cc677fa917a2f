----------------------------------- MODULE Aig -----------------------------------
(***************************************************************************)
(* The and-inverter graph (aig.rs) and the sweep that merges its equivalent *)
(* nodes (fraig.rs).  Node 1 is the constant true; a reference is a node or *)
(* its negation, n or -n.  The graph g holds its nodes, the pairs they were *)
(* hashed under, how many parents and() has given each, and whether and()   *)
(* looks one level into its operands.                                       *)
(***************************************************************************)
EXTENDS Integers, Sequences, FiniteSets, SequencesExt, FiniteSetsExt, Functions, TLC

CONSTANTS
    AigInputs,          \* the positive literals of the inputs
    TwoLevelSubst,      \* whether the two-level rules of and() may bypass a node
    SubstShareLimit,    \* which it does not when the node has more parents
    MAX_PASSES

True == 1
False == -1
NodeOf(r) == IF r > 0 THEN r ELSE -r
Code(r) == 2 * NodeOf(r) + (IF r > 0 THEN 0 ELSE 1)

NewGraph(two_level) ==
    [nodes |-> <<[op |-> "true", kids |-> <<>>]>>, cons |-> <<>>, uses |-> <<0>>,
     two_level |-> two_level]

IsAnd(g, n) == g.nodes[n].op = "and"
Kids(g, r) == IF IsAnd(g, NodeOf(r)) THEN ToSet(g.nodes[NodeOf(r)].kids) ELSE {}
Other(g, r, x) ==
    LET k == g.nodes[NodeOf(r)].kids IN IF k[1] = x THEN k[2] ELSE k[1]

\* Of two references the one with the smaller code comes first.
Pair(a, b) == IF Code(a) <= Code(b) THEN <<a, b>> ELSE <<b, a>>

\* The assignments under which each node is true, as sets of true inputs.
Negated(F) == (SUBSET AigInputs) \ F
FunctionOf(fs, r) == IF r > 0 THEN fs[r] ELSE Negated(fs[-r])

NodeFunction(node, fs) ==
    CASE node.op = "true" -> SUBSET AigInputs
      [] node.op = "input" -> {M \in SUBSET AigInputs : node.lit \in M}
      [] node.op = "and" -> FunctionOf(fs, node.kids[1]) \cap FunctionOf(fs, node.kids[2])

NodeFunctions(g) ==
    LET f[n \in 0..Len(g.nodes)] ==
            IF n = 0 THEN <<>>
            ELSE CHOOSE fs \in {Append(p, NodeFunction(g.nodes[n], p)) : p \in {f[n - 1]}} : TRUE
    IN  f[Len(g.nodes)]

--------------------------------------------------------------------------------
(***************************************************************************)
(* Building.                                                                *)
(***************************************************************************)
\* input: a literal and its negation share the node.
input(g, l) ==
    LET old == {n \in DOMAIN g.nodes : g.nodes[n].op = "input" /\ g.nodes[n].lit = NodeOf(l)}
        n == IF old = {} THEN Len(g.nodes) + 1 ELSE CHOOSE x \in old : TRUE
    IN  [g |-> IF old # {} THEN g
               ELSE [g EXCEPT !.nodes = Append(@, [op |-> "input", kids |-> <<>>, lit |-> NodeOf(l)]),
                              !.uses = Append(@, 0)],
         ref |-> IF l > 0 THEN n ELSE -n]

Clash(g, l, r) == \E x \in Kids(g, l) : -x \in Kids(g, r)

\* What two negated conjunctions share when the rest of them is complementary.
Shared(g, l, r) ==
    {x \in Kids(g, l) \cap Kids(g, r) : Other(g, l, x) = -Other(g, r, x)}

NoFold == 0

\* The reference that l /\ r folds to by the rules that only delete, if any.
ConstFold(l, r) ==
    CASE l = True \/ l = r -> r
      [] l # True /\ r = True -> l
      [] l # True /\ r # True /\ (l = False \/ r = False \/ l = -r) -> False
      [] OTHER -> NoFold

\* A negated conjunction that r makes true.
Subsumed(g, l, r) == -r \in Kids(g, l) \/ (r > 0 /\ Clash(g, l, r))

DeepFold(g, l, r) ==
    IF \/ l > 0 /\ -r \in Kids(g, l)
       \/ r > 0 /\ -l \in Kids(g, r)
       \/ l > 0 /\ r > 0 /\ Clash(g, l, r) THEN False
    ELSE IF l < 0 /\ -r \in Kids(g, l) THEN r
    ELSE IF r < 0 /\ -l \in Kids(g, r) THEN l
    ELSE IF l < 0 /\ Subsumed(g, l, r) THEN r
    ELSE IF r < 0 /\ Subsumed(g, r, l) THEN l
    ELSE IF l > 0 /\ r \in Kids(g, l) THEN l
    ELSE IF r > 0 /\ l \in Kids(g, r) THEN r
    ELSE IF l < 0 /\ r < 0 /\ Shared(g, l, r) # {} THEN -(CHOOSE x \in Shared(g, l, r) : TRUE)
    ELSE NoFold

\* A negated conjunction l one conjunct of which is known: the other, negated.
Without(g, l, known) ==
    LET k == g.nodes[NodeOf(l)].kids IN IF k[1] \in known THEN -k[2] ELSE -k[1]

\* The rules that bypass a node: the pair that takes the place of <<l, r>> and
\* the node bypassed.  MayL, MayR and MayKid allow each of them.
Shrunk(g, l, r, MayL, MayR, MayKid) ==
    IF MayL /\ l < 0 /\ r \in Kids(g, l) THEN [pair |-> <<Without(g, l, {r}), r>>, gone |-> NodeOf(l)]
    ELSE IF MayR /\ r < 0 /\ l \in Kids(g, r)
         THEN [pair |-> <<l, Without(g, r, {l})>>, gone |-> NodeOf(r)]
    ELSE IF MayL /\ l < 0 /\ r > 0 /\ Kids(g, l) \cap Kids(g, r) # {}
         THEN [pair |-> <<Without(g, l, Kids(g, r)), r>>, gone |-> NodeOf(l)]
    ELSE IF MayR /\ r < 0 /\ l > 0 /\ Kids(g, l) \cap Kids(g, r) # {}
         THEN [pair |-> <<l, Without(g, r, Kids(g, l))>>, gone |-> NodeOf(r)]
    ELSE IF MayKid /\ l > 0 /\ r > 0 /\ Kids(g, l) \cap Kids(g, r) # {}
         THEN LET k == g.nodes[r].kids
              IN  [pair |-> <<l, IF k[1] \in Kids(g, l) THEN k[2] ELSE k[1]>>, gone |-> r]
    ELSE [pair |-> <<l, r>>, gone |-> 0]

\* The loop of and(): a reference, or the pair that needs a node.
RECURSIVE Reduced(_, _, _)
Reduced(g, l, r) ==
    LET fold == IF ConstFold(l, r) # NoFold \/ ~g.two_level THEN ConstFold(l, r)
                ELSE DeepFold(g, l, r)
        may(x) == g.uses[NodeOf(x)] <= SubstShareLimit
        next == Shrunk(g, l, r, may(l), may(r), TRUE)
    IN  IF fold # NoFold THEN [ref |-> fold, pair |-> <<>>]
        ELSE IF ~g.two_level \/ ~TwoLevelSubst \/ next.gone = 0
             THEN [ref |-> NoFold, pair |-> Pair(l, r)]
        ELSE Reduced(g, next.pair[1], next.pair[2])

\* The node of a pair that does not fold: the one it was hashed under, or a new one.
Hashed(g, d) ==
    LET n == Len(g.nodes) + 1
        counted == g.two_level /\ TwoLevelSubst
        more(u, x) == [u EXCEPT ![NodeOf(x)] = @ + 1]
    IN  IF d.ref # NoFold THEN [g |-> g, ref |-> d.ref]
        ELSE IF d.pair \in DOMAIN g.cons THEN [g |-> g, ref |-> g.cons[d.pair]]
        ELSE [g |-> [g EXCEPT !.nodes = Append(@, [op |-> "and", kids |-> d.pair]),
                              !.cons = @ @@ (d.pair :> n),
                              !.uses = IF counted
                                       THEN Append(more(more(@, d.pair[1]), d.pair[2]), 0)
                                       ELSE Append(@, 0)],
              ref |-> n]

and(g, a, b) == Hashed(g, Reduced(g, a, b))

or(g, a, b) == LET d == and(g, -a, -b) IN [d EXCEPT !.ref = -@]

\* (a /\ b) \/ (c /\ d), built from left to right.
OrLast(hi, lo) == or(lo.g, hi.ref, lo.ref)
OrAnd(hi, c, d) == OrLast(hi, and(hi.g, c, d))
SumOfProducts(g, a, b, c, d) == OrAnd(and(g, a, b), c, d)

xor(g, a, b) ==
    CASE a = b -> [g |-> g, ref |-> False]
      [] a = -b -> [g |-> g, ref |-> True]
      [] NodeOf(a) = 1 -> [g |-> g, ref |-> IF a = True THEN -b ELSE b]
      [] NodeOf(a) # 1 /\ NodeOf(b) = 1 -> [g |-> g, ref |-> IF b = True THEN -a ELSE a]
      [] OTHER -> SumOfProducts(g, a, -b, -a, b)

mux(g, s, t, e) ==
    IF t = e THEN [g |-> g, ref |-> t]
    ELSE IF NodeOf(s) = 1 THEN [g |-> g, ref |-> IF s = True THEN t ELSE e]
    ELSE IF t = True /\ e = False THEN [g |-> g, ref |-> s]
    ELSE IF t = False /\ e = True THEN [g |-> g, ref |-> -s]
    ELSE IF t = s THEN or(g, s, e)
    ELSE IF t = -s THEN and(g, -s, e)
    ELSE IF e = s THEN and(g, s, t)
    ELSE IF e = -s THEN or(g, -s, t)
    ELSE SumOfProducts(g, s, t, -s, e)

--------------------------------------------------------------------------------
(***************************************************************************)
(* Rewriting in place.                                                      *)
(***************************************************************************)
merge_equiv(g, dup, target) == [g EXCEPT !.nodes[dup].kids = <<target, target>>]

\* A merged node stands for what it was merged into.
Alias(g, n) == IsAnd(g, n) /\ g.nodes[n].kids[1] = g.nodes[n].kids[2]

RECURSIVE resolve(_, _)
resolve(g, r) ==
    IF ~Alias(g, NodeOf(r)) THEN r
    ELSE LET t == g.nodes[NodeOf(r)].kids[1] IN resolve(g, IF r > 0 THEN t ELSE -t)

\* What can be reached from the nodes of S without entering Stop.
RECURSIVE Reach(_, _, _)
Reach(g, S, Stop) ==
    LET more == S \cup UNION {{NodeOf(x) : x \in Kids(g, n)} \ Stop : n \in S}
    IN  IF more = S THEN S ELSE Reach(g, more, Stop)

EdgesTo(g, live, n) ==
    MapThenSumSet(LAMBDA i : IF IsAnd(g, i)
                             THEN Len(SelectSeq(g.nodes[i].kids, LAMBDA k : NodeOf(k) = n)) ELSE 0,
                  live)
RootsTo(roots, n) == Cardinality({r \in roots : NodeOf(r) = n})

\* The state of a pass: the graph, its live nodes and their parent counts.
PassStart(g, roots, pinned) ==
    LET live == Reach(g, {NodeOf(r) : r \in roots} \ pinned, pinned)
    IN  [g |-> g, live |-> live, changed |-> FALSE,
         parents |-> [n \in DOMAIN g.nodes |-> EdgesTo(g, live, n) + RootsTo(roots, n)]]

Gained(s, n) == [s EXCEPT !.parents[n] = @ + 1]

RECURSIVE release_all(_, _)
release_all(s, n) ==
    LET t == [s EXCEPT !.parents[n] = @ - 1]
        dead == [t EXCEPT !.live = @ \ {n}]
        k == s.g.nodes[n].kids
    IN  IF t.parents[n] > 0 \/ n \notin s.live THEN t
        ELSE IF ~IsAnd(s.g, n) THEN dead
        ELSE CHOOSE w \in {release_all(u, NodeOf(k[2])) : u \in {release_all(dead, NodeOf(k[1]))}} : TRUE

release(s, n) == release_all(s, n)

\* One child of a node takes the place of another.
Repointed(s, old, new) == IF old = new THEN s ELSE release(Gained(s, NodeOf(new)), NodeOf(old))

Bypassable(s, r, pinned) == s.parents[NodeOf(r)] = 1 /\ NodeOf(r) \notin pinned

RECURSIVE Rewritten(_, _, _, _)
Rewritten(s, l, r, pinned) ==
    LET fold == IF ConstFold(l, r) # NoFold THEN ConstFold(l, r) ELSE DeepFold(s.g, l, r)
        may(x) == Bypassable(s, x, pinned)
        next == Shrunk(s.g, l, r, may(l), may(r), may(r))
        then == Repointed(Repointed(s, l, next.pair[1]), r, next.pair[2])
    IN  IF fold # NoFold \/ next.gone = 0 THEN [s |-> s, pair |-> <<l, r>>, fold |-> fold]
        ELSE CHOOSE w \in {Rewritten(u, next.pair[1], next.pair[2], pinned) : u \in {then}} : TRUE

\* Node i once its children are rewritten to d: an alias, one with new children,
\* or the same one.
Placed(d, i) ==
    LET t == NodeOf(d.fold)
        own == Pair(d.pair[1], d.pair[2])
        folded == release(release(Gained(Gained(d.s, t), t), NodeOf(d.pair[1])), NodeOf(d.pair[2]))
    IN  IF d.fold # NoFold
        THEN [folded EXCEPT !.g.nodes[i].kids = <<d.fold, d.fold>>, !.changed = TRUE]
        ELSE IF own = d.s.g.nodes[i].kids THEN d.s
        ELSE [d.s EXCEPT !.g.nodes[i].kids = own, !.g.cons = @ @@ (own :> i), !.changed = TRUE]

\* A child that was merged is resolved, then the pair of them is rewritten.
Repaired(s, k, l, r, pinned) ==
    Rewritten(Repointed(Repointed(s, k[1], l), k[2], r), l, r, pinned)

\* A node of the pass.
Visited(s, i, pinned) ==
    LET k == s.g.nodes[i].kids
    IN  IF i \notin s.live \/ i \in pinned \/ ~IsAnd(s.g, i) \/ Alias(s.g, i) THEN s
        ELSE Placed(Repaired(s, k, resolve(s.g, k[1]), resolve(s.g, k[2]), pinned), i)

Pass(s, pinned) ==
    LET f[n \in 1..Len(s.g.nodes)] ==
            IF n = 1 THEN [s EXCEPT !.changed = FALSE]
            ELSE CHOOSE w \in {Visited(u, n, pinned) : u \in {f[n - 1]}} : TRUE
    IN  f[Len(s.g.nodes)]

\* Passes until one changes nothing, at most MAX_PASSES.
RECURSIVE Passes(_, _, _)
Passes(s, pinned, left) ==
    IF left = 0 THEN s
    ELSE CHOOSE w \in {IF u.changed THEN Passes(u, pinned, left - 1) ELSE u : u \in {Pass(s, pinned)}} :
             TRUE

substitute_pass(g, roots, pinned) == Passes(PassStart(g, roots, pinned), pinned, MAX_PASSES)

\* A bug MergeTarget must not have: a node is merged into one that agrees with
\* it on a sample.
MergeTargetSampled(g, m) ==
    LET fs == NodeFunctions(g)
        ands == {n \in 2..(m - 1) : IsAnd(g, n) /\ (({} \in fs[n]) <=> ({} \in fs[m]))}
    IN  IF ~IsAnd(g, m) \/ ands = {} THEN 0 ELSE Min(ands)

\* sweep proves a node equal, or complementary, to the oldest node of the same
\* signature with a query over free inputs: 0 or the reference it is merged
\* into.  Nodes that look constant are left alone.
MergeTarget(g, m) ==
    LET fs == NodeFunctions(g)
        ands == {n \in 2..(m - 1) : IsAnd(g, n)}
        same == {n \in ands : fs[n] = fs[m]}
        neg == {n \in ands : fs[n] = FunctionOf(fs, -m)}
    IN  IF ~IsAnd(g, m) \/ same \cup neg = {} \/ fs[m] \in {{}, SUBSET AigInputs} THEN 0
        ELSE IF Min(same \cup neg) \in same THEN Min(same \cup neg) ELSE -Min(same \cup neg)
================================================================================
