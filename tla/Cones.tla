------------------------------- MODULE Cones -------------------------------
(***************************************************************************)
(* How the SMT session turns the cones of its graph into clauses of the SAT  *)
(* core (smt.rs: lit_of, flush_pending, commit_batch, retire_dead_cones).    *)
(* Assertions go through a batch in which variable elimination may dissolve  *)
(* gate variables; a query emits its cone directly; the sweep merges nodes;  *)
(* retirement takes the cones nobody needs out of the core and recycles      *)
(* their variables.  Which variables a batch eliminates is the business of   *)
(* Preprocess: any of those that are not frozen may go.                     *)
(***************************************************************************)
EXTENDS Aig

CONSTANTS
    Bits,               \* the bits of the client's variables
    Clients             \* what clients there are, records: the gates it uses, bounds
                        \* on what it builds and on its steps, whether flushes sweep,
                        \* whether dead cones are retired, and whether it names its
                        \* bits as live then

VARIABLES
    client,     \* never changes
    g,
    sat,        \* the bindings: see NoBindings
    clauses,    \* the clauses of the SAT core
    bits,       \* bv_var_refs: the input of each bit that was bit-blasted
    held,       \* the references the client has, each with the function it asked for
    asserted,   \* asserted_roots, with the functions that were asserted
    swept,      \* fraig_swept_upto
    steps

conesVars == <<client, g, sat, clauses, bits, held, asserted, swept, steps>>

\* lit is aig_lit, node lit_node (0: none), free the recycled variables, gates the
\* variables whose origin is a gate output, out the clauses emitted.
NoBindings == [lit |-> <<>>, node |-> <<>>, alias |-> <<>>, free |-> <<>>, gates |-> {}, out |-> {}]

VarOf(l) == IF l > 0 THEN l ELSE -l
RefLit(s, r) == IF r > 0 THEN s.lit[r] ELSE -s.lit[-r]

NewVar(s) == IF s.free = <<>> THEN Len(s.node) + 1 ELSE Last(s.free)

new_sat_lit(s) ==
    IF s.free = <<>> THEN [s EXCEPT !.node = Append(@, 0), !.alias = Append(@, {})]
    ELSE [s EXCEPT !.node[Last(s.free)] = 0, !.free = Front(@), !.gates = @ \ {Last(s.free)}]

set_node_lit(s, n, l) == [s EXCEPT !.lit = (n :> l) @@ @, !.node[VarOf(l)] = n]

alias_node_lit(s, n, l) == [s EXCEPT !.lit = (n :> l) @@ @, !.alias[VarOf(l)] = @ \cup {n}]

--------------------------------------------------------------------------------
\* The operands of the exclusive or or the multiplexer that a node is, if any.
Crossed(a, b) == (b[1] = -a[1] /\ b[2] = -a[2]) \/ (b[1] = -a[2] /\ b[2] = -a[1])

detect_shape(g0, n) ==
    LET k == g0.nodes[n].kids
        negated == k[1] < 0 /\ k[2] < 0 /\ IsAnd(g0, -k[1]) /\ IsAnd(g0, -k[2])
        a == g0.nodes[-k[1]].kids
        b == g0.nodes[-k[2]].kids
        selects(i, j) == b[j] = -a[i]
        chosen(i, j) == [gate |-> "mux", ops |-> <<a[i], a[3 - i], b[3 - j]>>]
    IN  CASE ~negated -> [gate |-> "and", ops |-> k]
          [] negated /\ Crossed(a, b) -> [gate |-> "xor", ops |-> a]
          [] negated /\ ~Crossed(a, b) /\ (\E i, j \in 1..2 : selects(i, j)) ->
                 LET i == IF \E j \in 1..2 : selects(1, j) THEN 1 ELSE 2
                 IN  chosen(i, IF selects(i, 1) THEN 1 ELSE 2)
          [] OTHER -> [gate |-> "and", ops |-> k]

Definition(gate, o, L) ==
    CASE gate = "and" -> {{-L[1], -L[2], o}, {L[1], -o}, {L[2], -o}}
      [] gate = "xor" -> {{-L[1], -L[2], -o}, {L[1], L[2], -o}, {L[1], -L[2], o}, {-L[1], L[2], o}}
      [] gate = "mux" -> {{-L[1], -L[2], o}, {-L[1], L[2], -o}, {L[1], -L[3], o}, {L[1], L[3], -o}}

\* A multiplexer's node is the negation of its variable.
EmitGate(s, n, gate, ops) ==
    LET o == NewVar(s)
        L == [i \in DOMAIN ops |-> RefLit(s, ops[i])]
        t == set_node_lit(new_sat_lit(s), n, IF gate = "mux" THEN -o ELSE o)
    IN  [t EXCEPT !.gates = @ \cup {o}, !.out = @ \cup Definition(gate, o, L)]

\* The worklist of lit_of: the operands a node still needs are all pushed and are
\* materialized, the last of them first, before the node is looked at again.
RECURSIVE Materialized(_, _, _)
Materialized(g0, s, n) ==
    LET node == g0.nodes[n]
        k == node.kids
        bound(r) == NodeOf(r) \in DOMAIN s.lit
        shape == IF bound(k[1]) /\ bound(k[2]) THEN [gate |-> "and", ops |-> k]
                 ELSE detect_shape(g0, n)
        missing == SelectSeq(shape.ops, LAMBDA r : ~bound(r))
        pushed(refs) == FoldLeft(LAMBDA t, r : Materialized(g0, t, NodeOf(r)), s, Reverse(refs))
        after(refs) == CHOOSE w \in {Materialized(g0, u, n) : u \in {pushed(refs)}} : TRUE
    IN  IF n \in DOMAIN s.lit THEN s
        ELSE IF node.op = "input" THEN set_node_lit(s, n, node.lit)
        ELSE IF Alias(g0, n)
             THEN IF bound(k[1]) THEN alias_node_lit(s, n, RefLit(s, k[1])) ELSE after(<<k[1]>>)
        ELSE IF missing # <<>> THEN after(missing)
        ELSE EmitGate(s, n, shape.gate, shape.ops)

lit_of(g0, s, refs) == FoldLeft(LAMBDA t, r : Materialized(g0, t, NodeOf(r)), s, refs)

--------------------------------------------------------------------------------
(***************************************************************************)
(* The batch.                                                               *)
(***************************************************************************)
\* The literals that are fixed at the root.
RECURSIVE RootFacts(_, _)
RootFacts(C, facts) ==
    LET more == facts \cup {l \in UNION C : \E c \in C : l \in c /\ \A x \in c \ {l} : -x \in facts}
    IN  IF more = facts THEN facts ELSE RootFacts(C, more)

Tautology(c) == \E l \in c : -l \in c

Prefiltered(batch, facts) ==
    {{l \in c : -l \notin facts} : c \in {d \in batch : d \cap facts = {} /\ ~Tautology(d)}}

Resolved(C, v) ==
    {c \in C : v \notin c /\ -v \notin c} \cup
    {r \in {(c \cup d) \ {v, -v} : c \in {x \in C : v \in x}, d \in {x \in C : -v \in x}} :
        ~Tautology(r)}

Dissolved(C, E) == FoldSet(LAMBDA v, D : Resolved(D, v), C, E)

\* Only a gate output allocated by the batch may be eliminated from it.
Eligible(s, start, batch) ==
    {v \in s.gates : v > start /\ v \in {VarOf(l) : l \in UNION batch}}

\* A bug Unbound must not have: the nodes keep the literals of the variables.
UnboundNot(s, E) == s

\* The nodes of the variables in E, aliases included, lose their literals.
Unbound(s, E) ==
    LET gone == UNION {{s.node[v]} \cup s.alias[v] : v \in E}
    IN  [s EXCEPT !.lit = Restrict(@, DOMAIN @ \ gone),
                  !.node = [v \in DOMAIN @ |-> IF v \in E THEN 0 ELSE @[v]],
                  !.alias = [v \in DOMAIN @ |-> IF v \in E THEN {} ELSE @[v]]]

--------------------------------------------------------------------------------
Init ==
    /\ client \in Clients /\ g = NewGraph(FALSE)
    /\ sat = NoBindings /\ clauses = {} /\ bits = <<>>
    /\ held = {} /\ asserted = {} /\ swept = 1 /\ steps = 0

Step == steps < client.steps /\ steps' = steps + 1

\* get_or_make_bv_var: a fresh variable and the input of its literal.  The names
\* of the bits are interchangeable.
MakeBit ==
    /\ Bits \ DOMAIN bits # {}
    /\ LET b == CHOOSE b \in Bits \ DOMAIN bits : TRUE
           d == input(g, NewVar(sat))
        IN  /\ g' = d.g
            /\ sat' = set_node_lit(new_sat_lit(sat), NodeOf(d.ref), NewVar(sat))
            /\ bits' = bits @@ (b :> d.ref)
            /\ held' = held \cup {<<d.ref, {M \in SUBSET Bits : b \in M}>>}
    /\ UNCHANGED <<client, clauses, asserted, swept, steps>>

Complement(F) == (SUBSET Bits) \ F
Refs == held \cup {<<-h[1], Complement(h[2])>> : h \in held}

\* The client builds a term over what it has; so are the signs of the bits in the
\* first one.
Build ==
    /\ Cardinality(held) < Cardinality(Bits) + client.builds
    /\ \E p, q \in Refs : \E built \in
          {[gate |-> "and", d |-> and(g, p[1], q[1]), fn |-> p[2] \cap q[2]],
           [gate |-> "xor", d |-> xor(g, p[1], q[1]), fn |-> (p[2] \ q[2]) \cup (q[2] \ p[2])]} :
          /\ built.gate \in client.gates
          /\ Code(p[1]) < Code(q[1]) /\ NodeOf(built.d.ref) # 1
          /\ Len(g.nodes) = 1 + Cardinality(DOMAIN bits) => p[1] > 0 /\ q[1] > 0
          /\ g' = built.d.g
          /\ held' = held \cup {<<built.d.ref, built.fn>>}
    /\ UNCHANGED <<client, sat, clauses, bits, asserted, swept, steps>>

\* sweep: nodes no earlier sweep looked at are merged, those whose query answers.
Swept(merged) ==
    FoldSet(LAMBDA m, h : merge_equiv(h, m, MergeTarget(g, m)), g, merged)

\* What an assertion says of its roots: one of them holds, or two are equal.
Said(s, roots) ==
    IF Len(roots) = 1 THEN {{RefLit(s, roots[1])}}
    ELSE {{-RefLit(s, roots[1]), RefLit(s, roots[2])}, {RefLit(s, roots[1]), -RefLit(s, roots[2])}}

\* An assertion is flushed: its roots, the clauses it adds over their literals,
\* and the variables that the batch dissolves.
Flush(roots, fn) ==
    /\ Step
    /\ \E merged \in SUBSET (IF client.sweeping THEN {m \in (swept + 1)..Len(g.nodes) : MergeTarget(g, m) # 0}
                             ELSE {}) :
       \E h \in {Swept(merged)} : \E s \in {lit_of(h, sat, roots)} :
       \E batch \in {Prefiltered(s.out \cup Said(s, roots), RootFacts(clauses, {}))} :
       \E E \in SUBSET Eligible(s, Len(sat.node), batch) :
          /\ g' = h
          /\ clauses' = clauses \cup Dissolved(batch, E)
          /\ sat' = [Unbound(s, E) EXCEPT !.out = {}]
    /\ swept' = Len(g.nodes)
    /\ asserted' = asserted \cup {<<{NodeOf(r) : r \in ToSet(roots)}, fn>>}
    /\ UNCHANGED <<client, bits, held>>

AssertTerm == \E p \in Refs : Flush(<<p[1]>>, p[2])

\* An equality between wide terms is asserted bit by bit, without its gates.
AssertEqual ==
    \E p, q \in Refs :
        /\ Code(p[1]) < Code(q[1]) /\ p[1] > 0
        /\ Flush(<<p[1], q[1]>>, {M \in SUBSET Bits : (M \in p[2]) <=> (M \in q[2])})

\* A query needs the literal of its term.
Query ==
    /\ Step
    /\ \E p \in held : \E s \in {lit_of(g, sat, <<p[1]>>)} :
          /\ clauses' = clauses \cup s.out
          /\ sat' = [s EXCEPT !.out = {}]
    /\ UNCHANGED <<client, g, bits, held, asserted, swept>>

\* retire_dead_cones and purge_vars: what neither an assertion nor a live term
\* reaches leaves the core.
Retire ==
    /\ client.retiring /\ Step
    /\ \E terms \in SUBSET {p \in held : IsAnd(g, NodeOf(p[1]))} :
       \E live \in {terms \cup {p \in held : client.keep_bits /\ ~IsAnd(g, NodeOf(p[1]))}} :
          LET kept == {NodeOf(p[1]) : p \in live} \cup UNION {a[1] : a \in asserted} \cup {1}
              dead == {v \in DOMAIN sat.node : sat.node[v] # 0 /\ sat.node[v] \notin Reach(g, kept, {})}
              s == Unbound(sat, dead)
          IN  /\ clauses' = {c \in clauses : \A l \in c : VarOf(l) \notin dead}
              /\ sat' = [s EXCEPT !.free = @ \o SetToSortSeq(dead, <)]
    /\ UNCHANGED <<client, g, bits, held, asserted, swept>>

Next == MakeBit \/ Build \/ AssertTerm \/ AssertEqual \/ Query \/ Retire

Spec == Init /\ [][Next]_conesVars

--------------------------------------------------------------------------------
Satisfying ==
    {M \in SUBSET (DOMAIN sat.node) :
        \A c \in clauses : \E l \in c : (l > 0 /\ l \in M) \/ (l < 0 /\ -l \notin M)}
TrueIn(l, M) == IF l > 0 THEN l \in M ELSE -l \notin M

\* The clauses say of the terms that have literals exactly what was asserted:
\* the values their literals take together in the models of the clauses are those
\* the terms take under the assignments that satisfy every assertion, whatever
\* was eliminated, merged, retired and materialized again (commit_batch,
\* retire_dead_cones).
CnfDenotes ==
    LET bound == {p \in held : NodeOf(p[1]) \in DOMAIN sat.lit}
        allowed == {M \in SUBSET Bits : \A a \in asserted : M \in a[2]}
    IN  {{p \in bound : TrueIn(RefLit(sat, p[1]), M)} : M \in Satisfying} =
        {{p \in bound : M \in p[2]} : M \in allowed}

\* A variable never answers for two nodes of which neither is an alias of the
\* other (set_node_lit, alias_node_lit).
OwnersAgree ==
    \A n \in DOMAIN sat.lit :
        sat.node[VarOf(sat.lit[n])] = n \/ n \in sat.alias[VarOf(sat.lit[n])]
================================================================================
