------------------------------- MODULE AigClient -------------------------------
(***************************************************************************)
(* A client builds functions over a few inputs and keeps the references it   *)
(* was given (smt.rs: the bit-blasting caches); in between the graph is      *)
(* rewritten in place under it.                                             *)
(***************************************************************************)
EXTENDS Aig

CONSTANT
    Clients     \* what clients there are, records: the gates it uses, whether its
                \* graph has the two-level rules, and bounds on its operations and
                \* on the passes and merges

VARIABLES
    client,     \* never changes
    g,
    held,       \* the references the client holds, each with the function it asked for
    pass,       \* the last substitution pass: its counts
    builds, rewrites

clientVars == <<client, g, held, pass, builds, rewrites>>

NoPass == [parents |-> <<>>, live |-> {}, roots |-> {}]

\* Up to a renaming of the inputs and their signs there is one first conjunction.
Init ==
    LET lits == SetToSeq(AigInputs)
        f[i \in 0..Len(lits)] == IF i = 0 THEN NewGraph(client.two_level) ELSE input(f[i - 1], lits[i]).g
    IN  /\ client \in Clients
        /\ g = and(f[Len(lits)], 2, 3).g
        /\ held = {<<n, NodeFunctions(g)[n]>> : n \in DOMAIN g.nodes}
        /\ pass = NoPass /\ builds = 0 /\ rewrites = 0

Refs == {h[1] : h \in held} \cup {-h[1] : h \in held}
Wanted(r) == IF \E h \in held : h[1] = r THEN (CHOOSE h \in held : h[1] = r)[2]
             ELSE Negated((CHOOSE h \in held : h[1] = -r)[2])

Built(gate, d, want) ==
    /\ builds < client.builds /\ gate \in client.gates
    /\ g' = d.g
    /\ held' = held \cup {<<d.ref, want>>}
    /\ pass' = NoPass
    /\ builds' = builds + 1
    /\ UNCHANGED <<client, rewrites>>

And == \E a, b \in Refs : Code(a) < Code(b) /\ Built("and", and(g, a, b), Wanted(a) \cap Wanted(b))

Xor ==
    \E a, b \in Refs :
        /\ Code(a) < Code(b)
        /\ Built("xor", xor(g, a, b), (Wanted(a) \ Wanted(b)) \cup (Wanted(b) \ Wanted(a)))

Mux ==
    \E s, t, e \in Refs \ {True, False} :
        /\ Code(t) < Code(e)
        /\ Built("mux", mux(g, s, t, e), (Wanted(s) \cap Wanted(t)) \cup (Wanted(e) \ Wanted(s)))

Ands == {n \in DOMAIN g.nodes : IsAnd(g, n)}

\* What has a literal is pinned, and so is everything below it.  One reference
\* is asserted, or all of them.
Passed(s, roots) ==
    /\ g' = s.g
    /\ pass' = [parents |-> s.parents, live |-> s.live, roots |-> roots]

Rewrite ==
    /\ rewrites < client.rewrites
    /\ \E roots \in {{r} : r \in {h[1] : h \in held} \cap Ands} \cup {{h[1] : h \in held}} : \E p \in {{}} \cup {{n} : n \in Ands} :
          Passed(substitute_pass(g, roots, Reach(g, p, {})), roots)
    /\ rewrites' = rewrites + 1
    /\ UNCHANGED <<client, held, builds>>

\* A query of the sweep may also give up, so any of the merges may be missing.
Merge ==
    /\ rewrites < client.rewrites
    /\ \E m \in Ands : MergeTarget(g, m) # 0 /\ g' = merge_equiv(g, m, MergeTarget(g, m))
    /\ pass' = NoPass
    /\ rewrites' = rewrites + 1
    /\ UNCHANGED <<client, held, builds>>

Next == And \/ Xor \/ Mux \/ Rewrite \/ Merge

Spec == Init /\ [][Next]_clientVars

--------------------------------------------------------------------------------
\* A reference that was handed out keeps the function that was asked for,
\* through every fold, rewrite and merge ("every existing holder of a ref stays
\* valid", substitute_pass).
RefsKeepTheirFunction ==
    LET fs == NodeFunctions(g) IN \A h \in held : FunctionOf(fs, h[1]) = h[2]

\* The children of a node are older than it, whatever was rewritten (Aig).
ChildrenOlder == \A n \in Ands : \A k \in Kids(g, n) : NodeOf(k) < n

\* After a pass the counts that decided what is bypassed are the live parents.
ParentsExact ==
    pass.roots = {} \/
    \A n \in DOMAIN g.nodes : pass.parents[n] = EdgesTo(g, pass.live, n) + RootsTo(pass.roots, n)
================================================================================
