---------------------------- MODULE Substitution ----------------------------
(***************************************************************************)
(* What the session does with equations before they become clauses (smt.rs:  *)
(* alias_bv_vars, collect_substitutions, gaussian_eliminate, apply_subst_bv, *)
(* bitblast_bv): variables are united, replaced by terms, or solved for in   *)
(* linear systems modulo 2^Width.                                           *)
(*                                                                          *)
(* A term is a linear form over the variables: what the passes tell apart    *)
(* is whether it is a bare variable and what its coefficients are.  A        *)
(* circuit is a linear form too, over the variables that own SAT bits.       *)
(***************************************************************************)
EXTENDS Integers, FiniteSets, Sequences, SequencesExt, FiniteSetsExt, Functions, TLC

CONSTANTS
    Vars,       \* the identifiers of the variables, natural numbers
    Width       \* of every variable

ASSUME VarsNat == Vars \subseteq Nat /\ Width \in Nat \ {0}

Modulus == 2 ^ Width
Value == 0..(Modulus - 1)

--------------------------------------------------------------------------------
(***************************************************************************)
(* Terms and formulas.                                                      *)
(***************************************************************************)
Const(k) == [c |-> [v \in Vars |-> 0], k |-> k % Modulus]
Var(v) == [c |-> [w \in Vars |-> IF w = v THEN 1 ELSE 0], k |-> 0]
Plus(s, t) == [c |-> [v \in Vars |-> (s.c[v] + t.c[v]) % Modulus], k |-> (s.k + t.k) % Modulus]
Times(n, t) == [c |-> [v \in Vars |-> (n * t.c[v]) % Modulus], k |-> (n * t.k) % Modulus]
Minus(s, t) == Plus(s, Times(Modulus - 1, t))

Occurring(t) == {v \in Vars : t.c[v] # 0}
IsVar(t) == \E v \in Vars : t = Var(v)
IdOf(t) == CHOOSE v \in Vars : t = Var(v)

\* A term over names, each of which stands for a term.
Expanded(t, meaning) == FoldSet(LAMBDA v, s : Plus(Times(t.c[v], meaning[v]), s), Const(t.k), Occurring(t))

Eval(t, a) == Expanded(t, [v \in Vars |-> Const(a[v])]).k

\* An equation, or the negation of one.
Holds(f, a) == f.eq <=> (Eval(f.l, a) = Eval(f.r, a))

--------------------------------------------------------------------------------
(***************************************************************************)
(* The state of the session: root is the union-find, bits the roots that    *)
(* have SAT bits (bv_var_refs), circ the circuits of the variables that were *)
(* bit-blasted (bv_cache), subst the substitutions by root, cnf what the core *)
(* was told at each depth, pending the queues.                              *)
(***************************************************************************)
NewSession(subst_enabled, gauss_enabled) ==
    [root |-> [v \in Vars |-> v], bits |-> {}, circ |-> <<>>, subst |-> <<>>,
     cnf |-> {}, pending |-> << <<>> >>, dead |-> FALSE,
     subst_enabled |-> subst_enabled, gauss_enabled |-> gauss_enabled]

\* Merging keeps the smaller root.
union(u, a, b) ==
    LET r == Min({u.root[a], u.root[b]})
        child == Max({u.root[a], u.root[b]})
    IN  [u EXCEPT !.root = [v \in Vars |-> IF @[v] = child THEN r ELSE @[v]]]

\* The variables are looked up by their own identifiers, the bits are kept by root.
MayAlias(u, x, y) ==
    /\ IsVar(x) /\ IsVar(y)
    /\ IdOf(x) \notin u.bits /\ IdOf(y) \notin u.bits
    /\ u.root[IdOf(x)] \notin DOMAIN u.subst /\ u.root[IdOf(y)] \notin DOMAIN u.subst

alias_bv_vars(u, x, y) == union(u, IdOf(x), IdOf(y))

\* A variable is bit-blasted once; one that was replaced is its term.
RECURSIVE bitblast(_, _)
bitblast(u, t) ==
    FoldSet(LAMBDA v, w :
                LET r == w.root[v] IN
                IF v \in DOMAIN w.circ THEN w
                ELSE IF r \notin DOMAIN w.subst
                THEN [w EXCEPT !.bits = @ \cup {r}, !.circ = @ @@ (v :> Var(r))]
                ELSE CHOOSE z \in {[x EXCEPT !.circ = @ @@ (v :> Expanded(w.subst[r], x.circ))] :
                                      x \in {bitblast(w, w.subst[r])}} : TRUE,
            u, Occurring(t))

Circuit(u, t) == Expanded(t, u.circ)

--------------------------------------------------------------------------------
(***************************************************************************)
(* Substitutions.                                                           *)
(***************************************************************************)
Solvable(u, v) == u.root[v] \notin u.bits /\ u.root[v] \notin DOMAIN u.subst

RECURSIVE subst_occurs(_, _, _)
subst_occurs(u, r, t) ==
    \E v \in Occurring(t) :
        \/ u.root[v] = r
        \/ u.root[v] \in DOMAIN u.subst /\ subst_occurs(u, r, u.subst[u.root[v]])

Replaceable(u, x, t) == IsVar(x) /\ Solvable(u, IdOf(x)) /\ ~subst_occurs(u, u.root[IdOf(x)], t)
Replaced(u, r, t) == [u EXCEPT !.subst = @ @@ (r :> t)]

\* collect_substitutions: for each equation of the batch.
Collected(u, f) ==
    IF ~f.eq THEN u
    ELSE IF MayAlias(u, f.l, f.r) THEN alias_bv_vars(u, f.l, f.r)
    ELSE IF Replaceable(u, f.l, f.r) THEN Replaced(u, u.root[IdOf(f.l)], f.r)
    ELSE IF Replaceable(u, f.r, f.l) THEN Replaced(u, u.root[IdOf(f.r)], f.l)
    ELSE u

collect_substitutions(u, batch) == FoldLeft(Collected, u, batch)

RECURSIVE apply_subst(_, _)
apply_subst(u, t) ==
    Expanded(t, [v \in Occurring(t) |->
                    IF u.root[v] \in DOMAIN u.subst THEN apply_subst(u, u.subst[u.root[v]]) ELSE Var(v)])

--------------------------------------------------------------------------------
(***************************************************************************)
(* Gaussian elimination.                                                    *)
(***************************************************************************)
\* Newton iteration; an odd number is its own inverse modulo 8.
RECURSIVE Newton(_, _, _)
Newton(a, x, n) == IF n = 0 THEN x ELSE Newton(a, (x * (2 - a * x)) % Modulus, n - 1)
mod_inverse_pow2(a) == Newton(a, a, 7)

\* A row says that its linear form is 0.
Row(u, f) == apply_subst(u, Minus(f.l, f.r))

\* A bug Candidates must not have: a coefficient without an inverse is solved for.
CandidatesEven(u, s, i) == {v \in Occurring(s.rows[i]) : v \notin Range(s.pivot) /\ Solvable(u, v)}

\* Row i is solved for its first variable with an odd coefficient that no row was
\* solved for yet, and that variable leaves the other rows.
Candidates(u, s, i) ==
    {v \in Occurring(s.rows[i]) : s.rows[i].c[v] % 2 = 1 /\ v \notin Range(s.pivot) /\ Solvable(u, v)}

Pivoted(u, s, i) ==
    LET v == Min(Candidates(u, s, i))
        solved == Times(mod_inverse_pow2(s.rows[i].c[v]), s.rows[i])
    IN  IF Candidates(u, s, i) = {} THEN s
        ELSE [rows |-> [j \in DOMAIN s.rows |->
                           IF j = i THEN solved ELSE Minus(s.rows[j], Times(s.rows[j].c[v], solved))],
              pivot |-> s.pivot @@ (i :> v)]

\* A solved row is installed unless that would make a cycle.
Installed(u, v, row) ==
    LET r == u.root[v]
        t == Minus(Var(v), row)
    IN  IF Solvable(u, v) /\ ~subst_occurs(u, r, t) THEN Replaced(u, r, t) ELSE u

Contradicts(row) == Occurring(row) = {} /\ row.k # 0

\* gaussian_eliminate: the session and the batch that is left.  The equations of
\* solved rows, and of rows that became 0 = 0, are dropped.
gaussian_eliminate(u, batch) ==
    LET equations == SelectSeq(batch, LAMBDA f : f.eq)
        sources == SelectSeq(equations, LAMBDA f : Occurring(Row(u, f)) # {})
        start == [rows |-> [i \in DOMAIN sources |-> Row(u, sources[i])], pivot |-> <<>>]
        end == FoldLeft(LAMBDA s, i : Pivoted(u, s, i), start, [i \in DOMAIN sources |-> i])
        consumed == {sources[i] : i \in {j \in DOMAIN sources :
                                            j \in DOMAIN end.pivot \/ Occurring(end.rows[j]) = {}}}
    IN  IF \/ \E i \in DOMAIN equations : Contradicts(Row(u, equations[i]))
           \/ \E i \in DOMAIN sources : Contradicts(end.rows[i])
        THEN [u |-> [u EXCEPT !.dead = TRUE], batch |-> <<>>]
        ELSE [u |-> FoldLeft(LAMBDA w, i : IF i \in DOMAIN end.pivot THEN Installed(w, end.pivot[i], end.rows[i]) ELSE w,
                             u, [i \in DOMAIN sources |-> i]),
              batch |-> SelectSeq(batch, LAMBDA f : f \notin consumed)]

--------------------------------------------------------------------------------
\* The clauses of a formula at a depth.
Told(u, d, f) ==
    CHOOSE r \in {[w EXCEPT !.cnf = @ \cup {[depth |-> d, form |-> Minus(Circuit(w, f.l), Circuit(w, f.r)), eq |-> f.eq]}] :
                     w \in {bitblast(bitblast(u, f.l), f.r)}} : TRUE

\* flush_pending: equations are used only when no scope is open.
Flushed(u) ==
    LET top == Len(u.pending) = 1
        queues == u.pending
        a == [u EXCEPT !.pending = [d \in DOMAIN @ |-> <<>>]]
        b == IF top /\ u.subst_enabled THEN collect_substitutions(a, queues[1]) ELSE a
        g == IF top /\ u.gauss_enabled THEN gaussian_eliminate(b, queues[1]) ELSE [u |-> b, batch |-> queues[1]]
        subst(f) == IF top THEN [f EXCEPT !.l = apply_subst(g.u, @), !.r = apply_subst(g.u, @)] ELSE f
        tell(w, d, fs) == FoldLeft(LAMBDA x, f : Told(x, d, subst(f)), w, fs)
    IN  FoldLeft(LAMBDA w, d : tell(w, d, IF d = 1 THEN g.batch ELSE queues[d]), g.u, [d \in DOMAIN queues |-> d])
================================================================================
