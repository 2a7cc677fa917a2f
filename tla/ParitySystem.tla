---------------------------- MODULE ParitySystem ----------------------------
(***************************************************************************)
(* Gaussian elimination over the parities of a batch (xorgauss.rs, and      *)
(* solve_xor_system in smt.rs): gates and unit clauses are collected as      *)
(* rows, a flush eliminates them and tells the solver what they prove, short *)
(* results as clauses and long ones as rows that it propagates itself.       *)
(***************************************************************************)
EXTENDS Integers, FiniteSets, Sequences, SequencesExt, FiniteSetsExt, Functions, TLC

CONSTANTS
    Vars,       \* of the solver, numbered from 1
    Inputs,     \* what may be added: sequences of variables, repetitions among them
    MaxLens,    \* the caps on the length of a row
    EmitLens,   \* up to which length rows may become clauses
    NativeMin,  \* from which length the others are handed over
    MaxRows     \* bound: the rows of a batch

VARIABLES
    rows,       \* collected and not solved yet
    told        \* what the last flush told the solver, and about which rows

parityVars == <<rows, told>>

--------------------------------------------------------------------------------
Row(vs, rhs) == [vars |-> vs, rhs |-> rhs]

Xor(p, q) == p # q

\* add: a variable that is repeated an even number of times cancels.
RowOf(s, rhs) == Row({v \in ToSet(s) : Cardinality({i \in DOMAIN s : s[i] = v}) % 2 = 1}, rhs)

\* xor_into
Sum(r, q) == Row((r.vars \cup q.vars) \ (r.vars \cap q.vars), Xor(r.rhs, q.rhs))

Leading(r) == Min(r.vars)
Size(r) == Cardinality(r.vars)

\* A row is reduced by the rows that have its leading variable, until it grows too long.
RECURSIVE Reduced(_, _, _)
Reduced(r, basis, cap) ==
    LET hits == {q \in basis : r.vars # {} /\ Leading(q) = Leading(r)}
    IN  IF hits = {} THEN r
        ELSE LET s == Sum(r, CHOOSE q \in hits : TRUE)
             IN  IF Size(s) > cap THEN s ELSE Reduced(s, basis, cap)

\* Forward elimination, of one more row.
Eliminated(e, r, cap) ==
    LET s == Reduced(r, ToSet(e.basis), cap)
    IN  IF e.conflict THEN e
        ELSE IF s.vars = {} THEN [e EXCEPT !.conflict = s.rhs]
        ELSE IF Size(s) > cap THEN [e EXCEPT !.dropped = TRUE]
        ELSE [e EXCEPT !.basis = Append(@, s)]

Echelon(rs, cap) ==
    FoldLeft(LAMBDA e, r : Eliminated(e, r, cap), [basis |-> <<>>, dropped |-> FALSE, conflict |-> FALSE], rs)

\* A solved variable leaves the other rows.
Without(r, v, val) == IF v \in r.vars THEN Row(r.vars \ {v}, Xor(r.rhs, val)) ELSE r

\* Rows of one variable are substituted in the others, which may become such rows.
RECURSIVE Propagated(_)
Propagated(s) ==
    IF s.queue = <<>> \/ s.conflict THEN s
    ELSE LET i == Head(s.queue)
             r == s.basis[i]
             v == Leading(r)
             rest == [s EXCEPT !.queue = Tail(@)]
             basis == [j \in DOMAIN s.basis |-> IF j = i THEN r ELSE Without(s.basis[j], v, r.rhs)]
             solved == {j \in DOMAIN basis : basis[j] # s.basis[j] /\ Size(basis[j]) = 1}
             clash == \/ <<v, ~r.rhs>> \in s.units
                      \/ \E j \in DOMAIN basis : basis[j] # s.basis[j] /\ basis[j] = Row({}, TRUE)
         IN  IF Size(r) # 1 \/ <<v, r.rhs>> \in s.units THEN Propagated(rest)
             ELSE Propagated([basis |-> basis, units |-> s.units \cup {<<v, r.rhs>>}, conflict |-> clash,
                              queue |-> rest.queue \o SetToSortSeq(solved, <)])

\* solve_emitting
Findings(rs, cap) ==
    LET e == Echelon(rs, cap)
        p == Propagated([basis |-> e.basis, units |-> {}, conflict |-> e.conflict,
                         queue |-> [i \in DOMAIN e.basis |-> i]])
    IN  [conflict |-> p.conflict, units |-> p.units, dropped |-> e.dropped,
         rows |-> {r \in ToSet(p.basis) : Size(r) >= 2}]

--------------------------------------------------------------------------------
(***************************************************************************)
(* solve_xor_system: a clause forbids an assignment of the wrong parity.    *)
(***************************************************************************)
Odd(S) == Cardinality(S) % 2 = 1

\* The variables of S are those that the forbidden assignment makes true.
Forbidding(r) ==
    {{-v : v \in S} \cup (r.vars \ S) : S \in {T \in SUBSET r.vars : Odd(T) # r.rhs}}

\* A bug Clausal must not have: only one of the clauses of an equivalence.
ClausalOnce(f, emit) ==
    {{IF u[2] THEN u[1] ELSE -u[1]} : u \in f.units}
        \cup {CHOOSE c \in Forbidding(r) : TRUE : r \in {q \in f.rows : Size(q) = 2}}
        \cup UNION {Forbidding(r) : r \in {q \in f.rows : Size(q) > 2 /\ Size(q) <= emit}}

Clausal(f, emit) ==
    {{IF u[2] THEN u[1] ELSE -u[1]} : u \in f.units}
        \cup UNION {Forbidding(r) : r \in {q \in f.rows : Size(q) = 2 \/ Size(q) <= emit}}

Native(f, emit) == {r \in f.rows : Size(r) > 2 /\ Size(r) > emit /\ Size(r) >= NativeMin}

Told(f, emit) ==
    IF f.conflict THEN [clauses |-> {{1}, {-1}}, native |-> {}]
    ELSE [clauses |-> Clausal(f, emit), native |-> Native(f, emit)]

--------------------------------------------------------------------------------
Nothing == [about |-> {}, whole |-> TRUE, said |-> [clauses |-> {}, native |-> {}]]

Init == rows = <<>> /\ told = Nothing

Add(s, rhs) ==
    /\ Len(rows) < MaxRows
    /\ rows' = Append(rows, RowOf(s, rhs))
    /\ told' = Nothing

Flush(cap, emit) ==
    /\ rows # <<>>
    /\ \E f \in {Findings(rows, cap)} :
          told' = [about |-> ToSet(rows), whole |-> ~f.dropped /\ emit >= NativeMin - 1,
                   said |-> Told(f, emit)]
    /\ rows' = <<>>

Next ==
    \/ \E s \in Inputs, rhs \in BOOLEAN : Add(s, rhs)
    \/ \E cap \in MaxLens, emit \in EmitLens : Flush(cap, emit)

Spec == Init /\ [][Next]_parityVars

--------------------------------------------------------------------------------
Obeys(M, r) == Odd(r.vars \cap M) = r.rhs
Satisfies(M, c) == \E l \in c : IF l > 0 THEN l \in M ELSE -l \notin M

Solutions(rs) == {M \in SUBSET Vars : \A r \in rs : Obeys(M, r)}
Models(said) == {M \in Solutions(said.native) : \A c \in said.clauses : Satisfies(M, c)}

\* Whatever was dropped for its length, all that a flush tells the solver follows
\* from the rows that were collected: elimination only ever strengthens
\* propagation (solve_emitting, solve_xor_system).
ToldIsImplied == Solutions(told.about) \subseteq Models(told.said)

\* When no row was dropped and none is of a length that is left out, what a flush
\* tells the solver is the whole of what its rows say, contradictions included.
ToldIsComplete == told.whole => Models(told.said) \subseteq Solutions(told.about)
================================================================================
