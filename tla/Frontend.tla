------------------------------ MODULE Frontend ------------------------------
(***************************************************************************)
(* The clients of the session's equations: a program that uses the library, *)
(* and the interpreter of SMT-LIB scripts (smtlib.rs: assert_body and the   *)
(* commands), which has a symbol table of its own and rebinds names that    *)
(* were not used yet.                                                       *)
(***************************************************************************)
EXTENDS Substitution

CONSTANT Clients

\* A client is a record: script says that it is the interpreter; formulas has what it
\* asserts, over the names, which are identifiers too; scopes whether it opens
\* scopes; careful that it never unites a class with bits with another one;
\* subst_enabled and gauss_enabled its session's switches; steps bounds its calls.

VARIABLES
    client,
    u,          \* the session
    symbols,    \* the term of each name
    declared,   \* the names that are bound to their variables and were not resolved
    asserted,   \* what was asserted in each scope
    steps

frontVars == <<client, u, symbols, declared, asserted, steps>>

Init ==
    /\ client \in Clients
    /\ u = NewSession(client.subst_enabled, client.gauss_enabled)
    /\ symbols = [n \in Vars |-> Var(n)] /\ declared = Vars
    /\ asserted = << {} >> /\ steps = 0

Step == steps < client.steps /\ steps' = steps + 1 /\ UNCHANGED client

Recorded(f) == asserted' = [asserted EXCEPT ![Len(asserted)] = @ \cup {f}]
Queued(w, f) == [w EXCEPT !.pending[Len(w.pending)] = Append(@, f)]

\* Two variables are equated: the first of them may be of a class that has bits.
ClassHasBits(t) == IsVar(t) /\ u.root[IdOf(t)] \in u.bits
Cautious(f) == client.careful /\ f.eq /\ IsVar(f.l) /\ IsVar(f.r) => ~ClassHasBits(f.l) /\ ~ClassHasBits(f.r)

\* assert, of the library.
AssertTerm(f) ==
    /\ Step /\ Cautious(f)
    /\ u' = Queued(u, f)
    /\ Recorded(f) /\ UNCHANGED <<symbols, declared>>

\* alias_bv_vars, when it succeeds: for good, whatever scope is open.
AliasVars(f) ==
    /\ Step /\ f.eq /\ MayAlias(u, f.l, f.r) /\ Cautious(f)
    /\ u' = alias_bv_vars(u, f.l, f.r)
    /\ asserted' = [asserted EXCEPT ![1] = @ \cup {f}] /\ UNCHANGED <<symbols, declared>>

Push ==
    /\ Step /\ client.scopes /\ Len(asserted) = 1
    /\ u' = [u EXCEPT !.pending = Append(@, <<>>)]
    /\ asserted' = Append(asserted, {}) /\ UNCHANGED <<symbols, declared>>

Pop ==
    /\ Step /\ Len(asserted) > 1
    /\ u' = [u EXCEPT !.pending = Front(@), !.cnf = {c \in @ : c.depth < Len(asserted)}]
    /\ asserted' = Front(asserted) /\ UNCHANGED <<symbols, declared>>

CheckSat ==
    /\ Step /\ u' = Flushed(u)
    /\ UNCHANGED <<symbols, declared, asserted>>

--------------------------------------------------------------------------------
(***************************************************************************)
(* Scripts.  Evaluating an expression resolves its names, which are then no *)
(* longer declared.                                                         *)
(***************************************************************************)
Meaning(t) == Expanded(t, symbols)
MeaningOf(f) == [f EXCEPT !.l = Meaning(@), !.r = Meaning(@)]

\* A name that was not used yet and the expression it is equal to.
match_substitution(f) ==
    LET left == IsVar(f.l) /\ IdOf(f.l) \in declared
        right == IsVar(f.r) /\ IdOf(f.r) \in declared
        m == IF left THEN <<f.l, f.r>> ELSE <<f.r, f.l>>
    IN  IF f.eq /\ (left \/ right) /\ IdOf(m[1]) \notin Occurring(m[2]) THEN {m} ELSE {}

\* assert_body: the name is rebound and nothing is asserted.
AssertRebinds(f) ==
    /\ Step
    /\ \E m \in match_substitution(f) :
          /\ symbols' = [symbols EXCEPT ![IdOf(m[1])] = Meaning(m[2])]
          /\ declared' = declared \ ({IdOf(m[1])} \cup Occurring(m[2]))
    /\ Recorded(f) /\ UNCHANGED u

\* Names bound to variables are united, if the session lets them.
AssertAliases(f) ==
    /\ Step /\ match_substitution(f) = {}
    /\ f.eq /\ IsVar(f.l) /\ IsVar(f.r) /\ MayAlias(u, Meaning(f.l), Meaning(f.r))
    /\ Cautious(MeaningOf(f))
    /\ u' = alias_bv_vars(u, Meaning(f.l), Meaning(f.r))
    /\ declared' = declared \ (Occurring(f.l) \cap Occurring(f.r))
    /\ Recorded(f) /\ UNCHANGED symbols

AssertPlainly(f) ==
    /\ Step /\ match_substitution(f) = {} /\ Cautious(MeaningOf(f))
    /\ ~(f.eq /\ IsVar(f.l) /\ IsVar(f.r) /\ MayAlias(u, Meaning(f.l), Meaning(f.r)))
    /\ u' = Queued(u, MeaningOf(f))
    /\ declared' = declared \ (Occurring(f.l) \cup Occurring(f.r))
    /\ Recorded(f) /\ UNCHANGED symbols

\* reset-assertions: a new session, in which every name is declared again.
ResetAssertions ==
    /\ Step
    /\ u' = NewSession(u.subst_enabled, u.gauss_enabled) /\ symbols' = [n \in Vars |-> Var(n)] /\ declared' = Vars
    /\ asserted' = << {} >>

ScopeOrQuery == Push \/ Pop \/ CheckSat

ApiNext == ~client.script /\ \E f \in client.formulas : AssertTerm(f) \/ AliasVars(f)
ScriptNext ==
    /\ client.script
    /\ (\E f \in client.formulas : AssertRebinds(f) \/ AssertAliases(f) \/ AssertPlainly(f)) \/ ResetAssertions

Next == ApiNext \/ ScriptNext \/ ScopeOrQuery

Spec == Init /\ [][Next]_frontVars

--------------------------------------------------------------------------------
Assignments == [Vars -> Value]
Solutions == {a \in Assignments : \A d \in DOMAIN asserted : \A f \in asserted[d] : Holds(f, a)}

\* The values that the names can be read to have.
Readings ==
    LET all == FoldSet(LAMBDA n, w : bitblast(w, symbols[n]), u, Vars)
        models == {a \in Assignments : ~u.dead /\ \A c \in u.cnf : c.eq <=> (Eval(c.form, a) = 0)}
    IN  {[n \in Vars |-> Eval(Circuit(all, symbols[n]), a)] : a \in models}

\* When everything is flushed, the values that can be read of the names in the
\* models of the clauses are exactly those that satisfy what is asserted in the
\* scopes in force: uniting, replacing, rebinding and solving neither lose a
\* constraint nor invent one (flush_pending, alias_bv_vars, assert_body).
SolutionsKept == (\A d \in DOMAIN u.pending : u.pending[d] = <<>>) => Readings = Solutions

\* A variable whose root was replaced has no bits of its own, or they would be
\* free (bitblast_bv, collect_substitutions).
ReplacedHaveNoBits == DOMAIN u.subst \cap u.bits = {}
================================================================================
