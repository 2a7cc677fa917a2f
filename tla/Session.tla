------------------------------ MODULE Session ------------------------------
(***************************************************************************)
(* The incremental session above the SAT core (smt.rs, "Solver control"):   *)
(* scopes, named assertions, the queue of assertions that were not flushed, *)
(* the prefix of the assumption list that the session vouches for, and the  *)
(* model it banks so that later queries need no solve.                      *)
(*                                                                          *)
(* A term is the set of the assignments (Worlds) under which it is true, and *)
(* the SAT core is exact: it finds a model if there is one, any of them.     *)
(* How cones become clauses is the business of Cones, how the core searches  *)
(* that of Solver.                                                          *)
(***************************************************************************)
EXTENDS Integers, FiniteSets, Sequences, SequencesExt, FiniteSetsExt, Functions, TLC

CONSTANTS
    Worlds,         \* the assignments of the client's variables
    XBits,          \* the bits of the vector it enumerates and optimizes, high first
    Clients         \* what the clients ask

\* A client is a record: terms has the terms it asserts and asks about, none of them
\* always true or always false; queries the lists of assumptions it uses; batches
\* the lists of candidates it asks about together; limits those of its
\* enumerations; budgeted whether it gives solves a budget; calls bounds their number.

VARIABLES
    client,
    s,      \* the session and its core: see NewSession
    scopes, \* for each scope the assignments its assertions allow
    reply,  \* the last answer, with what it should tell
    steps

sessionVars == <<client, s, scopes, reply, steps>>

\* The core: num counts its variables, node has those that stand for terms, free
\* the recycled ones; a clause says that its guards, which are variables of
\* controls, imply its body.  installed is Solver.assumptions, model the standing
\* one (a set of at most one), hints the prefixes that callers vouched for.
\* The session: unbanked says that banked_gen is not model_gen, pins are the
\* asserted_roots, asmpTerms and asmpLits the prefix caches.
NewSession ==
    [num |-> 0, node |-> <<>>, free |-> <<>>, clauses |-> {}, installed |-> <<>>,
     model |-> {}, hints |-> TRUE,
     acts |-> <<>>, named |-> <<>>, pending |-> << {} >>, pins |-> {},
     asmpTerms |-> <<>>, asmpLits |-> <<>>, dirty |-> TRUE,
     banked |-> {}, unbanked |-> FALSE, last |-> "none", res |-> "none"]

--------------------------------------------------------------------------------
(***************************************************************************)
(* Variables and literals.                                                  *)
(***************************************************************************)
VarOf(l) == IF l > 0 THEN l ELSE -l

\* A term and its negation have the same node.
Pivot == CHOOSE w \in Worlds : TRUE
Node(t) == IF Pivot \in t THEN t ELSE Worlds \ t
Bound(u, t) == \E v \in DOMAIN u.node : u.node[v] = Node(t)
TermVar(u, t) == CHOOSE v \in DOMAIN u.node : u.node[v] = Node(t)
Lit(u, t) == IF Pivot \in t THEN TermVar(u, t) ELSE -TermVar(u, t)

NewVar(u) == IF u.free = <<>> THEN u.num + 1 ELSE Last(u.free)

new_sat_lit(u) ==
    [(IF u.free = <<>> THEN [u EXCEPT !.num = @ + 1] ELSE [u EXCEPT !.free = Front(@)])
        EXCEPT !.banked = {[m EXCEPT !.vals = Restrict(@, DOMAIN @ \ {NewVar(u)})] : m \in @}]

add_clause(u, guards, body) ==
    [u EXCEPT !.clauses = @ \cup {[guards |-> guards, body |-> body]}, !.model = {}]

\* The definition of a cone is emitted as clauses: the standing model is gone.
lit_of(u, t) ==
    IF Bound(u, t) THEN u
    ELSE [new_sat_lit(u) EXCEPT !.node = (NewVar(u) :> Node(t)) @@ @, !.model = {}]

lits_of(u, terms) == FoldLeft(LAMBDA w, t : lit_of(w, t), u, terms)

\* The value of a term in a model: that of its variable, if the model has it,
\* computed from the inputs otherwise.
Eval(u, m, t) ==
    IF Bound(u, t) /\ TermVar(u, t) \in DOMAIN m.vals
    THEN m.vals[TermVar(u, t)] <=> Pivot \in t
    ELSE m.world \in t

--------------------------------------------------------------------------------
(***************************************************************************)
(* The SAT core.                                                            *)
(***************************************************************************)
\* Only guards that are assumed are true.
Models(u, list) ==
    {w \in Worlds :
        /\ \A i \in DOMAIN list : LET v == VarOf(list[i]) IN
              v \in DOMAIN u.node => ((w \in u.node[v]) <=> (list[i] > 0))
        /\ \A c \in u.clauses : c.guards \subseteq ToSet(list) => w \in c.body}

Assignment(u, list, w) ==
    [world |-> w,
     vals |-> [v \in (1..u.num) \ ToSet(u.free) |->
                  IF v \in DOMAIN u.node THEN w \in u.node[v] ELSE v \in ToSet(list)]]

\* solve_under_assumptions_hinted: the outcomes.  The prefix that is vouched for is
\* not compared with the list that is installed; only the rest is written.  A core
\* that knows it is unsatisfiable installs nothing.
SatCalls(u, list, vouched) ==
    LET t == Min({vouched, Len(u.installed), Len(list)})
        solved == SubSeq(u.installed, 1, t) \o SubSeq(list, t + 1, Len(list))
        found == Models(u, solved)
        after == [u EXCEPT !.installed = solved,
                           !.hints = @ /\ SubSeq(u.installed, 1, t) = SubSeq(list, 1, t)]
    IN  IF Models(u, <<>>) = {} THEN {[u EXCEPT !.model = {}, !.res = "unsat"]}
        ELSE IF found = {} THEN {[after EXCEPT !.model = {}, !.res = "unsat"]}
        ELSE {[after EXCEPT !.model = {Assignment(u, solved, w)}, !.unbanked = TRUE,
                            !.res = "sat"] : w \in found}

--------------------------------------------------------------------------------
(***************************************************************************)
(* The banked model.                                                        *)
(***************************************************************************)
bank_model(u) ==
    IF u.model # {} /\ u.unbanked THEN [u EXCEPT !.banked = u.model, !.unbanked = FALSE] ELSE u

\* A bug invalidate must not have: the standing model may be banked after it.
invalidate_standing(u) == [u EXCEPT !.banked = {}]

\* Neither the banked model nor the standing one vouches for anything anymore.
invalidate(u) == [u EXCEPT !.banked = {}, !.unbanked = FALSE]

\* The banked model has every control true and satisfies the assumptions.
banked_model_holds(u, terms) ==
    \E m \in u.banked :
        /\ \A c \in ToSet(u.acts \o u.named) : c \in DOMAIN m.vals /\ m.vals[c]
        /\ \A i \in DOMAIN terms : Eval(u, m, terms[i])

--------------------------------------------------------------------------------
(***************************************************************************)
(* The assumption list and what the session vouches for.                    *)
(***************************************************************************)
Shared(u, terms) ==
    Max({k \in 0..Min({Len(terms), Len(u.asmpTerms)}) : SubSeq(terms, 1, k) = SubSeq(u.asmpTerms, 1, k)})

\* build_assumption_lits_counted: the caches are the list.
Build(u, terms) ==
    LET k == Shared(u, terms)
        tail == SubSeq(terms, k + 1, Len(terms))
    IN  CHOOSE r \in {[v EXCEPT !.asmpTerms = terms,
                                !.asmpLits = SubSeq(@, 1, k) \o [i \in DOMAIN tail |-> Lit(v, tail[i])]] :
                         v \in {lits_of(u, tail)}} : TRUE

built_assumptions(u) == u.acts \o u.named \o u.asmpLits

trusted_for(u, shared) == IF u.dirty THEN 0 ELSE Len(u.acts) + Len(u.named) + shared

sat_solve_hinted(u, list, vouched) ==
    {[v EXCEPT !.dirty = FALSE] : v \in SatCalls(u, list, vouched)}

\* flush_pending: the outcomes.  Without work the standing model is banked.  With
\* work it is gone, unless every assertion was absorbed by substitutions.
Flushed(u) ==
    LET added == UNION {{[guards |-> IF d = 1 THEN {} ELSE {u.acts[d - 1]}, body |-> t] :
                            t \in u.pending[d]} : d \in DOMAIN u.pending}
        v == [invalidate(u) EXCEPT
                 !.clauses = @ \cup added, !.pending = [d \in DOMAIN @ |-> {}],
                 !.pins = @ \cup {Node(t) : t \in UNION ToSet(u.pending)},
                 !.asmpTerms = <<>>, !.asmpLits = <<>>]
    IN  IF added = {} THEN {bank_model(u)}
        ELSE {[v EXCEPT !.model = {}]} \cup (IF u.acts = <<>> THEN {v} ELSE {})

--------------------------------------------------------------------------------
(***************************************************************************)
(* The calls.                                                               *)
(***************************************************************************)
Allowed == {w \in Worlds : \A d \in DOMAIN scopes : w \in scopes[d]}
Possible(terms) == {w \in Allowed : \A i \in DOMAIN terms : w \in terms[i]}
Answer(W) == IF W = {} THEN "unsat" ELSE "sat"
NoReply == [kind |-> "none"]

Init ==
    /\ client \in Clients /\ s = NewSession /\ scopes = << Worlds >> /\ reply = NoReply /\ steps = 0

Step == steps < client.calls /\ steps' = steps + 1 /\ UNCHANGED client
Commands == Step /\ reply' = NoReply

AssertPending(t) ==
    /\ Commands
    /\ s' = [s EXCEPT !.last = "none", !.pending[Len(s.pending)] = @ \cup {t}]
    /\ scopes' = [scopes EXCEPT ![Len(scopes)] = @ \cap t]

\* The clause has the control and the innermost activation as guards.
assert_named(u, t) ==
    LET c == NewVar(lit_of(u, t))
        v == add_clause(new_sat_lit(lit_of(u, t)), {c} \cup (IF u.acts = <<>> THEN {} ELSE {Last(u.acts)}), t)
    IN  [v EXCEPT !.last = "none", !.dirty = TRUE, !.pins = @ \cup {Node(t)}, !.named = Append(@, c)]

AssertNamed(t) ==
    /\ Commands
    /\ s' = assert_named(s, t)
    /\ scopes' = [scopes EXCEPT ![Len(scopes)] = @ \cap t]

Push ==
    /\ Commands
    /\ s' = [new_sat_lit(s) EXCEPT !.last = "none", !.dirty = TRUE,
                !.acts = Append(@, NewVar(s)), !.pending = Append(@, {})]
    /\ scopes' = Append(scopes, Worlds)

pop(u) ==
    add_clause([bank_model(u) EXCEPT !.last = "none", !.dirty = TRUE, !.acts = Front(@),
                   !.pending = Front(@)], {Last(u.acts)}, {})

Pop ==
    /\ s.acts # <<>> /\ Commands
    /\ s' = pop(s) /\ scopes' = Front(scopes)

\* A bug retired must not have: literals of retired cones stay in the caches.
retired_cached(u, live) ==
    LET dead == {v \in DOMAIN u.node : u.node[v] \notin u.pins \cup live}
    IN  [u EXCEPT !.node = Restrict(@, DOMAIN @ \ dead), !.free = @ \o SetToSortSeq(dead, <),
                  !.model = {}, !.last = "none"]

\* retire_dead_cones after its flush; live has the nodes that may be needed again.
retired(u, live) ==
    LET dead == {v \in DOMAIN u.node : u.node[v] \notin u.pins \cup live}
    IN  [u EXCEPT !.node = Restrict(@, DOMAIN @ \ dead), !.free = @ \o SetToSortSeq(dead, <),
                  !.asmpTerms = <<>>, !.asmpLits = <<>>, !.model = {}, !.last = "none"]

Retire ==
    /\ Commands
    /\ \E u \in Flushed(s) : \E live \in SUBSET {Node(t) : t \in client.terms} : s' = retired(u, live)
    /\ UNCHANGED scopes

--------------------------------------------------------------------------------
Asked == Step /\ UNCHANGED scopes
Replied(kind, got, want) == reply' = [kind |-> kind, got |-> got, want |-> want]

\* solve, solve_under_assumptions.
SolvedWith(u, terms) ==
    UNION {LET b == Build(v, terms)
           IN  sat_solve_hinted(b, built_assumptions(b), trusted_for(b, Shared(v, terms))) : v \in Flushed(u)}

Solve(terms) ==
    /\ Asked
    /\ \E v \in SolvedWith(s, terms) :
          s' = [v EXCEPT !.last = v.res] /\ Replied("sat", v.res, Answer(Possible(terms)))

\* solve_under_assumptions_bounded and _timed: nothing is vouched for, the controls
\* stay dirty, and when the budget is spent the last result stays.
SolveBudgeted(terms) ==
    /\ client.budgeted /\ Asked
    /\ \E u \in Flushed(s) : \E b \in {Build(u, terms)} : \E v \in SatCalls(b, built_assumptions(b), 0) :
          \/ s' = [v EXCEPT !.last = v.res] /\ Replied("sat", v.res, Answer(Possible(terms)))
          \/ s' = [v EXCEPT !.model = {}, !.unbanked = b.unbanked] /\ reply' = NoReply

\* A bug Probed must not have: the solver's list is taken to be the one that was built.
probed_clean(u, terms) == Build(u, terms)

\* The list is built and not solved.
Probed(u, terms) == [Build(u, terms) EXCEPT !.dirty = TRUE]

\* bv_known_bits_under_assumptions: the core propagates, and keeps its list.
KnownBits(terms) ==
    /\ Commands /\ UNCHANGED scopes
    /\ \E u \in Flushed(s) : s' = [Probed(lits_of(u, XBits), terms) EXCEPT !.last = "none", !.model = {}]

\* failed_assumptions, for a list that was just refuted.
FailedAssumptions ==
    /\ s.last = "unsat" /\ Commands /\ UNCHANGED scopes
    /\ s' = Probed(s, s.asmpTerms)

--------------------------------------------------------------------------------
\* solve_many_u_under_assumptions: found has the values so far; act guards the
\* clauses that block them.
Agrees(w, x) == \A i \in DOMAIN XBits : (w \in XBits[i]) <=> (x \in XBits[i])

RECURSIVE Enumerated(_, _, _, _, _, _)
Enumerated(u, list, vouched, act, limit, found) ==
    IF Cardinality(found) >= limit THEN {[u EXCEPT !.res = <<found, FALSE>>]}
    ELSE UNION {IF v.res = "unsat" THEN {[v EXCEPT !.res = <<found, TRUE>>]}
                ELSE LET w == (CHOOSE m \in v.model : TRUE).world
                     IN  Enumerated(add_clause(v, {act}, {x \in Worlds : ~Agrees(w, x)}), list,
                                    Len(list), act, limit, found \cup {w}) :
                v \in sat_solve_hinted(u, list, vouched)}

Closed(u, act) == add_clause(u, {act}, {})

SolveMany(terms, limit) ==
    /\ Asked
    /\ \E u \in Flushed(s) : \E x \in {lits_of(u, XBits)} : \E b \in {Build(x, terms)} :
       LET act == NewVar(b)
           list == Append(built_assumptions(b), act)
       IN  \E v \in Enumerated(new_sat_lit(b), list, trusted_for(b, Shared(x, terms)), act, limit, {}) :
              /\ s' = [Closed(v, act) EXCEPT !.last = "none", !.res = "none"]
              /\ Replied("many", v.res, Possible(terms))

--------------------------------------------------------------------------------
\* solve_each_under_assumptions.
Screened(u, m, cands, results) ==
    [i \in DOMAIN cands |-> IF results[i] = "open" /\ Eval(u, m, cands[i]) THEN "sat" ELSE results[i]]

RECURSIVE EachFrom(_, _, _, _, _)
EachFrom(u, cands, results, list, vouched) ==
    IF \A i \in DOMAIN cands : results[i] # "open" THEN {[bank_model(u) EXCEPT !.res = results]}
    ELSE LET next == CHOOSE i \in DOMAIN cands : results[i] = "open" /\ \A j \in 1..(i - 1) : results[j] # "open"
             c == lit_of(u, cands[next])
         IN  UNION {EachFrom(v, cands,
                             LET r == [results EXCEPT ![next] = v.res]
                             IN  IF v.res = "sat" THEN Screened(v, CHOOSE m \in v.model : TRUE, cands, r) ELSE r,
                             list, Len(list)) :
                    v \in sat_solve_hinted(c, Append(list, Lit(c, cands[next])), Min({vouched, Len(list)}))}

\* The base is solved first, unless the banked model holds; the undecided
\* candidates get their literals before that.
EachOf(u, cands, terms) ==
    LET warm == banked_model_holds(u, terms)
        open == [i \in DOMAIN cands |-> "open"]
        results == IF warm THEN Screened(u, CHOOSE m \in u.banked : TRUE, cands, open) ELSE open
        b == Build(u, terms)
        c == lits_of(b, SelectSeq(cands, LAMBDA t : \E i \in DOMAIN cands : cands[i] = t /\ results[i] = "open"))
        list == built_assumptions(c)
        vouched == trusted_for(b, Shared(u, terms))
    IN  IF warm \/ cands = <<>>
        THEN EachFrom(IF \A i \in DOMAIN cands : results[i] # "open" THEN u ELSE c, cands, results, list, vouched)
        ELSE UNION {IF v.res = "unsat" THEN {[v EXCEPT !.res = [i \in DOMAIN cands |-> "unsat"]]}
                    ELSE EachFrom(bank_model(v), cands,
                                  Screened(v, CHOOSE m \in v.model : TRUE, cands, open), list, Len(list)) :
                    v \in sat_solve_hinted(c, list, vouched)}

Each(u, cands, terms) == UNION {EachOf(v, cands, terms) : v \in Flushed(u)}

SolveEach(cands, terms) ==
    /\ Asked
    /\ \E v \in Each(s, cands, terms) :
          /\ s' = [v EXCEPT !.last = "none", !.res = "none"]
          /\ Replied("sat", v.res, [i \in DOMAIN cands |-> Answer(Possible(Append(terms, cands[i])))])

--------------------------------------------------------------------------------
\* solve_pair_impl: the answers for a condition and its negation.
OtherSide(u, cond, side, list, vouched) ==
    LET c == lit_of(u, cond)
        asked == Append(list, IF side THEN -Lit(c, cond) ELSE Lit(c, cond))
    IN  {[bank_model(v) EXCEPT !.res = IF side THEN <<"sat", v.res>> ELSE <<v.res, "sat">>] :
            v \in sat_solve_hinted(c, asked, Min({vouched, Len(list)}))}

PairOf(u, cond, terms, baseKnown) ==
    LET b == Build(u, terms)
        c == lit_of(b, cond)
        list == built_assumptions(b)
        vouched == trusted_for(b, Shared(u, terms))
        asked == IF baseKnown THEN Append(list, Lit(c, cond)) ELSE list
    IN  IF banked_model_holds(u, terms)
        THEN OtherSide(b, cond, Eval(u, CHOOSE m \in u.banked : TRUE, cond), list, vouched)
        ELSE UNION {IF v.res = "unsat" THEN {[v EXCEPT !.res = <<"unsat", IF baseKnown THEN "sat" ELSE "unsat">>]}
                    ELSE OtherSide(bank_model(v), cond,
                                   baseKnown \/ Eval(v, CHOOSE m \in v.model : TRUE, cond), list, Len(list)) :
                    v \in sat_solve_hinted(c, asked, Min({vouched, Len(list)}))}

\* A client that says that the base is satisfiable is right.
SolvePair(cond, terms, baseKnown) ==
    /\ Asked
    /\ baseKnown => Possible(terms) # {}
    /\ \E u \in Flushed(s) : \E v \in PairOf(u, cond, terms, baseKnown) :
          /\ s' = [v EXCEPT !.last = "none", !.res = "none"]
          /\ Replied("sat", v.res, <<Answer(Possible(Append(terms, cond))),
                                     Answer(Possible(Append(terms, Worlds \ cond)))>>)

--------------------------------------------------------------------------------
\* bit_hunt_with: bits of the vector are fixed from the highest on, best first; a
\* model that already has the preferred bit saves the solve.
RECURSIVE Hunted(_, _, _, _, _)
Hunted(u, want, list, valid, chosen) ==
    LET i == Len(chosen) + 1
        b == Lit(u, XBits[i])
        first == IF want THEN b ELSE -b
        asked == Append(list, first)
        has == \E m \in u.model : Eval(u, m, XBits[i]) = want
    IN  IF i > Len(XBits)
        THEN IF u.model # {} THEN {[u EXCEPT !.res = chosen]}
             ELSE {[v EXCEPT !.res = chosen] : v \in sat_solve_hinted(u, list, Min({valid, Len(list)}))}
        ELSE IF has THEN Hunted(u, want, asked, valid, Append(chosen, want))
        ELSE UNION {IF v.res = "sat" THEN Hunted(v, want, asked, Len(asked), Append(chosen, want))
                    ELSE Hunted(v, want, Append(list, -first), Len(list), Append(chosen, ~want)) :
                    v \in sat_solve_hinted(u, asked, Min({valid, Len(list)}))}

Optimum(W, want) ==
    LET better(w, x) == \E i \in DOMAIN XBits : /\ (w \in XBits[i]) = want /\ (x \in XBits[i]) # want
                                                /\ \A j \in 1..(i - 1) : (w \in XBits[j]) <=> (x \in XBits[j])
        best == CHOOSE w \in W : \A x \in W : ~better(x, w)
    IN  [i \in DOMAIN XBits |-> best \in XBits[i]]

\* solve_min_u, solve_max_u and solve_range_u: each hunt starts from what the first
\* solve, or the hunt before it, left.
Optimize(terms, wants) ==
    /\ Asked
    /\ \E u \in Flushed(s) : \E x \in {lits_of(u, XBits)} : \E b \in {Build(x, terms)} :
       \E v \in sat_solve_hinted(b, built_assumptions(b), trusted_for(b, Shared(x, terms))) :
          \/ /\ v.res = "unsat" /\ s' = [v EXCEPT !.last = "unsat"]
             /\ Replied("sat", "unsat", Answer(Possible(terms)))
          \/ /\ v.res = "sat"
             /\ \E w \in Hunted(v, wants[1], built_assumptions(b), Len(built_assumptions(b)), <<>>) :
                \E y \in (IF Len(wants) = 1 THEN {[w EXCEPT !.res = <<w.res>>]}
                          ELSE {[z EXCEPT !.res = <<w.res, z.res>>] :
                                   z \in Hunted(w, wants[2], built_assumptions(b), Len(built_assumptions(b)), <<>>)}) :
                   /\ s' = [y EXCEPT !.last = "sat", !.res = "none"]
                   /\ Replied("sat", y.res, IF Possible(terms) = {} THEN <<>>
                                            ELSE [i \in DOMAIN wants |-> Optimum(Possible(terms), wants[i])])

Next ==
    \/ \E t \in client.terms : AssertPending(t) \/ AssertNamed(t)
    \/ Push \/ Pop \/ Retire \/ FailedAssumptions
    \/ \E q \in client.queries :
          \/ Solve(q) \/ SolveBudgeted(q) \/ KnownBits(q)
          \/ \E limit \in client.limits : SolveMany(q, limit)
          \/ \E cands \in client.batches : SolveEach(cands, q)
          \/ \E cond \in client.terms, baseKnown \in BOOLEAN : SolvePair(cond, q, baseKnown)
          \/ \E wants \in {<<FALSE>>, <<TRUE>>, <<FALSE, TRUE>>} : Optimize(q, wants)

Spec == Init /\ [][Next]_sessionVars

--------------------------------------------------------------------------------
\* Every answer is what the assertions in force and the assumptions say, however
\* many earlier calls, scopes and retirements it follows, and whether a solve or a
\* banked model gave it (solve_under_assumptions, solve_each_under_assumptions,
\* solve_pair_impl, bit_hunt_with).  An enumeration gives values that are possible;
\* all of them if it says so, as many as it may otherwise.
AnswersRight ==
    /\ reply.kind = "sat" => reply.got = reply.want
    /\ reply.kind = "many" =>
          reply.got[1] \subseteq reply.want /\ (reply.got[2] => reply.got[1] = reply.want)

\* A prefix of the assumption list that a caller vouches for is the prefix of the
\* list the solver has installed (solve_bounded_inner, solver.rs:3605: only debug
\* builds compare them).
HintHolds == s.hints

\* What a valid banked model says is true: it satisfies every flushed assertion
\* whose controls it has, and its variables have the values of their terms
\* (bank_model, new_sat_lit_tagged, retire_dead_cones).  Of a control that was
\* closed since it may say otherwise: nothing else depends on it.
BankedIsModel ==
    \A m \in s.banked :
        /\ \A c \in {d \in s.clauses : d.body # {}} :
              (\A v \in c.guards : v \in DOMAIN m.vals /\ m.vals[v]) => m.world \in c.body
        /\ \A v \in DOMAIN s.node \cap DOMAIN m.vals : m.vals[v] <=> m.world \in s.node[v]
================================================================================
