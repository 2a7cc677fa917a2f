# binbit in TLA+

binbit is an incremental solver for the quantifier-free theory of bit-vectors,
written in Rust. Its clients (symbolic execution engines, SMT-LIB scripts) ask
many closely related questions of one growing formula, and most of what is
delicate in the code is there to answer the next question without starting
over. This directory holds the specifications of that machinery, the TLC
configurations that check them, and the theorems proved about them.

Contents: [the system](#the-system), [modules](#modules), [state and
actions](#how-state-and-actions-correspond-to-the-code), [abstract
specifications](#abstract-specifications), [runs](#runs),
[findings](#findings), [proofs](#proofs), [what is not
modelled](#what-is-not-modelled), [plan](#plan).

## The system

A question goes down this pipeline:

    smtlib.rs, Rust API -> bv.rs -> smt.rs -> aig.rs, aigrw.rs, fraig.rs, cnfmap.rs
                                     |              |
                                     |        preprocess.rs, xorgauss.rs
                                     v              v
                                    solver.rs (clause.rs, lit.rs, pcaug.rs)

Everything runs in one thread: there are no callbacks from the outside, no
messages and nothing is persisted. What makes the code hard is long-lived
mutable state that one call leaves behind and the next one uses.

| component | state it keeps | operations | hard behaviour | what makes it correct |
|---|---|---|---|---|
| literals (lit.rs) | none | var, negation, packing | - | - |
| CDCL search (solver.rs) | clauses, trail, the last assumption list, reusable-trail flag, core, dead, has_model | new_var, add_clause, solve under assumptions (plain, hinted, bounded, timed), probe, read value, core | trail kept from one call to the next; clauses added under it; conflicts in a kept prefix; restarts and deletion in mid-search; early stop | Sat is a model, Unsat a refutation, the core is unsatisfiable and from the query, learned clauses do not depend on assumptions, calls end |
| trail and propagation (solver.rs, clause.rs) | literal values, level and reason per variable, cursor, watch lists | enqueue, cancel_until, attach, propagate | a traversal rewrites the list it reads and may end in its middle; stale blockers; partial backjumps | no unit or falsified clause is missed, watch lists match clauses, levels and reasons are usable by analysis |
| conflict analysis (solver.rs) | seen marks, clear list, stack | analyze, lit_redundant, analyze_final | marks rolled back half way; colliding level masks | learned clause is implied, asserting and new; marks are clear afterwards |
| clause and watch arenas (clause.rs, solver.rs) | word arrays, offsets, free space | alloc, mark_deleted, relocate, push, retain, defragment | references renamed while many holders keep them | contents and order survive relocation |
| heuristics (solver.rs) | activity heap, phases, LBD averages | bump, pick, should_restart | stale heap entries | every undefined decision variable is found, the most active first |
| vivification, injection (solver.rs, pcaug.rs) | cursor, augmentation bank | probe a clause and shorten it; attach banked clauses | runs inside the search at a restart | database stays equivalent, propagation complete |
| parity rows (solver.rs, xorgauss.rs) | rows, two watched variables each, cursor | set_xor_rows, propagate, eliminate | reasons expanded after the fact | each expanded reason is implied |
| retirement (smt.rs, solver.rs) | free ids, cone bindings | retire_dead_cones, purge_vars, new_var | an id returns in a new role | no clause, fact or cache of the old role survives |
| SMT session (smt.rs) | scopes, pending batches, named assertions, banked model, prefix caches | assert, push, pop, solve, solve_many, models, cores | caches that must be invalidated by the right calls | answers speak of the assertions in force |
| word-level rewriting (smt.rs, smtlib.rs) | union-find, substitutions, linear systems, symbol table | alias, substitute, eliminate mod 2^w, rebind | a variable already bit-blasted is renamed | equisatisfiable, models complete |
| CNF preprocessing (preprocess.rs) | occurrence lists, frozen variables | units, subsumption, elimination | eliminated variables mentioned later | equisatisfiable on frozen variables |
| gates (aig.rs, aigrw.rs, npn4.rs, fraig.rs, cnfmap.rs) | hash-consed nodes, merges | and, merge, rewrite, sweep, map to clauses | merges under rewriting | same function at the roots |
| terms (bv.rs) | hash-consed terms with known bits | constructors | rules that apply at one width or one literal only | meaning and known bits are sound |
| front ends (smtlib.rs, trace.rs, dimacs.rs, main.rs) | text | parse, print | - | - |

The hazards of the code, each at the line where it bites and with the
properties that watch it, are listed in PROJECT.json.

## Modules

### The search

| module | what it is |
|---|---|
| `Cnf` | literals, clauses, models, entailment and refutation: the meaning everything else is measured against |
| `Cdcl` | what the incremental solver promises: clauses as sets, a trail with levels and reasons, one action per step of the solve loop, the probe and add_clause, with every heuristic choice left open |
| `Trail` | the assignment as the code keeps it: trail, level marks, level and reason per variable, propagation cursor |
| `Propagation` | clause storage, watch lists, add_clause under a standing trail, propagate taken one watcher at a time |
| `PropagationClient` | a most general client of `Propagation`: it decides, cancels to any level, adds and learns as the code might |
| `Analyze` | conflict analysis one literal at a time: the walk along the trail, minimization one entry of a reason at a time with the marks it rolls back, the tracing of an assumption core one trail position at a time |
| `Solver` | the whole solver: calls, solve loop, probe, composed from the four above; implements `Cdcl` |
| `Inprocess` | `Solver` with what happens at a restart that reached the root: vivification of learned clauses, injection of banked ones |
| `OrderHeap` | the decision heap, sifts taken one level at a time, with all that changes activities, decision flags and values |
| `ClauseMemory` | the clause arena word by word, everything that holds a reference into it, garbage collection, purging and recycling of variables |
| `WatchLists`, `WatchMemory` | what the watch arena promises (a sequence per literal), and the shared buffer that implements it |
| `ParityRows` | parity rows inside the search: watched variables, conflicts and reasons expanded from rows, purging |

### Above the search

| module | what it is |
|---|---|
| `BvNodes`, `Terms`, `TermRewrites` | bit-vector terms: nodes with known bits, every constructor with its rewrite rules, the normalisation of sums, a client that composes them |
| `Bitblast` | the circuits of every operation as functions of their operands |
| `Aig`, `AigClient` | the and-inverter graph: hash consing, two-level rules, aliases, the in-place substitution pass; a client that holds references meanwhile |
| `Cones` | how cones of the graph become clauses: flushes, eliminations, queries, sweeps, retirement |
| `Preprocess` | the preprocessing of one batch of clauses |
| `ParitySystem` | the elimination of one batch of parities and what the solver is told of it |
| `Substitution`, `Frontend` | equations before they are clauses: union of variables, substitution, elimination modulo 2^w; the library client and the script interpreter that rebinds names |
| `Session` | scopes, named assertions, banked model, prefix hints, enumeration and optimization over an exact core |

### Instances and proofs

| module | what it is |
|---|---|
| `MCCdcl`, `MCPropagation`, `MCSolver`, `MCSearch`, `MCStructures`, `MCWords`, `MCGraph`, `MCFlush`, `MCSession` | instances for TLC. The last five hold several components that do not interact; a behaviour is of one of them, told by the variable `part` |
| `CnfTheorems`, `CdclProofs` | lemmas about entailment; the invariance proof of `Cdcl` and its safety theorems |
| `TrailTheorems` | lemmas about sequences and about enqueue, cancel_until and opening a level |
| `PropagationTheorems` | one lemma per operation of `Propagation`: it keeps the invariant `PropInv` |
| `PropagationProofs` | the invariance proof of `PropagationClient` and the safety theorems of propagation |
| `AnalyzeTheorems` | the shape of a trail, the steps of conflict analysis under any caller, and the resolutions they amount to |
| `SolverProofs` | the invariance proof of `Solver`, its safety theorems, that it implements `Cdcl`, and that its answers are therefore right |
| `OrderHeapProofs` | the invariance proof of the decision heap and its safety theorems |

`Propagation` extends `Trail`, which extends `Cnf`; `PropagationClient` and
`Analyze` extend `Propagation`; `Solver` extends `Analyze` and instantiates
`Cdcl` with a refinement mapping; `Inprocess` extends `Solver`.

## How state and actions correspond to the code

* A literal is v or -v (the code packs 2v and 2v+1; the order of the packed
  form decides clause order, `Precedes`). `lit_value` is membership in the
  trail. `VarInfo` is `trail.info`; `Reason` is a record whose two fields are
  a clause reference and a binary partner.
* In `Propagation` a clause of three or more literals lives in `arena` under its
  reference; a binary clause exists only as two watchers, as in the code.
  `binaries`, `learntBins` and `formula` name clauses for the properties and the
  refinement; no action decides by them what the code does.
* `propagate` holds its place in a traversal in `visit` (the kept entries and
  those not read yet), so a conflict in mid-list is a step of its own. No other
  action of the solver is enabled between the steps of one propagate, since the
  code runs it to the end.
* Where a long clause is scanned from a saved position, the first non-false
  literal from anywhere may be found; that covers every saved position.
* `add_clause` is one action with all it does: filter by root facts, classify,
  backtrack, choose watches, attach, enqueue.
* A solve is `Solve` followed by the steps of its loop in `pc`: the entry
  propagation, at most one rebuild, then conflicts, deletion, restart and
  decisions. An assumption level is opened per step; the code opens levels
  for assumptions that already hold in a loop, the model permits a restart
  between two of them, which is more than the code does.
* The decision heuristic, phases, restart averages and clause activities are
  choices in `Solver`; `OrderHeap` has the heuristic. `armed` keeps the one fact
  about restarts termination depends on: the averages move only with conflicts.
* `refuted` is not a variable of the code: it tells a client that watches its
  answers that a call ended in a conflict at level 0. The constant `AskAgain`
  says whether such a client goes on (see Findings).
* In `OrderHeap` a sift is a sequence of steps that hold one entry out of the
  heap (`hole`), as `sift_up` and `sift_down` do.
* `ClauseMemory` packs clauses into a sequence of words; what propagation and
  analysis decide is open there, so its clients are more general than the solver.
* A gate of `Bitblast` has the value it takes under one assignment; a term of
  `Session` is the set of assignments that satisfy it; the SAT core of `Session`
  and `Cones` is exact. Each layer is checked against the meaning of the layer
  below, not against its code.
* The XOR branches of `analyze`, `lit_redundant` and `propagate_with_xor` are in
  `ParityRows`, not in `Analyze` and `Propagation`.

## Abstract specifications

`Cdcl` forgets watch lists, marks and order of clauses. Its `Propagate` uses any
unit clause; `Learn` accepts any subset of the resolvent whose missing literals
follow from reasons; `Restart` may go to any level; a solve may keep any number
of levels that the two assumption lists share. In `Solver`, the instance `Abs`
maps the arena and the binary watchers to sets of clauses, the literals
collected by analysis to the resolvent, and a reason to its clause. The run
`solver` checks `Implements == Abs!Spec`, and `Refines` proves it for every value of
the constants. The theorems of `CdclProofs` are thus about every behaviour of the
detailed solver whose client heeds a refutation: its answers are right because
those of `Cdcl` are (`UnsatAnswers` to `LearntAnswers`).

`WatchLists` is one sequence of watchers per literal. `WatchMemory` implements it
in one buffer with regions that move, grow and are compacted in place while a
traversal of propagate reads one list and pushes to others (`WatchListsKept`).

The other layers state their promise as a function of the state: `Denotes`
(a term means its operation), `RefsKeepTheirFunction`, `CnfDenotes`,
`ProjectionKept` (a batch before and after preprocessing has the same models on
the frozen variables), `SystemTold` (what follows from the parities),
`SolutionsKept` (the solutions that can be read in the models are those of the
asserted equations), `AnswersRight`.

## Runs

| run | instance | states | shows |
|---|---|---|---|
| `cdcl` | three variables, four clauses, three assumption lists that share prefixes | 48,745 | every answer property, and that `IInv` holds before it is proved inductive |
| `propagation` | four variables; a unit, a binary and two long clauses; four decisions, one learned clause | 119,892 | watch lists, completeness, levels and reasons under a client that adds, decides, cancels and learns in any order |
| `solver` | four variables; four clauses that are jointly unsatisfiable, or two that teach a long clause; five assumption lists, three calls | 96,802 | refinement, liveness and the trail-reuse properties over sequences of calls |
| `search` | seven variables; one formula to learn from, six to vivify under, three to inject into; two calls | 27,748 | analysis over three levels, minimization, deletion, vivification and injection |
| `structures` | five heap variables (symmetric), two clauses in a three-slot arena, two watch lists with three watchers | 1,554,960 | the three containers through half-done sifts, retirement, collection and compaction |
| `words` | five families of terms: all operands of one to four bits, counts of six and nine bits, boundary literals of the full word | 66,587 | terms, known bits and circuits mean what SMT-LIB says |
| `graph` | clients that build up to two gates over three inputs, or up to two gates over two bits | 359,763 | references keep their function; clauses have the right models |
| `flush` | all small batches over three variables, gates with their surroundings, a parity system, rows in the search | 147,010 | preprocessing keeps the meaning and ends; parities and rows are right |
| `session` | equations over three two-bit variables (three kinds of client), queries over two bits (two kinds) | 207,983 | answers, hints, banked models and equations |
| `again`, `core` | as `solver`, the client goes on after a root conflict | - | findings 1 and 2 |
| `lost` | as `session`, substitution and elimination both on | - | finding 3 |

Each property of a passing run comes with a mutant, a plausible mistake in a
mapped definition under which TLC refutes that property; the mutated forms stand
beside the definitions, marked as bugs those must not have.

### Bounds, and why they are enough

* `InputClauses`, `AssumptionLists`: a client adds a clause at most once
  (`c \notin formula`) in the detailed modules; adding it again is like adding a
  weaker clause, which the instances have. The clauses of `cdcl` and `solver` are
  unsatisfiable together and satisfiable without any one, so every order of
  adding them meets units, shortened clauses and the empty clause.
* `MaxCalls`: solves and probes. Trail reuse needs two calls, reuse of a prefix
  that a probe restored needs three.
* `MaxDecisions`, `MaxLearnts`, `MaxSlots` (`PropagationClient`): four decisions
  allow a backjump and new levels above it; one learned clause next to the
  inputs is enough for a learned reason. In `Solver`, `MaxSlots` is large
  enough never to block a learned clause: `CallsEnd` and the deadlock check
  would fail if it did. The theorems of `PropagationProofs` hold for any bound.
* `DecisionLits`: the phase of each decision variable. One phase per variable in
  `solver` and `search`: phases are symmetric and the clauses are not.
* `LEVEL_BITS` is 64 in the code. `search` takes 2, so that levels two apart in
  a small trail collide the way levels 64 apart do.
* `SEARCH_POS_MIN_LEN` is set low where resumed scans are to be met, and above
  every clause length in `search`.
* `OneFamily` (`solver`) and `InOrder` (`search`) are action constraints on the
  client alone: which clauses it adds, in which order, and when it calls.
  The orders are explored by `cdcl` and `propagation`.
* `MaxAct`: activities are rescaled from there on; two levels of activity are
  enough for copies that differ from their variables. Five variables make a heap
  of three levels.
* `MaxWords`, `HALF`, `SLOTS`, `MaxSlots` of the memories: room for one clause more
  than the live ones, so that deletion, collection and reuse of space are met.
* `WORD` is 128 and `LIMB` 64 in the code; `words` has words of 12
  bits and limbs of eight. Its terms have at most four bits, so their literals
  fit a limb, but for one family of literals as wide as the word (`FullWords`),
  whose folds have no bit to spare in masks, shifts, signs and products. Beyond that lie the
  divergences that name bv.rs:1214, bv.rs:1939 and smt.rs:6437.
* The clients of the other runs are records in the MC modules that say which
  operations they use and how many; each is the smallest under which a family
  of rules or of calls meets.
* `CHECK_DEADLOCK FALSE` in `propagation`: the client may have used its decisions
  and learned clauses up while a conflict stands at level 0. In `structures`,
  `words`, `graph`, `flush`, `session` and `lost` the client comes to the end of
  its steps. In the other runs deadlock is checked; an idle client may rest
  forever.

### Fairness

`FairSpec` of `Solver` asks for weak fairness of `Run`, the steps of a call that
is under way. The solver is one thread that never waits, so a call that has a
step to take takes it. Nothing is assumed about the client or about which step
is taken: a solve ends because learned clauses are new and a restart needs a
conflict, not because of a lucky choice. One premise is stated in `CallsEnd`
itself: reductions of the clause database come to an end (`DeletionsEnd`),
because each raises the limit the next one waits for by a tenth
(solver.rs:3726), which the model does not count. The passes of `flush`
(`PassesEnd`) are weakly fair for the same reason: a flush runs to its end.

## Findings

Three disagreements between the code and what its comments say are runs that
TLC refutes.

1. `again`: a conflict at level 0 makes solve return Unsat (solver.rs 3658-3666,
   3672-3675) but is not recorded in `dead`, and the propagation cursor has
   passed the literal that falsified the clause. The conflict is not found
   again. With the clauses {-3}, {1,-2}, {-1,3}, {1,2,3} a later solve returns
   Sat, against the comment at 3912.
2. `core`: a dead solver answers Unsat without clearing `conflict_core`, so
   `unsat_core` still names assumptions of an earlier query, against the comments
   at 3485 and 3936.
3. `lost`: with substitution and Gaussian elimination both on (the default),
   an equation over variables that were united is solved, its solution is not
   installed (smt.rs:3482), and the equation is dropped all the same.

### Divergences met while modelling, not run

They are behaviours of the code that the passing runs step around; each can be
reproduced by the change of constants or properties named with it.

| what | where | to see it |
|---|---|---|
| Two banked clauses that become unit at one restart are enqueued and never propagated together; the solve may answer Sat about an unsatisfiable formula | solver.rs:3258 | `Offered` of `MCSearch` with two such clauses, `HasModelIsModel` |
| What an injected unit implies is found at the level of the next decision | solver.rs:3258 | `LevelsExact` in `search` |
| A retired variable that is assigned at the root is handed out again while assigned, and a later collection relocates its reason twice | solver.rs:2504, 2431 | `MarkAssigned <- TRUE` in `MCStructures` |
| An entry of a recycled variable that is still in the heap gets a lower key in place: the heap order is broken and a less active variable is decided first | solver.rs:1151 | the stronger `PickedIsMax` over all entries |
| Multiplication by a literal loses its bits above the first 64-bit limb | smt.rs:6437 | `LIMB <- 2` in `MCWords` |
| `bv_concat` and `bv_sign_extend` fold inline literals to more than 128 bits in one word | bv.rs:1214, 1277 | `WORD <- 4` in `MCWords` |
| `bv_sadd_overflow` and `bv_ssub_overflow` fold 128-bit literals in wrapping arithmetic and never report an overflow (a debug build panics on the bound) | bv.rs:1939, 1959 | all of `Overflows` in `FullWords` of `MCWords` |
| `bv_select` drops pairs whose value is the default also before others: with selectors that hold together a later value is taken | bv.rs:1415 | selectors that are not exclusive in `TermRewrites` |
| A clause shortened by unit propagation in the subsumption pass is not tried again | preprocess.rs:448 | subsumption as an invariant of `Preprocess` at its end |
| Input bits whose identifier was recycled are shared by two variables of the client | smt.rs:2141, aig.rs:243 | `keep_bits |-> FALSE` in `MCGraph` |
| A sweep merges a node that a query has already materialized; retirement then deletes its clauses | smt.rs:2120 | sweeping and retiring in one client of `MCGraph` |
| An enumeration with limit 0 replaces the prefix cache without a solve, and the next hint vouches for it | smt.rs:2540 | `0` in the limits of `MCSession` |
| A solve that gives up leaves has_model true without a model | smt.rs:2368 | `ModelIsThere` of `Session` |
| An enumeration that stops at its limit says "cut short" also when it has all values | smt.rs:2547 | `FlagExact` of `Session` |
| Uniting looks for bits under the raw identifier, but they are kept under the root | smt.rs:1885 | `careful |-> FALSE` in `MCSession` |
| A script's rebinding inside a scope outlives the scope | smtlib.rs:1176 | `scopes |-> TRUE` for the script of `MCSession` |
| Rows installed under a standing trail: reasons name other rows, and a conflict may have no literal of the current level | solver.rs:3026, 3028 | `Installing <- "any"` in `MCFlush` |
| Purging leaves rows that mention the purged variables | solver.rs:2457 | a retired variable that is in a row, in `MCFlush` |

Accordingly the passing runs are about clients that stop after an unconditional
refutation (`AskAgain = FALSE`; assumptions may of course be refuted as often as
one likes), that bank clauses of which at most one becomes unit at a restart,
that retire unassigned variables and keep their input bits, that install rows
when no trail stands, that enumerate with a positive limit, that unite careful
classes, and that use either substitution or elimination.

## Proofs

All theorems are checked by TLAPS from nothing, with Z3, Zenon and LS4. They
hold for every value of the constants that satisfies the named assumptions of
the modules.

| module | theorem | statement |
|---|---|---|
| `CdclProofs` | `Invariance` | `Spec => []IInv` |
| | `TypeCorrect`, `UnsatSound`, `SatSound`, `ProbeSound`, `CoreSound`, `LearntsSound` | `Spec => []P` for `TypeOK`, `UnsatIsProof`, `SatIsModel`, `ProbeRight`, `CoreRight`, `LearntsImplied` |
| `PropagationProofs` | `Invariance` | `Spec => []IInv` |
| | `TypeCorrect`, `WatchersSound`, `NothingOverlooked`, `LevelsSound`, `ReasonsSound` | `Spec => []P` for the types, `WatchListsMatch`, `PropagationRight`, `LevelsExact`, `ReasonsOrdered` |
| `OrderHeapProofs` | `HeapTyped`, `HeapIndexSound`, `NothingUnqueued`, `CopiesSound` | `Spec => []P` for the types, `HeapIndexed`, `UndecidedQueued`, `CopiesExact` |
| | `PicksGreatest` | `Spec => PickedIsMax` |
| `SolverProofs` | `Invariance` | `Spec => []IInv` |
| | `MissesNothing`, `KeepsPropagation` | `Spec => []P` for `NothingMissedYet`, `PropagationKept` (watch lists, completeness, levels and reasons until a call ends in a root conflict) |
| | `Types`, `LevelsDecide`, `FindsUip`, `LearnsAsserting`, `ClearsMarks` | `~AskAgain => (Spec => []P)` for `TypeOK`, `SearchLevelsDecide`, `UipExists`, `LearnedIsAsserting`, `MarksCleared` |
| | `Refines` | `~AskAgain /\ CORE_ON => (Spec => Implements)`: `Solver` implements `Cdcl` |
| | `UnsatAnswers`, `SatAnswers`, `ProbeAnswers`, `CoreAnswers`, `LearntAnswers` | `~AskAgain /\ CORE_ON => (Spec => []P)` for `UnsatAnswerRight`, `SatAnswerRight` (with `HasModelIsModel`), `ProbeAnswerRight`, `CoreAnswerRight`, `LearntRight` |

### The abstract solver (`CdclProofs`)

Assumptions: `VarsAssumption` (variables are positive integers) and
`InputAssumption` (clauses are over the variables, lists are sequences of
literals). Neither needs finiteness: an entailment is a statement about all
assignments.

None of the answer properties is inductive. The argument goes through these
parts of `IInv`:

* `TrailShape`: levels are what the level marks say, no variable is assigned
  twice. Every cut of the trail (backjump, restart, stop, probe exit) is then
  a cut by level, and what is true at a level stays true.
* `DbImplied`, `FormulaCovered`: stored clauses are entailed, and every clause
  added is stored, possibly shortened by root facts, or true at the root, or a
  tautology. The first gives refutations, the second models: a total trail on
  which no stored clause is falsified satisfies every clause ever added.
* `ReasonsHold`: a reason is entailed and its other literals were falsified
  *earlier*. The order is what makes induction along the trail possible: any
  assignment that satisfies the formula and a set K of literals satisfies
  everything that is supported by K. From it follow `Learn` (a minimized clause
  is still entailed), `Clash` (the core) and `ProbeRead`.
* `RootImplied`, `ResolventHolds`: root literals are entailed; the resolvent is
  entailed and false under the trail.
* `AssumptionLevels`, `ProbeLevels`, `CallShape`: the decision of a kept level is
  the assumption of that level, in the last list and therefore, on a shared
  prefix, in the new one. These parts carry the meaning of a kept trail from
  one call to the next; without them `UnsatIsProof` fails at the first reuse.

The step proof has one lemma per action. Induction along the trail is done by
the least position at which a supported literal would fail, as a lemma about
naturals (`LeastPosition` in `CnfTheorems`).

### Propagation (`TrailTheorems`, `PropagationTheorems`, `PropagationProofs`)

Assumptions: `VarsAssumption`, and `PropagationAssumption` (input clauses are
finite sets of literals, decision literals are literals, bounds are naturals).
The variables and the clauses may be infinitely many.

`PropInv`, the invariant of the operations, is the conjunction of

* `PropTypeOK`, and `WellFormed(trail)`: level marks grow with the positions, the
  level of each literal is told by the marks, no variable is assigned twice;
* `ClausesSound`: a live clause has three or more distinct literals, a deleted one
  none; a binary watcher stands beside its twin;
* `VisitSound`: while a list is traversed, what is kept and what is still to be
  read make up the list, the literal is falsified at the cursor, and a conflict
  ends the traversal;
* `WatchListsMatch`: each clause is once in the list of each of its two watched
  literals and in no other;
* `NothingMissed`: a watcher that was visited since its literal became false claims
  a literal that is true, and no deeper than the false one;
* `LevelsExact`: an implied literal is at the level of the deepest literal of its
  reason;
* `ReasonsOrdered`: the reason of a literal is live, has the literal in front, and
  its other literals were falsified before.

`NothingMissed` is what a unit test cannot reach: it holds in mid-traversal, with
stale blockers, across partial backjumps. It is kept by a cut because an excuse
is never deeper than what it excuses (`Continues`: the trail afterwards agrees
with the trail before on a prefix, and what is cut from it is a suffix by level);
by an enqueued literal because enqueueing only adds; by add_clause because the
two watches are chosen among literals that stay non-false after the backtrack,
or are the true literal and one that falls with it (`Sorted`, `OpenAt`).
`PropagationComplete`, that no stored clause is falsified or unit when propagate
returns None, is derived: when propagation is quiet, every falsified watched
literal is before the cursor, and one excuse satisfies the clause or leaves two
open literals.

The proof has one lemma per operation (`CutStep`, `DecideStep`, `FactStep`,
`LearnStep`, `AddClauseKeeps`, `DequeueKeeps`, `VisitBlockedKeeps`,
`VisitBinaryKeeps`, `StoredKeeps`, `MovedKeeps`, `VisitLongKeeps`,
`EndVisitKeeps`), each stated for any caller, so that they serve the client of
`PropagationClient` and any other module built on `Propagation`.

### The decision heap (`OrderHeapProofs`)

`HeapIndexed` and `CopiesExact` are proved together with the shape of a
half-done sift: the entry that is held is in no place, and the hole is a place.
`UndecidedQueued` (every unassigned decision variable is in the heap) follows
from them by cases of the action that assigns, unassigns or pops.

`PicksGreatest` takes the order of the heap. `Heaped` says what is left of it while
an entry is held out at a place: one that rises may exceed its parent, one that sinks
its children, and the children are no greater than what is above the hole. Seven
lemmas on arrays of activities (`RisesOrdered` to `ScaledOrdered`) say that each move
of the hole, an insertion, a pop, a bump and a rescale keep it, and the order is whole
again when the entry settles. Nothing exceeds the root of an ordered heap
(`RootIsGreatest`: the first place that did would have a parent that does). With
`UndecidedQueued` and `CopiesExact` the variable that is popped to be decided has the
greatest activity of all that can be. All this is until new_var reuses an entry in
its place (`OrderKept`); TLC checked `OrderKept` on the instance of the run
`structures` first.

### Conflict analysis and the search (`AnalyzeTheorems`, `SolverProofs`)

Assumptions: those of propagation, `AnalyzeAssumption` (a level mask has at
least one bit) and `SolverAssumption` (assumption lists are sequences of
literals, every variable has a decision literal, the number of calls is a
natural). `LEVEL_BITS`, `RESTART_REUSE` and the bounds are arbitrary, so the
theorems cover masks that collide and minimization that is rolled back.

`AnalyzeTheorems` proves of analysis, for any caller that hands it a falsified
conflict above level 0 (`AnalyzeSteps` is kept by every step):

* `Shaped(trail)`: the only literal of a level without a reason is the one that
  opened it. Propagation, backjumps and learning keep it (`PropagateShape`,
  `CutShape`).
* `Walking`: what has been touched was falsified before the position of the walk,
  `paths` counts the marked literals of the conflict's level that the walk has not
  reached, and the literals collected are false, marked, below that level and
  distinct. While more than one literal is counted the next one is not the
  decision, so it has a reason (`Stops`); when one is left it is the UIP. This
  is `UipExists`, the two places where the code would panic.
* `Minimizing`: minimization drops literals and never touches the UIP, whatever a
  recursion proves or gives up; the literals kept stay distinct and below the
  conflict's level.
* `Gathered` and `Asserting`: the literal put second is one of the greatest level, so
  that after the backjump the clause is unit. Learning attaches it to its first
  two literals and enqueues the first: `WatchListsMatch` and `LevelsExact` rest on
  that.
* `Tracing`: the walk for an assumption core stays above the root and has marked
  nothing it has already passed, so the marks it clears on its way are all.

`SearchInv`, the invariant of the calls, is the conjunction of

* `Core`: `PropInv`, `Shaped(trail)`, and `ConflictRight` (a conflict is a falsified
  clause with a literal of the current level);
* `CallsTyped` and `AnalyzeTypeOK`: the types;
* `Rested`: propagation has ended whenever a call decides, traces or returns. An
  idle solver has `visit` empty and no conflict, or the next `add_clause` would
  attach a watcher to a list that is half read;
* `Analyzed`: what analysis has established, by the step it is at, and that no mark
  survives it;
* `Levelled`: every level above the assumptions starts with the decision that opened
  it (`StartsDecide`), also on a trail kept from an earlier call, where the
  number of assumption levels is that of the *last* list. `restart_reuse_level` reads
  a decision there, and a restart that reuses the trail is sound by it.

The proof has one lemma per action of `Solver`; `ReduceDbKeeps` is about the
deletion of learned clauses with `watches.retain` (`Thinned`: what is left of a
list, with each remaining watcher once), `KeptFacts` and `SolveSearch` are
about the trail that stays between calls.

A conflict at level 0 that ends a call is not recorded by the code (finding 1):
afterwards propagation is *not* complete, and `SearchInv` is false in general.
`IInv` says `refuted \/ SearchInv`. Theorems with the hypothesis `~AskAgain` are about
a client that stops there, as the passing runs have it; `Invariance`,
`MissesNothing` and `KeepsPropagation` need no hypothesis and speak of any client up to
that point. The violation run `again` shows that no more can be had.

### The refinement (`Refines`)

Each step of `Solver` is a step of `Cdcl` on the mapped state, or is not visible
there. There is one lemma for each action (`AddClauseImplied` to
`ProbeReadImplied`), assembled in `NextRef`. What the two models see differently has
a lemma of its own:

* *The trail.* `Views`: the entries of the mapped trail are the literals with their
  levels and their reasons as sets. A step that leaves the reasons in place
  (`ReasonsStay`) maps a cut, an enqueue below a cut and a decision to those of
  `Cdcl` (`CancelAbs`, `AssertAbs`, `DecideAbs`).
* *The clauses.* Storing a clause in a free slot adds it to the set of its kind
  and touches no other (`SlotIsFilled`, `AttachDb`); a visit of propagate reorders
  a clause and keeps its literals (`PropagateMoves`); a deletion takes no clause
  that is the reason of a literal (`ReduceDbImplied`).
* *Propagation.* What propagate enqueues is unit and what it returns is falsified
  (`UnitStep`, `ConflictStored`), and when it is `Quiet` nothing is left, so decisions
  are taken at a fixpoint (`AbsFixpoint`).
* *Conflict analysis.* Several steps of the walk are one resolution of `Cdcl`, and
  most are none (`AnalyseImplied`). `Marking` ties the marks to the literals
  collected and to those of the level not yet reached, so that the resolvent is
  the same before and after a literal is touched.
* *Minimization.* `Cdcl` lets a literal go if reasons lead from it to literals that
  stay. The depth-first search marks literals before it knows, takes marks
  back when it fails, and relies on marks of earlier searches. `Justified` says
  that a mark that is not in doubt is of a literal kept, still to be tried, or
  implied by others so marked; `Warranted` is what remains at the end. The reasons
  are well founded on the trail, so the marked positions support the rest
  (`WarrantSupports`). Level masks prune the search and carry no weight in the proof.
* *The core.* `Traced`: the core and the marks left account for the clash; at the
  end the core alone does. It takes `CORE_ON`: without it the code blames the one
  assumption that clashed, which is not a core.
* *add_clause.* The level it cuts the trail back to is one at which the clause is
  not falsified, or is unit and enqueued (`AddLongSettles`): the clause stripped of
  root facts alone is stored, and the standing trail survives as far as `Cdcl`
  allows.
* *Trail reuse.* `Granted`: the first assumptions hold at their levels, also below a
  probe, and a call keeps no more levels than the two lists share (`KeptPrefix`).

`RefInv` is the conjunction of what this takes beyond `SearchInv`; TLC checked it
on the instance of the run `solver` before it was proved. It is kept until a
call ends in a conflict at the root; that last step is one of `Cdcl` too
(`RootConflictAbs`, `ProbeRootAbs`), and with `~AskAgain` nothing follows it.

### The answers (`UnsatAnswers` to `LearntAnswers`)

`Calculus` is the module `CdclProofs` under the refinement mapping of `Abs`, so that
its theorems are about the mapped state. `Abs` and `Calculus` are two instances of one
specification (`SameSpec`, by their definitions), and with `Refines` what is proved of
`Cdcl` holds of each behaviour of `Solver` (`PromisesKept`). `SameMeaning` reads the
promises on the state of `Solver`: the literals on its trail, its stored clauses, its
list of assumptions. Five theorems result, in terms of the detailed solver alone:
Unsat is a refutation of the clauses added and the assumptions; what has_model finds on
the trail is a model of both; a probe refutes and forces only what follows; a
complete core is unsatisfiable and, unless add_clause had already found the formula
unsatisfiable, made of assumptions of the call; what is learned follows from the
clauses alone. `~AskAgain` and `CORE_ON` come from `Refines`, and the first finding
shows that `SatAnswers` does not hold without `~AskAgain`, the second that
`CoreAnswers` does not hold of a solver that is `dead`.

### What stays with TLC

* Liveness (`CallsEnd`, `PassesEnd`): fairness and ENABLED are out of the prover's
  reach.
* What a recursive definition computes: the modules `Aig`, `Bitblast`, `BvNodes`,
  `Cones`, `ParityRows`, `ParitySystem`, `Preprocess`, `Session`, `Substitution`,
  `TermRewrites` and `Terms` use recursive operators or folds, and their
  properties are about the functions these compute, for all small inputs.
* The properties of the run `search` that are about `Inprocess`: `LearnedIsRight` (that
  a learned clause is implied is `LearntAnswers` for `Solver`; that it is new is
  model-checked), `StoredFollow`,
  `ProbingLeavesNothing`, `UnsatIsRight`. The theorems of `SolverProofs` are about
  `Solver`; the steps that `Inprocess` adds at a restart have no proof.
* `NothingDangles`, `CollectionIsMute` and `WatchListsKept`: a collection and a rebuild
  of the buffer are folds over packed words and over regions.

## What is not modelled

* Parsing and printing (smtlib.rs, dimacs.rs), tracing (trace.rs), option handling
  (main.rs): text, with no state that one call leaves to the next. The
  interpreter's assert, push, pop and rebinding are in `Frontend`.
* The NPN tables and the cut rewriting built on them (npn4.rs, aigrw.rs) and the
  mapping of cuts to clauses (cnfmap.rs): generated data and cost models. What
  they may do to the graph, replacing a node by an equal function, is in `Aig`.
* Which implied clauses are banked (pcaug.rs): any implied clause may be.
* The restart averages and phases: every restart and phase is allowed.
* Simulation signatures and the budget of the sweep (fraig.rs): any equal nodes
  may merge.
* Reading a model back by term, Boolean aliases, equations that are not linear and
  the normalization pass of smt.rs.

## Plan

The components above the search are modelled, checked and in part proved. What
is left, in this order:

1. The probing of `Inprocess`, for which `CutStep`, `DecideStep` and the lemmas of
   `propagate` are stated without a caller.
2. The folds of `WatchMemory` and `ClauseMemory`: what a rebuild and a collection leave
   behind, as lemmas about their recursive functions, and with them `WatchListsKept`.
