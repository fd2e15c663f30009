# PVS: a verification development of the prover, its sessions and its decision procedures

PVS is a specification language, a typechecker and an interactive theorem
prover, written in Common Lisp around one Lisp image; an Emacs front end or, over
websockets, any number of clients drive it, and two of its decision procedures
call C libraries that live in the repository.  The modules here model the parts of
the program where control is intricate, concurrent or hard to test:

* the **proof engine** (`src/src/prover/eproofcheck.lisp`) and the **strategy language** it
  interprets (`strategies.lisp`, `rules.lisp`);
* the **proof sessions** through which clients run several proofs at once
  (`src/src/pvs-threads.lisp`);
* the **BDD package** (`src/src/BDD/bdd`) with its reference counts, collections and dynamic
  ordering, and the **mu-calculus model checker** on top of it (`src/src/BDD/mu`,
  `mu.lisp`), which is the rule `musimp`;
* the decision procedure for **WS1S** (`src/src/WS1S/lisp`) and the automata and decision
  diagrams of MONA it calls (`src/src/WS1S/mona-1.4`).

## 1. Inventory

| component | state | operations | who it talks to |
|---|---|---|---|
| proof engine | the tree of proofstates (status-flag, strategy slot, done/pending/remaining/current subgoals, dependent-decls), `*ps*`, `*record-undone-proofstate*` | `prove*-int`, `proofstepper`, `rule-apply`, `next-proofstate`, `post-processing-step`, `success-step`, `undo-proof`, interrupts (`catch-restore`) | asks strategies for the next step, rules for a signal, the user (or a session) for a command |
| strategy language | none; strategy objects in the slots of proofstates | `strat-eval`, `try`, `spread`, `query*`, `apply` | evaluated by the engine |
| proof sessions | `*all-sessions*`, `*done-sessions*`, `*sessions-to-be-interrupted*`; per session two queues, `outputs`, a thread | `make-session`, `prover-init`, `prover-step`, `quit-all-proof-sessions`, `session-kill`, `interrupt-session`; `session-read`, `session-output`, `session-finish`, `finish-proofstate`, `handle-interrupt` | clients' threads on one side, the engine's thread on the other |
| BDD package | nodes with saturating reference counts, a hash table per variable, the computed table, the order and its groups, `sop_cache`, counters of dead and frozen nodes; dynamic scope: marks and notes in the nodes | make variables, if-then-else and what reduces to it, quantify, substitute, cubes, free, collect, reorder, group, dump and restore; the library of `bdd_fns.c`, `bdd_vfns.c`, `bdd_factor.c` | called by the model checker and by `bddsimp`, through `bdd_interface.c` |
| mu-calculus model checker | formulas and terms, tables of variables, an environment while it evaluates | `mu_mk_*`, `modelcheck_formula`, fixed points, reachability | the rule `musimp` (`run-musimp`) builds formulas; the package computes |
| WS1S | automata: states, statuses and a diagram of transitions each; a symbol table and `*boundvars*` while a formula is translated | `fmla-to-dfa*`; `dfa*` constructions, product, projection, quotient, minimisation, analysis, export, import | the rule `ws1s` calls MONA through `ws1s_extended_interface.c` |
| server transports | connections, `*ws-thread-connections*` | request dispatch (JSON-RPC, XML-RPC, websocket) | sessions, typechecker |
| theory lifecycle | theories with status parsed/typechecked/proved, the file-to-theories table | `parse-file`, `typecheck-file`, `update-parsed-file`, `untypecheck-usedbys` | context, proof status |
| context and persistence | `.pvscontext`, proof files, binaries | save, restore, validity by dates | theory lifecycle |
| proof status and chains | `proof-status`, `proof-refers-to` of formulas | `proofchain` analysis, status commands | reads what the engine leaves in `proof-refers-to` |
| linked hash tables | table, order list | put, remove, iterate | workspaces |
| typechecker, conversions, judgements, TCCs | abstract syntax, judgement graph | functional passes over the syntax | context |
| other proof rules, ground prover, Yices, RAHD | per-call tables | decide or simplify a sequent | called by rules |
| ground evaluator, PVSio, Manip, Field, ProofLite, abstraction | little | compile, animate, strategies on top | prover, Lisp, C |
| parser, printers, Ergo, Emacs, libraries, examples | - | I/O, generated code | - |

What is hard, and what makes each modelled component correct:

* *Proof engine.*  The state of a proof is spread over flags, lists and
  strategies of all the proofstates on a branch; steps, failures, postpones,
  undos and interrupts come in any order.  Correct means: no goal is dropped,
  Q.E.D. is said exactly when every goal is proved, the proofstates above the
  current one wait for it, what is recorded for the proof chain covers what the
  proof uses, a closed goal is not reopened, a postponed goal comes up again.
* *Strategy language.*  `try` is the only control construct (then, else, repeat
  and branch reduce to it), but its meaning comes out of an interplay of
  failure strategies, X and XX.  Correct means: what a script does to a goal is
  what its parts do; an unattended script ends; `apply` returns the open goals.
* *Proof sessions.*  Threads of clients and provers share lists that nothing
  guards, and proofstate objects; calls time out; threads are destroyed;
  interrupts are delivered by timers.  Correct means: every call is answered, by
  the answer to it; what is told and recorded of a proof is so; a session that
  has ended is gone, and only such a session.  The code does not keep all of this
  (section 4).
* *BDD package.*  References are counted by hand, and a count saturates; the computed
  table names nodes without counting; a collection or a reordering may start inside any
  operation that makes a node, and a reordering rewrites nodes in place.  Correct means: an edge the
  client holds keeps its function whatever happens in between, counts and counters are
  exact, equal functions have equal edges, no entry of the computed table is stale.
* *Model checker.*  Fixed points give up an iterate while they still compare with it;
  shortcuts and early exits give up other sets of references; comparisons work on lists of
  bits of different lengths; an interrupt leaves by a long jump.  Correct means: `musimp`
  proves a goal only if it holds, proves what holds when nothing interrupts it, and leaks nothing.
* *WS1S.*  Three kinds of status go through products and projections, a quantified number
  or set may be longer than the rest of the word, and all this is invisible in an answer
  that says only "valid" or shows one example.  Correct means: the automaton of a formula
  accepts just the assignments it holds of, is minimal, and what is shown is a nearest example.

`PROJECT.json` lists every component, with the reason where one is not modelled,
and the hazards at their lines.

## 2. Modules

| module | role |
|---|---|
| `ProofTree` | the engine: one action is one iteration of `prove*-int` |
| `ProofSearch` | what the engine promises: the abstract specification `ProofTree` implements |
| `StrategySemantics` | a compositional meaning of strategies, compared with what the engine does |
| `MCProofTree`, `MCStrategySemantics` | instances for TLC: a user at a prompt; all two-level scripts, and one of the prover guide |
| `ProofTree_proofs`, `ProofTree_soundness`, `ProofTree_goals`, `ProofTree_refinement` | types, and attempts without a user; Q.E.D. and closed goals; no goal lost, the path, the proof chain and what `apply` returns; the engine implements `ProofSearch`: proved |
| `ProofSession`, `MCProofSession` | sessions, clients and their threads; the instances for TLC |
| `ProofService` | what the sessions promise, without threads, queues and lists: the abstract specification `ProofSession` implements |
| `ProofSession_proofs`, `ProofSession_service` | types, and answers are fresh; the truth of the record and the refinement of `ProofService`: proved |
| `BddStore` | the store of nodes: counts, hash tables, computed table, one node made or found, the sweep |
| `BddState` | the store as the variable of a specification, and what is right of it for any client |
| `BddTriples` | if-then-else before its recursion: trivial cases, the standard triple, the cofactors by the topmost variable |
| `BddExchange` | the exchange of two adjacent ranks |
| `BddStore_proofs` | standard triples keep their meaning, an exchange keeps functions, counts and uniqueness, diagrams are canonical, the sweep makes a store fit for an exchange; `bdd_create_node`, `bdd_free`, `bdd_ite_aux` and the computed table: proved |
| `BddRuns` | `reclaim_aux`, `bdd_free` and `bdd_ite_aux` as relations between a call and those it makes, for the proofs |
| `BddFunctions` | what the package promises: a client that holds functions, with no nodes, references and order |
| `BddClient` | a client with any number of edges, variables and calls, over the relations of `BddRuns`: the specification the theorems about reachable stores are of |
| `BddClient_proofs` | every store such a client brings about is right, `BddClient` implements `BddFunctions`, and every call returns: proved |
| `BddNodes` | what follows the links: release of a node, reviving it, collection; new variables, the order of variables |
| `BddIte` | the constructor, if-then-else, apply, constrain, restrict, new variables |
| `BddOrder` | sifting, groups, the point where a reordering starts |
| `BddOps` | Boolean operations, the walk by pointer reversal, dump and restore |
| `BddFns` | quantification, relational product, substitution, cubes: what PVS calls beyond these |
| `BddPackage` | a client that calls all of them in any order |
| `BddQueries`, `BddQuants`, `BddFactor` | the library: questions about a function, quantification over cubes and in vectors, factored expressions |
| `BddLibrary` | the client, and every call of the library on every function of three variables |
| `MuFormulas` | constructors of formulas and terms, the encoding of numbers and types by bits |
| `MuCalculus` | what a formula evaluates to, with the references it takes and gives up |
| `MuSimp`, `MCMuSimp` | `run-musimp` with its interrupts; CTL goals over small transition systems and comparisons of numbers |
| `MonaBdd` | MONA's decision diagrams: project, apply, export, import |
| `MonaDfa` | MONA's automata: constructions, product, quotient, projection, minimisation, analysis |
| `Ws1s`, `MCWs1s` | the translation of formulas into automata; the atoms and variables of the instance |

### ProofTree

`ps` is the tree of proofstates in the order of their creation, so that a child
has a higher number than its parent.  A proofstate has the slots of the class
`proofstate` that the stepper reads or writes; `above` and `goal` note where the
parent links, which never change, lead.  `kids` and `uses` are history: what the
last application of a rule to the goal produced and referred to.  The engine never
reads them, and the properties are stated with them (`Tree` is the tree of last
decompositions), so that a property does not rest on the very lists it is about.

`cur` is the argument of `proofstepper`, `record` is
`*record-undone-proofstate*`, `outcome` tells how `prove*` ended.  `RootKind` and
`ProvingTcc` say for each script whether the attempt is one of `prove-decl` or of
the rule `apply` (whose root loses its strategy) and whether there is a user.

| action | code |
|---|---|
| `Propax` | `check-prop-axiom`, proofstepper 834-847 |
| `RuleProves`, `RuleSubgoals`, `RuleNoChange`, `Skip`, `RuleFails`, `RulePostpones`, `StrategyStep` | the branches of `rule-apply` on the signal of the rule, and on a topstep that is a strategy |
| `Quit`, `Abort` | `(quit)`; an interrupt or an error caught by `catch-restore` |
| `UndoTo`, `UndoUndo`, `UndoRefused` | `undo-proof` |
| `TakeSubgoal`, `SuccessStep`, `PostponeGoal`, `TransferStrategy` | the branch "?" of `proofstepper`, with `post-processing-step` and `transfer-subgoal-strat` |
| `NextProofstate` | `next-proofstate` |

A sequent is abstracted to what a rule does with it: `Outcomes` gives, for each
logic rule, the signals it may have, with the number of subgoals, which of them
are propositional axioms, the declarations the rule refers to (`refs`, which the subgoals
copy) and those its TCCs refer to (`tccs`, which `rule-apply` pushes on the goal only after the copying).  One rule may have
several outcomes, and the choice is free each time it is applied.

### StrategySemantics

`Results(e, goalnum)` is the set of results a strategy may have on a goal, by
recursion on the strategy.  It keeps two things apart that the stepper's flags
encode: a goal made a failure by `(fail)` itself (XX), from which no else part
recovers, and a strategy of which a subgoal failed.  In the first respect the code
is stricter than an identity printed in the prover guide
(`src/doc/prover/prover.tex:6507` recovers from an inner `(fail)`; the stepper
does not).  The meaning stated here is the code's; the identity is the property
`NestedTryRecovers`, which the run `nested_try` refutes.

### ProofSession

A client is the thread of a connection, and handles one request at a time.  Its
record says where it is in which function (`at`, `op`), and holds the local
variables: the session, the list loaded from `*all-sessions*`, the sessions
`quit-all` has yet to come to, the number of entries to drain, the entry taken.
The thread of a session is a place (`showing`, `reading`, `waiting`, `busy`,
`finishing`, ...), the last command taken, and whether it has been destroyed.

* Granularity.  Queue operations are atomic (they are those of `lparallel.queue`).
  A push on or a removal from `*all-sessions*`, and a push on `*done-sessions*`, is a load and
  a store, two steps (`Load` and `Store` for the latter), because the code does `push` and `setf ... remove` on special variables without
  a lock.  The order of `*all-sessions*` is not kept.  `outputs` is written by its thread
  and put back by `prover-step`; each such write is one step.
* The thread finds its session by the slot `thread`, which `make-session` sets when `bt:make-thread` has
  returned (`Name`, after `Spawn`).  A thread that looks before finds none and reads the standard
  input (place "stdin"), which the comment on line 194 ("Make sure the session is available
  before starting the thread") means to exclude.
* The status a client reports is read from a proofstate object when it reads it,
  not when the entry was made.  For an entry that shows the root this is the session's flag.  For one that shows
  a goal below, `prover-step` says "waiting" and `prover-init` reads the goal's own flag, which the
  next proof step may have set (`ShownGoal`; an entry carries the number of proof steps done when it was pushed).
* `Starters`, `Interrupters` and `Quitters` say which clients use what; with `Shares` a client
  may also step a session that another has made.
* A timeout of `quit-all` may come at any point of its `prover-step`, also when the session is off one list and not yet on
  the other; an error in it ends `quit-all`, whose `handler-case` takes timeouts only (`Fails`).
* An entry carries the number of calls begun when it was pushed (`stamp`), which is
  history for `NoStaleAnswer`.
* `ProofService` sees of a session whether its thread has started or ended and the flag of
  its root, of a client the end of a proof it was told last, and `*done-sessions*`.
  Its clients are told of the end of a proof only when it is over; a record may be lost to another client's
  store, and come back, but what is on record is what was decided.  It leaves open who records an
  end first, and whether a killed proof is decided at all.
* Destroying a thread unwinds it; `prove-decl`'s `unwind-protect` runs
  `finish-proofstate` (`Unwind` leads to "finishing").

### BddStore, BddTriples, BddExchange, BddRuns, BddNodes, BddIte, BddOrder, BddOps, BddFns

The package is sequential C over global variables.  The globals are the fields of one
record, the *store*; a function that changes them is an operator from a store to a store,
or to a pair of a store and the edge returned, of which the caller owns one reference.  An edge is
twice the address of its node, plus one when it is complemented, as in `bdd.h`.  An address that is
freed is used again at once, the lowest first, so that a stale edge does meet another node.

What is kept: the order in which a function takes and gives up references, finds a dead node and
revives it, collects (`BDD_GC` starts inside `bdd_create_node`), extends a table, looks up and
overwrites the computed table (whose slots are few, so that entries do collide), exchanges
two ranks and sifts.  What is abstracted: a hash table is the set of its nodes (a chain's order cannot be
seen), the hash functions of the caches are others, sizes of tables are logarithms.
Marks and notes that a function leaves in the nodes are a function in the
operator, from addresses; every note of an edge holds a reference, as in C.

The first three modules hold what does not recur, so that it can be proved about: how counts change, when
a node is found, made, or given up by `bdd_local_gc`, what `bdd_process_node` does to one node and
`bdd_process_level` to the nodes of a rank.  The other modules build on them and recur along the links.  `BddRuns` says of the three functions that
call themselves and that the theorems are about what one call does, as a relation to the calls it makes; no run uses it.

`BddClient` puts them together: its state is the store and what the client holds (handle -> edge), and its actions are `bdd_create_var`,
`bdd_ite` (with the lookup of the computed table, the collections, the growth of tables and the reordering at its end), `bdd_then` and `bdd_else`, `bdd_assign`,
`bdd_free`, `bdd_freeze`, `bdd_gc`, the reorderings, and the changes of groups.  Nothing bounds them.  Which ranks a reordering
exchanges is left open, and so are the groups, so that sifting, `bdd_reorder_var` and the merging of groups are all among its steps; an operation
that is a sequence of these calls is a sequence of steps.  `BddPackage` is the client TLC runs: the same operations by recursive
operators, and those of the package that `BddClient` leaves out.  `DeadCounted` and `Canonical` are stated once, in `BddState`, for both.

Recursion is on the store, one branch after the other, as in C; TLC puts evaluation off, so that
helpers like `Strictly`, `Folded` and `Table` exist to have a value computed once.  They change no meaning.

### BddPackage and BddLibrary

`BddPackage`'s client holds edges in a few slots, with the function each one meant when it
was returned (`meant`, a set of valuations), and makes any call of the package in any order.
What an operation promises is stated on sets of valuations (`BinaryPromise`, `ConstrainPromise`
and the last argument of `Receive`) and never computed from the diagram; `bdd_restrict` promises less
than a function and is judged by itself (`RestrictTrue`).  `BddLibrary` adds a second kind
of behaviour: the client holds a function f, its complement and another function h in a store with three
variables, for **all 256** f in two orders of variables, and makes one call of the library (76 of them, with
their arguments).  Functions that change nothing (satisfiability, counts, supports, cubes, shortest paths, primes,
evaluation, factored expressions) are judged in `AnswersTrue` on the same states.

### MuFormulas, MuCalculus, MuSimp

A goal goes the way of `run-musimp`: the formula is made by the constructors (with the
simplifications they do), evaluated over a store, expanded into cubes; each of the two calls
into C may be left by an interrupt.  `MCMuSimp` writes the operators of the prelude's theories
`ctlops` and `fairctlops` as the lambda terms they are, over every relation on two states and
some on three, and compares the verdict with what the temporal operator means, computed on the graph.
Terms carry their arities: `mu_mk_reach` with arities that do not fit gives no edge at all (`BadArities`), elsewhere the C functions that
would complain are empty, so that nothing happens.  `modelcheck_formula` turns dynamic ordering on, whatever the rule was told (`Ordering`).
When there are cubes the rule returns subgoals, or X if a cube cannot be put in the terms of PVS or is the goal again (`Verdict`); the properties hold for either.

### MonaBdd, MonaDfa, Ws1s

A node of MONA is its contents, which is what its hashing establishes.  `MonaDfa` follows the automaton
operations, down to the order in which states get their numbers, because `dfaMinimize`,
`dfaMakeExample` and the export depend on it.  In `Ws1s` a formula is made up as it is read: an action
reads an atom, opens or closes a quantifier or applies a connective, keeps the automaton
the code would have built and, as history, the set of assignments the formula holds of.  So one run
is a translation of every formula up to a size.

## 3. Runs

| run | instance | properties | states |
|---|---|---|---|
| `interactive` | a user with all rules but (undo undo), interrupts, 6 proofstates | `TypeOK`, `NoGoalLost`, `QedClosesEveryGoal`, `PathIntact`, `QedRefersToAllUses`, refinement `ImplementsProofSearch` | 210 thousand |
| `undo_undo` | (undo undo) but no failing steps, interrupts, 5 proofstates; fair | `NoGoalLost`, `ClosedStaysClosed`, `EveryGoalComesUp` | 82 thousand |
| `scripts` | 4000 scripts of two levels of `try` and `spread`, run by `apply` or by `prove-decl` without a user; fair | `ResultIsCompositional`, `ApplyReturnsOpenGoals`, `FailDecides`, `Terminates` | 59 thousand |
| `sessions` | a client with one proof and another that interrupts and quits it, or one client with two proofs, which it quits; fair | `TypeOK`, `NoStaleAnswer`, `QuitAllLeavesNone`, `RecordIsTrue`, `QuitAllReturns`, refinement `ImplementsProofService` | 698 thousand |
| `bdd_client` | three variables, four slots, three calls; 512 studies of the library | `TypeOK`, `HeldKeepMeaning`, `RefsKept`, `DeadCounted`, `Canonical`, `CacheSound`, `OrderConsistent`, `AnswersTrue`, `WalkRestoresLinks`, `CubesExplain` | 60 thousand |
| `ws1s` | formulas up to size 4 over a Boolean, two numbers and two sets | `LanguageIsMeaning`, `StatusIsVerdict`, `ExampleIsNearest`, `Minimal`, `ExportRoundTrips` | 27 thousand |
| `mu` | 584 goals, with interrupts | `TypeOK`, `DecidesGoal`, `NothingLeaks` | 7 thousand |
| `qed_after_undo_undo` | all rules, (undo undo) included | violates `QedClosesEveryGoal` | |
| `gc_after_cubes` | the client of the package with the cache of cubes | violates `CacheSound` | |
| `musimp_interrupted` | the comparisons, with interrupts | violates `InterruptLeavesGoal` | |
| `every_call_answered` | a client with one proof, which another interrupts; fair | violates `EveryCallAnswered` | |
| `nested_try` | a script of the prover guide, run by `apply` | violates `NestedTryRecovers` | |

**Why the bounds are enough.**  Six proofstates make room for a split whose branches
are split or backtracked (a `StrategyStep` takes one for the strat-proofstate), with
one more goal to be postponed, which is where the lists of a parent interact;
`MaxNodes` bounds creation only, so a run that has used its proofstates goes on with
failures, postpones, undos and closing steps.  In `undo_undo` five make room for a goal that is postponed,
comes up and is split again, so that goals wait at two levels.  Two levels of `try`
are what distinguishes X from XX and a kept failure strategy from a dropped one.

In `sessions` two clients meet in one session: the owner steps it, the other interrupts it (once) and quits all
sessions at any moment, so that its calls, its kills and its timeouts fall between any two steps of the owner's calls and of the thread, and both
store `*all-sessions*` and `*done-sessions*`.  Or one client goes through two sessions
with quit-all, one of which may have ended or be stuck: two are the least with which what is left to do differs from what is done.
Two clients and two sessions at once (`Bounded` in `MCProofSession` excludes them) are too many states for a run; the theorems
of section 5 are for any number.  A client that steps a session another has made is not in this run, since
what `RecordIsTrue` and `ImplementsProofService` say does not hold then (section 4); `NoStaleAnswer` is proved for it.
Two calls are a call that leaves an entry behind and the one that must not take it.  The cap `MaxCalls` is per
session and leaves out `quit-all`'s own call.

In `bdd_client` counts saturate at 4 (`MaxRef`), a collection needs only 3 nodes (`GcItems`), a
reordering at 4 nodes (`DynaThreshold`), the computed table has 4 slots: each of them comes about
within one call.  Three calls are a function made, a second one made from it while the first is given up or reordered,
and a third that meets what they left.  Three variables are the least with which a group has a neighbour and a sifted
variable somewhere to go.  `UseSopCache` is FALSE, because with it `CacheSound` fails (section 4).
In `ws1s`, `Horizon` = 3 compares all assignments of numbers and sets below 3, in each of their
encodings with trailing zeros; size 4 is two atoms under a connective and a quantifier, or one atom
under three quantifiers.  Size 5 (290 thousand states) also passes, in more time than a run should take.
In `mu` the relations are all 16 on two states and four on three (three states have an
unused code).  The run was also made with collections forced much more often (`GcItems` 10 to 20, `DynaThreshold` 8 to 10) on two states.

`CHECK_DEADLOCK FALSE`: clients of sessions that have used their calls, with
threads that wait for a command; a client of the BDD package that has used its calls; a rule that has
returned; a formula of the largest size: in these states the system rightly stands still.

**Fairness.**  `ProofTree`'s `FairSpec` has weak fairness of `Stepper`, the whole
loop of `prove*-int`: it is sequential and returns only by its conditions.  In `undo_undo`
the user answers every prompt, with any command of the instance; `EveryGoalComesUp` supposes that undos and interrupts
of goals come to an end at some time (`Settles`), since a user who undoes for ever keeps all other goals waiting.  `ProofSession`'s
has weak fairness of each thread and of each client within a call, which is what the
Lisp scheduler gives (that `busy` ends is the prover's `Terminates`), and of the timeout of `quit-all`, since a
timer of three seconds runs out.  Neither the
start of a call nor an interrupt is fair: the properties must hold
without them.  The decision procedures are sequential and each call is one step, so that no fairness is assumed of them.

## 4. Disagreements met

Each of the first five is a run with expectation "violation", whose trace shows it.

* `(undo undo)` is accepted whenever the goal last undone to is current again, not only
  as the command right after the undo (prover guide, "Undoes an undo, if it was the last
  command executed").  The lists it restores may then name goals whose subgoals are
  gone, and Q.E.D. is said with a goal unproved.
* `bdd_gc` flushes entries with dead nodes from the computed table and only then
  empties `sop_cache`, whose cubes die and are freed in the same collection: entries that name them
  stay.  PVS leaves this cache on; `bddsimp` and `musimp` meet it when a
  collection starts inside `bdd_sum_of_cubes`, which takes several thousand nodes.
* An interrupt during `modelcheck_formula` is forgotten when the next call
  clears the flag, and `musimp` takes the missing cubes for a proof.
* `prover-step` may never return, though its docstring (`pvs-threads.lisp:406`) says what it returns.  The entry of a prompt that an
  interrupt led back to, pushed when the queue had been emptied, is taken for the answer to the command.  Its status is read from the root, which the prover
  still changes: if the command has meanwhile ended the proof, the client waits for the thread to end, and
  the thread for its last entry to be taken (`every_call_answered`).
* `(try (try (skip) (assert) (fail)) (split) (flatten))` fails, though `prover.tex:6507` prints that it is
  `(flatten)` (`nested_try`).

Met while the modules were written, told here without a run of their own:

* `(undo)` empties `dependent-decls` and `(undo undo)` restores every other field, so that
  `proof-refers-to` misses what the restored step referred to (`QedRefersToAllUses` is checked without `(undo undo)`).
* Sessions.  `*all-sessions*` is updated without a lock: with two clients and two sessions a removed session may be listed
  again, and one that was pushed may be lost, against the comment at `pvs-threads.lisp:375` ("if it's not waiting, then the session is gone").
  A thread that looks for its session before `make-session` has set the slot reads the standard input, and
  `prover-init` waits for it.  When a client steps a session whose `prover-init` has not returned,
  that call may read "proved" off the goal it was shown, put this on record, and wait for a thread that goes on (`RecordIsTrue` and `ImplementsProofService`
  are stated for `Shares = FALSE`).  After an interrupt, quit-all may take the prompt for the answer to its `(quit)` and pass on with the
  session still listed; `QuitAllLeavesNone` is stated of a quit-all that nothing has disturbed.  A destroyed thread that polls in `session-finish` has no one left to take its output.
* A root proved by `prove-decl` with a script that has nothing for its postponed subgoals stays fresh with
  pending goals and postpones for ever; `PathIntact` and `WInv` below make an exception of it.
* `bdd_diff` over a list of variables notes a node once, for that part of the list it was first met
  with (`bdd_fns.c:1950-2085`, against `doc/bdd_fns.doc:222-230`): for f = v(xy) + v'y the difference by x, y is 1 where v is
  promised.  `mu_diff` calls it.  `DiffBy` asks for what is promised where no node is met with two parts of the list, and receives any function elsewhere.
* `bdd_eval` passes over a variable its function does not depend on only in the function, not in the cube: the value
  of a b + c' under b c is said to be 1, and for some arguments a constant is taken for a node (`EvalTrue` is stated for the constants and for cubes
  whose variables are all tested).  `bdd_subst_vec` may substitute a second time in a result that is itself a node of the vector;
  `VecSubst` replaces a variable only with what does not depend on it.
* `bdd_quantify_c` and its relatives write over notes at the end nodes without giving them up
  and keep references for ever; PVS does not call them (`RefsKept` asks for exact counts except after them).
* `bdd_count_sat_assignments` says 0 for the constant 1 over the empty set of variables; (`CountTrue` leaves this one case out); `bdd_create_var` of a negative id makes the positive literal, though
  `bdd.c:2026-2041` promises the negative one; the list of variables of a cube loses the sign of variable 0, whose negative is itself; `bdd_invert_input_top` complements a constant.
* `bdd_create_var_before` puts a variable behind v when v's predecessor is in v's group; `bdd_reorder_var` stops at 5 % growth; `bdd_max_var_rank` is stale after an insertion;
  the fallback for a conflict of ranks in `bdd_create_node` drops the complement (1856-1870); nothing that PVS does reaches it.
* Interrupts elsewhere: inside the relational product they leave entries of `bdd_and_smooth_cache` over `bdd_quit`; inside a fixed point they leave the
  bindings of relation variables; `bddsimp` when interrupted does not call `bdd_quit` (`bdd.lisp:93-95`).
* Model checker: relation variables are scoped dynamically, which PVS avoids by `uniquefy-bindings`; `try_eta_reduction` (`mu.c:1778`) has no side
  condition; the monotonicity check of `nu` misses iterates that cannot be compared; the term of an invariant is never freed by `mu_mk_reach`; `mu-output` and the cubes are never given up by `run-musimp` (`bdd_quit` takes them all).
* WS1S: `dfa-minus1` drops its constant (`pvs2dfa.lisp:247`) and `dfa-minusmodulo1` calls the constructor of plus (`dfa.lisp:121`): an atom x = y - n of the
  language is translated into something else.  `MCAtoms` leaves the first out, and has the constructor that the second should call in its place,
  so that `LanguageIsMeaning` says nothing of what PVS makes of these two.  The automata of `dfaPlusModulo1(i,i,k)` and `dfaSetminus(i,j,i)` are wrong when their arguments coincide (left out as well); `*boundvars*` is not restored after a quantifier; a free
  first-order variable is not restricted at the top; examples are printed with one row too many read.  `automaton_bfs` leaves `dist` and `prev` uninitialised where it does not come.

## 5. Proofs

All by `tlapm` with no facts taken on trust; the assumptions are those on the
constants (`EngineAssumption`, `ConfigAssumption`, `StoreConstants`), which TLC evaluates, and
`NoUndoUndo` where it is named.

* `TypeCorrect == Spec => []TypeOK` (`ProofTree_proofs`): for any set of strategies,
  rules, outcomes and any bound.  `TypeOK` is inductive; the work is in the growth of the
  tree, since the type of a proofstate depends on the proofstates there are.
* `Soundness` and `NeverReopened` (`ProofTree_soundness`): if no strategy is the rule
  `(undo undo)`, then `Spec => []QedClosesEveryGoal` and `Spec => ClosedStaysClosed`.
  `QedClosesEveryGoal` speaks of the root's flag only at the end; the strengthening `IInv`
  says of every proofstate that its lists hold its own children and are disjoint, that its
  goals are done, waiting or current while it is in work, that done subgoals are closed and
  pending ones postponed, and that a waiting subgoal has no branch half-way (`Settled`);
  and of the path from the root to `cur` that each waits for the next (`PathTo`).  From it,
  a proofstate outside the path changes only by the hand of `transfer-subgoal-strat`, and
  a closed one never.  `(undo undo)` breaks exactly this, as `qed_after_undo_undo` shows,
  which is why the theorem excludes it.
* `NothingLost`, `PathHolds` and `ChainCovered` (`ProofTree_goals`), again without `(undo undo)`:
  `Spec => []NoGoalLost`, `[]PathIntact`, `[]QedRefersToAllUses`.  The invariant is `WInv`, which adds `Whole` to `IInv`:
  the lists of a proofstate name only goals of its last decomposition, a fresh goal is blank unless it is
  a root that is stuck (section 4), no fresh or postponed goal has subgoals left to be tried, a strat-proofstate is the
  only child of its goal, and what the rules of a goal
  refer to is in its `dependent-decls`, which a goal that closes hands on to the one above.
* `SubgoalsReturned == Spec => []ApplyReturnsOpenGoals` (`ProofTree_goals`), again without `(undo undo)`:
  the rule `apply` returns exactly the goals of its subtree that are open and have no open goals below.  What it collects from
  the lists of pending subgoals is a function by recursion on the tree (`Leaves`), of which the prover knows only
  that an equation holds if a function satisfies it; `LeavesChosen` builds that function as a least fixed point, the intersection
  of the sets closed under the equation.  Then, from the leaves of the tree upwards, what is collected below a
  postponed goal is what is open below it, because its goals are done or pending (`WInv`) and those done are closed all the way
  down (`ClosedBelow`); `IInv` says that the root is such a goal when `apply` returns.
* `Implements == Spec => ImplementsProofSearch` (`ProofTree_refinement`), again without `(undo undo)`.
  The proof goes by what a step may do to the tree of last decompositions (`Shaped`): every goal stays as it was, one closes, one is started
  over with all below it, or one gets new subgoals.  Each action has one of these shapes, and each shape is an action of `ProofSearch`
  or a stutter.  Two facts are needed beyond `WInv`: the root is not closed while the attempt
  runs, and it is not an axiom by itself (`RInv`), so that Q.E.D. is the closing of the root and nothing comes after.
* `AttemptDecides` (`ProofTree_proofs`): `Spec => []FailDecides`, if nothing interrupts the attempt and the strategy of an attempt without a user
  can lead to no `query*` step, no quit and no undo (`Unattending`, where `Unasking` is the largest set of strategies closed
  under the steps of strategies that contains none of these).  The hypotheses are what the code needs: an interrupt, and an undo,
  put a `query*` step into the slot of the goal, and this step ends an attempt that has no user as if the user had quit.
* `SessionTypes` (`ProofSession_proofs`): `Spec => []TypeOK` for any number of clients and sessions.
* `RecordHolds == Spec => []RecordIsTrue` (`ProofSession_service`): for any
  number of clients and sessions, with all the races on the two lists, interrupts, kills and timeouts, a status in
  `*done-sessions*` is the status of the proof, as long as a session is stepped by the client that has made it (`~Shares`, which the property states).  The argument: the flag of the root changes
  only while it is open (`Phase` ties the flag to the place of the thread; `finish-proofstate`
  keeps "proved"), a client that is told of an end holds the flag as it was then, no thread is started twice, and a list that a client has loaded
  is as true as the one it came from (`Truth`), so that a lost update loses records and makes none false.
  `prover-init` reads the flag of any goal it was shown: nobody else knows the id before it returns (`Owns`), so no proof
  step comes between the goal and the reading (`Started`), and the goal is still open.  This is where `~Shares` is needed.
* `ServiceImplemented` (`ProofSession_service`): `Spec => ImplementsProofService`, with the same hypothesis and the same races.
  Besides the above it needs `AllWaited`: a client that tells or removes has seen the thread dead, which stays so.
* `AnswersAreFresh == Spec => []NoStaleAnswer` (`ProofSession_proofs`), with no hypothesis.  The invariant `Fresh` says of a client between the count of the
  queue and the wait that all entries it has not yet counted are stamped with its call or a later one.  The drain removes as many
  as were counted and the queue only grows at its end, so that another client that drains or takes an entry meanwhile
  makes it remove more than it must, and never less.
* The exchange of two variables (`BddStore_proofs`), the step all dynamic ordering is made of, in a store of any
  size with any number of variables.  `SwapRanksSound`: if s is well kept for the references h that are held from outside
  (`WellKept(s, h)`: every count is the number of links and of references held, up to the saturation of the
  counter; no node is dead, redundant, doubled, or with a complemented then-link; ranks rise along links), then so is the store
  after `SwapRanks`, with the two variables exchanged, and every edge held stands for the function it stood for.
  A function is a *reading*: for a set of variables that are true, the addresses that are true (`Reads`), so that nothing recurs;
  `OneReading` shows that a reduced, ordered diagram has just one for every assignment.
  The proof goes from one assignment of the code to the whole.  `Stage(s, S, h)` has exact counts while a node is taken apart: it
  is not in S, and what it pointed to is in h.  `Midway` holds between two nodes, when some nodes of the upper variable are rewritten and
  others are not: ranks rise but for the pair exchanged (`Rising`), and no node of one variable has the four cofactors by both of
  a node of the other (`Apart`).  This last is why `bdd_process_node` may put the rewritten node into the table of the other variable without
  looking whether it is there, and why its two halves cannot be equal; it is not implied by the rest and has to be carried along.
  `NodeExchanged` says that one node keeps `Midway`, `LevelExchanged` that all of them do, in whatever order a hash
  chain has them, and that those met later are not ones that were given up or made meanwhile; `RanksExchanged` that the order is then right.
* `EqualFunctions`: in a reduced, ordered diagram (`Diagram`, which says nothing of counts) two edges have the same function if and only if they are equal.
  This is what makes the comparison of two pointers in `bddsimp`, `musimp` and the package itself a decision.  By induction on the
  rank, as the absence of a least counterexample: equal functions have equal cofactors (`Independent`), and equal cofactors equal links.
* `SweepKeeps`: the sweep of `bdd_gc_aux` turns a store that is `Kept`, where nodes may be dead, into a
  well-kept one, and no node in use moves or changes.  The package collects before every reordering (`bdd.c:5246`, `5444`, `5539`), so that
  this theorem and `SwapRanksSound` meet.  That the stores a client reaches are `Kept` is what `ClientRight` says below, and what `TypeOK`, `RefsKept`,
  `DeadCounted`, `Canonical` and `OrderConsistent` check in `bdd_client`.
* `NodeMade`: `bdd_create_node`, in a store that is `Kept`, of two different branches that are in use and below the variable v.
  Whether the node is alive in its hash table, dead in it, or not there, and whatever sign moves from the then-link to the result, the
  result is the function IF v THEN T ELSE E and is owned once, the counters and the links of all nodes agree, the
  diagram is reduced and ordered, and no other function has changed.  `ReferenceReleased`: one step of
  `bdd_free`.  A node whose last reference goes hands those of its two branches on, and nothing else is out of step meanwhile.
  `FreeReleases` is the same for all of `bdd_free`, and `FreeEnds` that it ends.
* One call of `bdd_ite_aux`.  `Delivers(s, h, y, p)` is what a call promises: in the store it leaves, which is `Kept`, all that was
  held before has the function it had, and the result, owned once, has the function IF f THEN g ELSE h, with a rank not above the arguments'.
  The calls that do not recur keep the promise: a trivial case (`IteEnds`), the shortcut for a variable above
  the other two (`ProjectionSplits`, `IteProjects`).  `StandardTripleMeans`: introducing constants, ordering the arguments and moving
  signs keep the meaning, and `IteStandard` that the promise kept for the standard triple is kept for the arguments.  For the rest, `IteSplits`: the
  six cofactors are in use, lower in the order, and those of the function asked for; and `IteStep`: if the two recursive calls keep their promise, so
  does this one.  The second call works in the store the first has left, where a collection may have run, and its arguments were computed
  before: they are still in use, because the caller's references hold what they hang on.  The references to the two branches that are given up last are not
  the last ones, so that `bdd_free` goes no further.  A collection and a larger table after the node (`Tidied`) are covered while
  the cache of cubes is empty.
* All of `bdd_ite_aux`.  A run is a set of calls in which there are with each call those it makes (`IteRun` in `BddRuns`; `FreeRun` and `ReclaimRun` for
  `bdd_free` and `reclaim_aux`), each a record of its arguments, its result and the stores before and after.  `IteRight`: in such a
  run every call whose arguments are in use keeps its promise and leaves the computed table right, whatever results it finds there, revives or
  enters, and wherever a collection runs or a table grows.  `IteReturns`: there is a run for any three edges in use, so that
  the recursion ends.  Neither is an induction over diagrams, which the prover could not do: the topmost rank of the arguments is a number that
  grows from a call to those it makes, in every store, and is at most that of the constant, so that of the calls that break their
  promise one has the greatest (`IteStep`, applied to it, says that it does not break it).  The rank grows although the stores differ, because
  no call changes the rank of an edge in use (`Follows`).
* The computed table.  It holds no references, so that an entry may outlive its nodes.  `CollectionKeepsCache`: a collection
  forgets the entries with a dead node before the sweep frees it, and what is left names only nodes that are there and is right
  (`CacheRight`); `ResultCached`: so it stays when a result is entered; `ResultRevived`: a result found dead comes back with all below it that is dead, and
  the counts are exact again (`ReviveEnds`: this ends).  It needs that a dead node keeps its links and has given up its references to them, which
  `Stage` states for any set of nodes that is on its way back.  The first two want the cache of cubes empty; with cubes in it the collection gives references up
  after it has looked for dead nodes, and `gc_after_cubes` shows what comes of that.

* Every reachable store (`BddClient_proofs`).  The theorems above are about one call in a store that is right; these are about all stores that a
  client brings about by any sequence of the calls of `BddClient`.  `ClientRight`: `Right(store, held)` is invariant.  It has four parts that need
  each other: the client's handles are finitely many and name edges (`IsHeld`); the store is `Kept` for their counts, that is, reduced and
  ordered with exact counts and counters, while nodes may be dead; the computed table is right (`CacheRight`); and the variables and ranks are the
  first numbers (`Numbered`), so that a variable made later comes last, below all there is.  `bdd_create_node` finds dead nodes, so
  that canonical form is needed of them too; `bdd_free` relies on the counts, and the counts on what `bdd_ite_aux` leaves behind it.
  The reordering at the end of `bdd_ite` is a sweep, any number of exchanges (`ExchangesKeep`: the least one that goes wrong does not), and an
  empty computed table: after the exchanges its entries are not trusted, and an exchange may free nodes they name.  From the invariant:
    * `ClientImplements == Spec => Functions!Spec`: the client sees functions only.  The function of an edge is defined by the readings of the
      diagram (`Function`): the valuations under which every labelling of the nodes that follows the links makes it true.  `OneReading` gives one labelling for
      each valuation, hence the equations of the operations, and that a collection or an exchange changes no function held.
    * `ClientEqualEdges`: two functions that are held are equal if and only if their edges are; `ClientCanonical == Spec => []Canonical`.
    * `ClientCountsExact` and `ClientDeadCounted == Spec => []DeadCounted`: each count is the number of its owners, or has saturated, and the counters of
      dead and frozen nodes, which decide when to collect and reorder, are right.
    * `ClientTableSound`: no entry of the computed table names a node that is gone or has the wrong result.
    * `ClientCallsReturn`: whatever came before, `bdd_create_var`, `bdd_ite` and `bdd_free` have an outcome for everything the client may pass to them.
      Without it the other theorems could hold for want of steps.

Only model-checked: the liveness properties (`EveryGoalComesUp`, `Terminates`,
`QuitAllReturns`), since the prover has no ENABLED; `QuitAllLeavesNone`; `ResultIsCompositional`, which compares the engine with a recursion over
strategies; and the properties of the runs of the BDD package, the model checker and WS1S as these modules state them.  Their operators
recur over diagrams and formulas (`RECURSIVE`, which takes the SMT solver from the prover), and what a
recursion computes for every input is an induction over data, which is out of the prover's reach.  The theorems about the recursion of
`bdd_ite_aux`, `bdd_free` and `reclaim_aux` are about the relations of `BddRuns`, which are read from the same lines of the source as the
recursive operators of `BddNodes` and `BddIte`; that these compute such runs is not proved.  So `DeadCounted` and `Canonical`, which `bdd_client` checks of `BddPackage`, are proved of `BddClient`, which
has no recursive operator and no bounds; what `HeldKeepMeaning`, `RefsKept` and `CacheSound` check there are for `BddClient` the theorems `ClientImplements`,
`ClientCountsExact` and `ClientTableSound`.  Of the package there remain the functions that are not sequences of the calls of `BddClient` but
recursions of their own (constrain, restrict, quantification, substitution, cubes, the walks); insertion of a variable between others; emptying the cache of cubes before a sweep; the calls of `bdd_create_node` with a
variable that is not above its branches, which PVS does not make; and the choice that sifting makes among the exchanges, which changes no function.  For the engine with `(undo undo)` there is no
theorem but `TypeCorrect`, since `qed_after_undo_undo` refutes the rest; `undo_undo` checks what remains true in its instance.

## 6. What is not modelled

* In the engine: justifications and reruns, checkpoints, comments and labels, the contents
  of sequents, decision-procedure states; `let` and `if` of the strategy language.
* In the sessions: PVSio sessions, the Lisp debugger inside a session, the choice of the id
  (`get-new-session-id` looks up and interns in two steps), wording of the messages.
* In the BDD package: BDD_X and user terminals, inverted inputs (both off in PVS), limits on nodes and
  memory, the functions that check or print; hash chains and the sizes of tables beyond their logarithm.
* In the model checker: the parser and the printer of its own language, the term constructors
  PVS does not call, the conversion of PVS expressions other than those the goals use and of the cubes back
  into sequents, frontier simplification and the cache of results, which PVS leaves off.
* In WS1S: the node table itself (a doubling moves nodes), the computed table, MONA's front end and memory manager, and its
  tree automata, which PVS links but does not call; prefix closing and printing.
* The other components of the inventory, for the reasons `PROJECT.json` gives.

## 7. Plan

Done: the engine and the sessions, each with its abstract specification, strategies, BDD package and library,
model checker, WS1S, and the theorems above.  What further work would take up, in this order:

1. More theorems about the BDD package: the relational product and quantification as further actions of `BddClient`; the cache of
   cubes gives its references up; moving a group keeps the table of groups in agreement with the ranks; the recursive operators of
   `BddNodes` and `BddIte` compute runs of `BddRuns`, by a prover that can do induction over data.
2. *Theory lifecycle and context*: the status of a theory, what a changed file or an
   imported theory invalidates, what of a binary or proof file is believed after a restart.
3. *Proof status and chains*: `proofchain` over `proof-refers-to`, against a reachability
   definition; it composes with `QedRefersToAllUses`.
4. MONA's node table, with the doubling that moves nodes in the middle of an operation.
5. *Justifications and rerun*: what is saved of a proof replays to the same tree.
6. Union-find and use lists of the ground prover; the reference counts of `GC.c`.
