# ReturnGuard: a TLA+ model

ReturnGuard checks C and C++ programs for results that nobody looks at: a Clang-based
analyzer (`src/src`), which looks at one translation unit, and a Python driver
(`src/scripts`), which runs many analyzers side by side. This directory models the parts of
it whose correctness depends on more than one step: the process driver, the analyses that
iterate to a fixpoint or search through the call graph, the verdict on a call, and what the
three programs make of their command lines. TLC checks the models on small instances, TLAPS
proves the theorems listed below for every instance.

Paths below are relative to the repository (`src/` here is the repository root);
`PROJECT.json` maps each definition to the lines it models.

Contents: [the system](#the-system) · [modules](#modules) · [runs](#runs) ·
[fairness](#fairness) · [proofs](#proofs) · [findings](#findings) · [what is left
out](#what-is-left-out) · [plan](#plan)

## The system

| Component | State it keeps | Operations | What is hard | What makes it correct |
|---|---|---|---|---|
| **Project driver** `scripts/returnguard_project.py` (`main`), `returnguard_project_runtime.py` | the units not yet submitted, the futures pending and done, free slots, flags (`stop_submitting`, the stop event), the temporary directory; per unit a pool thread and a process group | `bounded_results` (submit, wait, drain, yield), main's loop (report, fail fast, Ctrl-C), `run_translation_unit`, `wait_for_process`, `terminate_process_group` | threads, signals, Ctrl-C at any point, timeouts racing exits, analyzers that ignore SIGTERM, failures while reporting | exit status 0 is a claim about all units; never more than `--jobs` analyzers; none is left behind; every run ends |
| **Null-state analysis** `NullState*.inc`, `NullStateAnalysis.cpp` | per block a map from variables and member lvalues to (origin, null state) | transfer of statements, refinement on edges, join, the work list, the diagnosing pass | order of joins, loops, aliases, two names of one object | no null result is dereferenced at a silent site; the analysis ends |
| **Nullable-function inference** `AnalyzerNullState.cpp` | a cache and the set of active functions, for the analyzer's whole life | recursive search through callees | recursion, the order of questions, provisional answers that get cached | verdicts are grounded, final and complete |
| **Lifetime analysis** `AnalyzerSafety.cpp` | per block what each pointer may hold and the state of each object token | allocation, copy, free, realloc, join, work list, diagnosis | aliases, tokens reused for a second object | no silent use after free |
| **Value flow** `CFGValueFlow.cpp`, `AnalyzerFlow.cpp`, `AnalyzerFlowControl.cpp` | per block the variables that hold a call's result, the pointers to them, and whether it was used unchecked | two searches over the CFG, the search of the text between them, the verdict | loops, pointers, checks on one path only | aliases hold the result; an unchecked use is not accepted as handled |
| **Handling search in the AST** `HandlerFinder.cpp`, `IfChain.cpp`, `AnalyzerControlFlow.cpp`, `AnalyzerFlow.cpp` (`function_checks_parameter`) | the tracked variables and covered values during one traversal | copies, overwrites, checks, early ends of the traversal, recursion into callees | source order is taken for execution order; coverage adds up over checks | what is tracked holds the result; what it calls handled is decided for every value |
| **Return domains** `AnalyzerDomains.cpp`, `ValueSetInference.cpp`, `ReturnCollector.cpp` | a cache for the analyzer's whole life, the active functions and variables | recursive search for the values a function may return, through callees, variables and callers | provisional answers, order of questions, writes and callers that are overlooked | a domain contains every value returned; the order of questions does not matter |
| **Condition evaluation** `ConditionEvaluator.cpp` | none | three-valued evaluation of a condition for one value | widths and signedness, the side the result stands on | true and false are never claimed wrongly |
| **Call classification** `AnalyzerCalls.cpp`, `AnalyzerParents.cpp` | none | climbs through a call's parents, the order of the checks of one call, byte counts, `should_report` | precedence between the checks, searches that disagree | a verdict fits what becomes of the value; a short transfer is reported |
| **Contract policy, set-up** `ContractPolicy.cpp`, `main.cpp`, `CompilationSetup.cpp` | the texts collected so far | reading options and files, looking a function up, searching for a database | two parsers of the same texts, precedence, directory order | no policy is lost; the nearest database that knows all sources is taken |
| **Unit selection, sharding** `returnguard_project.py` | none | filter, sort and distribute units | shards run on several machines, at several times | every unit belongs to exactly one shard |
| **Compiler launcher** `returnguard_compiler_launcher.py` | none | find the source, analyse, then compile | every word's role depends on those before it | nothing is compiled unanalysed; the analysis sees what the compiler is told, less its outputs |
| Option parsing, printing, AST utilities, packaging | none | look-ups, parsing, printing | — | — |

How they interact. `main` runs one analyzer process per unit and only sees exit statuses.
Inside an analyzer everything is sequential: each call found in the syntax tree is
classified (`AnalyzerCalls.cpp`), which asks for the callee's return domain, searches the
tree and then the CFG for handling; the null-state analysis asks the inference whether a
callee may return NULL, and the inference asks the null-state analysis whether a `return`
holds an unchecked result. Caches live as long as the analyzer, so that the order of
questions matters. `Worklist` is shared: the same loop occurs seven times in the C++ source.

## Modules

### The driver

`ProjectRunner` has the main thread, one worker thread per unit and each unit's process
group as interleaved actions. `mainAt` is where the main thread stands (filling slots,
waiting, draining a batch of done futures, reporting, one of the `except` clauses, shutting
down, leaving by an exception, exited), `workerAt[u]` the worker's place in
`wait_for_process` and `terminate_process_group`; `leader[u]` and `helper[u]` are the
analyzer and one other member of its group. `future[u]` follows `concurrent.futures`: a
cancelled future counts as done for `wait` only once a pool thread has dequeued it. A Ctrl-C
(`Interrupt...`) may come at any point of the main thread, `MaxInterrupts` times. Time is
abstracted to "the deadline has passed".

`BatchContract` is what a user of `returnguard-project` is promised, without threads or
processes: units start, are reported once, or are abandoned, and the exit status says
something about all of them. `ProjectRunner` implements it under the mapping `Contract`
(property `ImplementsContract`).

### The data-flow work list

`Worklist` is the loop of `unsafe_dereferences_for`, `is_source_nullable_at`,
`is_expression_nullable_at`, `analyze_lifetime`, `aliases_for` (twice) and
`has_unhandled_live_path`: a FIFO of blocks, an optional input per block, a successor queued
again whenever `State::join` reports a change. Its constants `States`, `Transfer`, `OnEdge`
and `JoinOutcomes` are given by the analyses that extend it; `JoinOutcomes` is a set because
a join that walks an `unordered_set` may leave one of several states. `FixpointReached` and
`AnalysisEnds` are stated once, here, and run on the null states (`NullDecls`), whose join is
the intricate one. For the lifetime, the value flow, and the null states of functions
without member lvalues the fixpoint is a theorem; that they end follows from joins that only
ever add (`LifetimeStatesAccumulate`, `ValueFlowStatesAccumulate`, `NullStatesAccumulate`) to
one of finitely many states. `Entries` are the blocks a
search may begin in, one for each function of a family; nothing branches back to one, as in
Clang's CFG (`EntryAssumption`). `Forks` says that the part reached joins or loops.

Each analysis on the work list is modelled twice over: the analysis itself, and then a run
of the analysed C function with concrete pointers and objects. The program is a constant,
one initial state per program of an enumerated family. So soundness is a plain invariant:
what the run does is held against what the analysis said. The actions of the run
(`StartRun`, `Execute`, `Branch`, …) are marked external in the map: they are C, not
ReturnGuard. A place in a function is a block and the index of a statement of it, for the
analysis as for the run.

- `NullFacts` (facts and joins of variables), `NullStateFlow` (statements, conditions,
  refinement on edges, diagnosis; a run, in which each cell holds `"nil"`, the null result of
  the latest call, `"zero"`, a NULL that is no result, or a pointer). `NullDeclsMC` enumerates
  functions of one looping shape over two variables; `NullCasesMC` has chosen functions: with
  member lvalues, the guards of `docs/nullability.md` among them, the walk along a list, and
  a choice with a NULL arm, of which `fact_for_expression`, unlike `evaluate`, knows nothing.
- `Lifetime`: tokens are declarations, as in the code: reading or assigning a variable that
  holds nothing gives it its own token.
- `ValueFlow`: both searches of `analyze_flow_aliases` run on one work list, one after the
  other, over two copies of the CFG (`Search[b]` says which search a block belongs to);
  between them `SearchText` does what `FlowHandlingFinder` and `ResultAccumulator` do,
  afterwards `Judge` asks for an unhandled live path. `&&` and `||` are blocks of their own,
  as in Clang's CFG. The second copy is the first one's mirror image (`Live`,
  `LiveAssumption`); `first` remembers what the first search found, so that a run can be held
  against both. In the run a variable holds a `"result"`, a result that was `"checked"`, or
  something `"other"`; a check of one copy checks all.

### The inference

`NullableInference` models the recursion of `is_nullable_function_impl` as an explicit stack
of frames, over the cache and the active set. A program says for each function which calls
it makes and what it returns. Questions come in any order (`Ask`), so that what one question
leaves in the cache is there for the next.

### The verdict on a call

A call's result is judged in layers, each a module that uses the one below:

- `Conditions`: a condition is a sequence of nodes, operands before operators.
  `EvaluateNode` evaluates one node to a truth (`NodeTruth`, the code's `evaluate_impl`) and
  beside it to a value C may give it (`Meanings`), with the conversions C makes for the type
  of the variable that holds the result.
- `Checks`: which values of a domain an if chain, a switch or a lone condition handles.
- `HandlerFinder`: the search through the text of a function, one visitor an action, and the
  verdict of `analyze_variable`. `finder` has the tracked variables, the covered values and
  the flags. With every visit the same statement is executed (`Execute`): `holding` are the
  variables that hold the result in the run, `decided` the values for which a branch of an
  executed check was surely taken. `ChecksParameter` is `function_checks_parameter`, with
  its active set, beside `Reach`, all functions the value gets to. `WellFormedText` says what a
  text is: operands of a condition come before it, and a declared variable is a new one.
  `HandlerFinderMC` enumerates texts and call graphs.
- `CallVerdicts`: `path` is what stands above a call in the syntax tree; the functions of
  `AnalyzerParents.cpp` are climbs along it that differ in what they pass through and where
  they may end (`Climb`). `ClassifyCall` is the order in which `classify_call` asks, with
  the answers of the other analyses in the call's record. `Fates` is what becomes of the
  value when the program runs. `Possible` says what such a record may hold: only a graph has
  something to say of the flow, and only of a value that is stored or stands in the condition
  of a `?:`; comparisons of a byte count are found in a condition around the call, or after
  it if its value is stored.
- `ReturnDomains`: the recursion of `function_domain`, `infer_expression` and
  `infer_variable` as a stack of questions over the cache. A question (`Call`, a variable, a
  call through a parameter) looks at its `Parts`, the expressions that the code loops over,
  operand by operand; `SearchOperand` is the recursive call, `ReturnDomain` its return, and
  `BeingAsked` are the active sets. Questions come in any order (`AskDomain`). When all
  functions have domains the unit is analysed a second time, in another order
  (`AnalyzeAgain`, with the first cache in `earlier`). Then the program runs (`Run`): from
  nothing, `runs` takes up what functions return and variables hold in any context.

`CallsMC` has calls below many paths, and small programs.

### Command lines

`UnitSelection` has several invocations of the driver, the shards of one job, each looking
at the project's files at a time of its own while files appear and vanish.
`CompilerLauncher` speaks of the places of a compiler's arguments: which ones each loop of
the script passes over (`Taken`), which are positional, which the analysis gets; `Reading`
and `CompiledAs` say how a compiler reads the same line. `AnalyzerConfig` has the phases of
the analyzer's `main` before it analyses: the search for a database, whose candidates are
ordered by where the search starts, how far up they are and where they stand there
(`NotAfter`), then the files of policies in the order they are read, each of which may end
the program; then the look-up of a function's contract.
`CommandLinesMC` puts the three programs side by side.

## Runs

| Run | Bounds | What it shows |
|---|---|---|
| `RunnerSafety` | 3 units, 2 jobs, `--fail-fast`, `--timeout`, file and process creation may fail, one analyzer with a helper, one Ctrl-C | the safety properties, the inductive invariant of the proofs, the refinement of `BatchContract` |
| `RunnerEnds` | 3 units, 2 jobs, `--fail-fast`, `--timeout`, reporting may fail, two Ctrl-C | every run ends though no analyzer exits by itself, if deadlines pass; unless told to stop it reports every unit; Ctrl-C ends it even if they do not |
| `RunnerHelpers` | 1 unit with a helper | *violation*, see findings |
| `NullDecls` | 14,994 functions, two variables, loop, guard, early exit, NULL to begin with; a walk along a list, a choice with a NULL arm; and the guards of `docs/nullability.md` | fixpoint, end, no silent dereference of a null result, why refining one alias may refine all; documented guards accepted, late and partial checks reported |
| `NullMemberTruth`, `NullReplaced` | one function each | *violations*, see findings |
| `Inference` | 3 functions, 11 shapes of bodies, questions in every order | verdicts are final, grounded, and complete where nothing is recursive; every question is answered |
| `Lifetime` | 2,744 straight-line and 2,352 branching or looping functions over a local and a parameter | no silent use after free; straight-line reports are real |
| `ValueFlow` | 4,320 functions with branch, loop, pointer, and 12 functions of `tests/cases` | aliases hold the result, unchecked uses are not accepted, verdicts as the tests expect |
| `Handling` | conditions over operands of three types; 56,307 texts of one to three statements over two variables and three domains, among them all call graphs of three functions; ints of 8 values | truths are C's, the tracked hold the result, handled is decided for every value, ignored means unread, callees answer alike in every circle, the search never forgets |
| `CommandLines` | 3 shards over 3 files, two places of the project; all lines of up to 3 of 17 words and 4 of 10; 5 functions, 9 texts in up to 2 files of each kind; 4 directories, 4 databases | one shard each, nothing compiled unanalysed, no policy lost, the nearest database |
| `Calls` | every path of up to 4 nodes (3 where the result is stored), and of 5 nodes of a few kinds, under every answer of the searches, one or two comparisons of a byte count; all call graphs of 3 functions over 11 bodies, contracts and annotations, one variable of each scope, callbacks, each program analysed twice in every order and then run (1.4 million states) | verdicts fit what becomes of the value, short transfers are reported, domains hold what is returned whatever was asked first, and both analyses agree |

Why the bounds are enough for the questions asked. *Driver*: with three units and two
workers there is a unit queued behind busy workers, one that finishes in the same batch as
another, and one never submitted; a second Ctrl-C reaches the shutdown of the first. What
depends on the number of units is proved instead. `RunnerEnds` is a run under `--fail-fast`
only: without it, where the slot of a timed-out unit is refilled, the state space is four
times as large, so that only safety is covered there, by the theorems. *Analyses*: a join, a
loop that changes an input after its visit, an alias overwritten on one path, a check before
and after a use, and a check on one of two paths all occur in the enumerated shapes.
*Texts*: a copy, an overwrite and a check in every order need three statements. *Paths*: the
questions differ in which of two or three nodes they pass through; the code's limit of 24
levels is `Depth`, 4 here, and that of 16 for a cast to void is `VoidDepth`, 2 here, so that
both are met.
*Circles* of callees need two functions, a caller outside of the circle a third. The
exemptions below were tested by removing them: TLC then finds a counterexample within the
same bounds, so the bounds reach the hard cases.

`Spec` of `Handling`, `CommandLines` and `Calls` is a disjunction of programs that share no
variable; a behaviour is of one of them.

Exemptions, each a limit of the program rather than of the model:

- `FreedTouchReported` and `ReportsAreReal` exempt functions in which a token stands for two
  objects (`TokenReused`): `set_fresh` gives a variable its own token again while an alias
  of the object before still holds it.
- `ReportsAreReal` also exempts functions in which the analysis has to guess (`Guesses`):
  joins, loops and choices, and a deallocation whose value is consumed, such as `(void)free(p)`: it is an element of the CFG and part of another one,
  and is reported as a double free of itself.
- `UnsafeDerefReported`, `AliasesAgree` and `NullResultsKnown` exempt a function whose call is
  made while a variable other than the one assigned surely holds NULL or an earlier result
  (`Recalled`): the code keeps one origin for all calls made at an expression, and a NULL
  constant is a source too, so the variable is taken for a holder of the new result.
  `RecalledNeedsNull` (a theorem) says that this takes a NULL constant wherever only one call
  is analysed at a time, as in the code. The exemption came out of the proof.
- `AliasesHoldResult` and `UncheckedPathReported` exempt a write through a pointer with
  several possible targets (`AmbiguousWrite`): the code updates all of them strongly.
- `UncheckedPathReported` exempts a function that returns a value that is the result on some
  paths only (`DoubtfulReturn`): the code clears everything it tracked there.
- Both exempt functions in which a pointer is moved, or receives what the analysis cannot
  follow (`StrayPointer`): `p = f()` leaves a pointer without targets that is not unknown
  either, and `p++` leaves it where it was. The enumerated functions have no such pointer;
  the exemption came out of the proof.
- `SoundTruth` exempts comparisons that convert a value (`KeepsValues`): the evaluator
  compares mathematical values, so `n < sizeof(buffer)` with n = -1 is called true.
- `TrackedHoldsResult` and `HandledIsDecided` exempt texts that share a variable's address
  or switch on an expression that contains the result (`Followed`): `switch (n + 1)` is
  taken for a switch on `n`. `HandledIsDecided` also exempts texts with a comparison that
  converts one of the domain's values (`ValuesKept`): `if (n < 1u) return;` passes for a
  check of the value -1, which C does not catch there.
- `DomainsHoldReturns` exempts what `Approximate` lists: the value sets of failure
  contracts, which stand for classes; returns that convert to bool; writes that come around
  a loop; parameters that are written or come from outside of the unit; globals before
  their first write. `OrderDoesNotMatter` exempts what rests on an `Unsteady` circle, one of
  functions whose types differ, or of bools that rest on a value other than 0 and 1: there
  the provisional answer is kept in the cache of another function. It does not matter in
  which function of the circle, or below it, such a value is read: with `bool g` returning
  `neg()` and `k()`, `bool k` returning `g()`, and `neg` under a "negative" contract, `k` may
  get the domain {0, 1} or {-1, 0, 1}. The proof showed that an earlier exemption, of what
  stands in the circle itself, was too narrow.
- `ShortTransfersReported` exempts `> -1`, which the code does not take for a check of
  failure only, and calls further below their statement than the climbs go.
- `VerdictMatchesFate` takes a byte count that is compared in the text as handled without
  the graph's word, as the code does (`AnalyzerCalls.cpp:710`). It also exempts a call
  somewhere in the condition of a `?:` that the graph calls exhaustively checked
  (`TakenForTested`): `TraverseConditionalOperator` (`AnalyzerFlow.cpp:161`) takes all that
  the condition contains for tested, be it an argument of another call. This came out of the
  proof, when what the graph may answer had to be written down.
- `AnalysedAsCompiled` leaves standard input out: `-` passes for an option in
  `positional_arguments`, so the refusal of line 124 only happens after a `--`. Of the
  arguments of the analysis it speaks where no value and no file after a `--` is named like
  an option. And it exempts a file whose language is overruled (`Overruled`) by a `-x` that
  stands after the file, or where the compiler reads no option: see below.

## Fairness

`ProjectRunner!Fairness`: the main thread and the pool's threads are scheduled, the kernel
delivers signals (weak fairness of each). An analyzer is *not* assumed ever to exit by
itself, nor to obey SIGTERM; Ctrl-C is not assumed to come. This is what the code can rely
on: it waits with a poll interval, and escalates to SIGKILL. That a deadline passes while a
worker waits for it is not fairness of an action but the premise `DeadlinesPass` of
`EveryRunEnds` and `EveryUnitIsReported`; `InterruptEndsRun` does without it.

The analyses are sequential code: weak fairness of `FlowStep` (of `Search` for the
inference) says that the analyzer's loop keeps running. The run of the analysed function has
no fairness; nothing needs it. The runs with safety properties only have no fairness at all.

## Proofs

All proofs are about every value of the constants:

- **`DriverProofs`**, the programs around the analyses. For `ProjectRunner`, `IInv`, the
  conjunction of the type invariant and the parts in which it is inductive: `WorkerInv` (a
  worker, its child and its future agree), `CauseInv` (why a worker signals), `AccountInv`
  (every submitted unit is pending, in the batch, reported, or cancelled for a reason),
  `PhaseInv` (the flags agree with the main thread's place), `RefillInv` (no slot is lost),
  `ShutdownInv`, `FailFastInv` and `PoolInv`. They are needed because the properties talk
  about the end of the run only: that exit status 0 means that all units passed rests on
  `RefillInv`, that no analyzer is left rests on `WorkerInv` and `PhaseInv`, the bound on
  analyzers on the bound on busy threads and a cardinality argument. From `IInv`: the safety
  properties, that an analyzer is signalled only after its deadline or a Ctrl-C
  (`SignalsHaveACause`), fail-fast as an action property, and the refinement of
  `BatchContract` (with `ReportFaults = FALSE`: an `OSError` while reporting makes Python
  exit with status 1 although no unit failed).

  For what comes before: `ShardsDivideSources`, for any number of shards, sources and plans.
  Invariant `SelectionInv`: what an invocation selected is what its options select from the
  files it saw, those that stayed all the time among them. Disjointness and completeness
  follow since a remainder is one index, and every index is some shard's.
  `NothingCompiledUnanalysed`, for lines of any length: up to a separator the launcher and
  the compiler take the same words for values (`SeparatorsAgree`, by induction along the
  line), so what is a file to the compiler is positional to the launcher; the language the
  compiler heeds is one the launcher knows of, and if the launcher's last one is another, it
  is one for C or C++ (`CompiledAreCandidates`; here the proof came upon `-x none` after the
  file). `LauncherInv` says that nothing is compiled before the analysis of a candidate has
  passed. `NoPolicyIsLost`, for any options, files and configurations: `ConfigInv` says that
  the texts collected are those written in the files read so far and that those of
  configurations are valid; a valid text is understood by just one of the two lookups
  (`Understood`), and the first to name a function is found (`FirstFound`).
  `NearestDatabaseTaken`, on any disk: the order of the candidates has a first one
  (`FirstOfAll`), and only one. What is assumed of the constants is that lines, files and
  lists of databases are sequences and directories finitely many (`LauncherAssumption`,
  `PolicyAssumption`, `DiskAssumption`).
- **`WorklistProofs`**: for every graph and every state space whose join accumulates
  (`JoinAccumulates`) and whose blocks map states to states (`FlowIsTyped`), an empty work
  list is a fixpoint. Invariant: a reached block is queued, being visited with its present
  input, or has delivered to all its successors. Besides: the entry keeps its first state
  (`EntryInv`), and in a function that never forks every block's input is exactly what its
  one predecessor hands on (`StraightInv`). The lemmas on folds are here too: a block is a
  fold over its statements, and `FoldLeft` is a `CHOOSE` of a recursive function.
  `NatSetInduction` (a set of numbers with 0 and closed under successor has all of them, from
  the least element of its complement) is applied to sets written out, which takes the place
  of the induction theorems with an operator for a parameter; `FoldExists` shows that the
  fold is what it is meant to be, `Iterates` that each prefix is one statement more.
- **`LifetimeProofs`**: the laws of `JoinAccumulates` for `LifetimeState::join`, and
  `FlowIsTyped` by the fold lemmas, hence `LifetimeEndsAtFixpoint` without hypotheses but
  that the constants of `Worklist` are those of the lifetime analysis (`DrivesLifetime`).
  Then the soundness of the analysis, for every function over any number of variables:
  `FreedTouchesAreReported` (no silent use after free) and `ReportsAreAlwaysReal`. The
  invariant names for each object of the run the token that stands for it (`Names`) and says
  that the state at the run's place admits what each variable holds and what became of each
  object. It is kept by each kind of statement, because the state before the next
  statement is the fold of one more; and by each branch, because the fixpoint makes what is
  handed over part of the successor's input. For real reports the invariant is `Exact`: the
  state says no more than the run.
- **`ValueFlowProofs`**: the same for `analyze_flow_aliases`: both searches end at a fixpoint
  (`BothSearchesEndAtFixpoint`; the work list restarts in the middle, `SearchTextStep`),
  `AliasesAlwaysHoldResult` and `UncheckedPathsAreReported`. Invariants: `FirstTrueInv`, what
  the first search says of the run's place is true of the variables (what it calls the result
  is the result, a pointer points to one of its targets); `LiveTrueInv`, the second search
  says nothing false either, and misses neither an unchecked result nor a use. For the run
  to be at a place of the second search as well, `SecondInv` and `PlaceInv` follow it through
  the mirrored copy. At an exit with an unchecked use the second search therefore has its
  unhandled path, and `Judge` has refused.
- **`NullStateProofs`**: the same for the null states of functions without member lvalues,
  over any number of pointer variables: the laws of `JoinAccumulates` (`NullStatesAccumulate`)
  and the typing by the fold lemmas, hence `NullStateEndsAtFixpoint`, then
  `UnsafeDereferencesAreReported`, `AliasesAlwaysAgree` and `NullResultsAlwaysKnown`. The
  invariant `KnownInv` says of the state at the run's place (`Knows`) that the variables which
  surely hold the result hold one and the same, or NULL, and that whatever holds a null result
  is recorded as unchecked. Agreement is not one of several properties here but what the proof
  of the others rests on: a guard refines every variable that surely holds the result, which
  is sound only because they agree. It is kept by each kind of statement, by the refinement on
  the edge the run takes, and by a join because a covered path says no more than what covers
  it. `RecallingNeedsNull` bounds the exemption by `UncertainInv`: with one call and no NULL
  constant no variable surely holds the result on entry to the block of the call.
- **`NullableInferenceProofs`**: `SearchInv` (stack, active set and cache agree; each frame
  waits for the one above it), on which groundedness and finality of verdicts rest; and, for
  acyclic programs, `Descending` (callers have a higher rank than callees on the stack, so
  the provisional answer is never used) with `SettledInv` (every call and return passed over
  was refuted for good), which gives completeness.
- **`HandlerFinderProofs`**, how the search judges a text, from the condition up.
  `TruthsAreSound`, for conditions of any size,
  integers of any number of states and any set of conditions and values: by `ConditionsInv`
  every node evaluated so far has the truth and a value its operands give it, and a truth
  that is not Unknown agrees with the value; wrapping changes nothing under `KeepsValues`.
  Then the search, for texts of any length over any variables, domains and call graphs.
  `HandlerInv` says that what the search knows is `Good` for what the run did: what it tracks
  holds the result unless it has ended, what it counts as handled is decided unless
  something settled all, and as long as it has found nothing (`Silent`) it tracks *every*
  variable that holds the result and none was read. The last part is what
  `IgnoredMeansUnread` needs: without it a result could be read through a variable lost from
  sight. `VisitKeeps` reduces a step to one lemma for each visitor (`DeclStmtGood` to
  `SwitchStmtGood`); the checks rest on `IfIsRight`, `ConditionIsRight` and `SwitchIsRight`,
  which go back to the truths through `TrueIsSure` (true of the code's evaluation is true
  whatever C gives the unknown operands). Hence `TrackedAlwaysHoldsResult`,
  `HandledIsAlwaysDecided`, `IgnoredIsUnread` and the action property
  `SearchNeverForgetsAnything`. For `CalleesAlwaysAnswerForAll`, what is reached without
  passing through the functions being looked at (`ReachAvoiding`) satisfies the equations of
  `function_checks_parameter` (`ReachesCheckStep`), and only one table does
  (`AnswersAreUnique`, by induction on the functions not being looked at).
- **`CallsProofs`**: the verdict, and the domains it is held against.
  `VerdictsMatchFates` and `ShortTransfersAreReported`, for calls below paths of any length
  and all answers that the searches may give. `CallInv` only says that the verdict is the
  one `ClassifyCall` gives; the argument is in the climbs. A climb that ends in a place has
  only passed carriers (`ClimbPasses`), and what the value meets at that place is among its
  fates, because none of the carriers below it takes the value away (`FateReached`, by
  induction down the path). Conversely the first node that tests a value is reached by one
  of the climbs (`ClimbReaches`, `ClimbTested`), hence what no climb finds is not looked at
  (`NothingLooks`). For short transfers, a comparison that can only tell a failure is one
  that the code takes for such (`FailureRecognised`, turned or not), and no failure is a
  comparison with the count. Assumed are what `Possible` says of a call and that the limits
  of the climbs are numbers (`CallsAssumption`, `DepthAssumption`, `OptionsAssumption`).

  Then the domains, for every program (`ProgramsAssumption` only says what a program is
  made of), with whatever circles through functions, variables, parameters and callbacks.
  `DomainsAlwaysHoldReturns`: that a domain holds what has been returned *so far* is not
  inductive, because the search answers for good and the program goes on. `HoldInv` says
  instead that every cached domain, and what an open question has gathered of the operands
  passed (`Gathers`), holds in *every* context whose values all come from somewhere
  (`Sourced`); what is looked at supplies all such values, or is approximate
  (`CallSupplied`, `VariableSupplied`, `PointerSupplied`), and `RunsInv` says that the run
  never leaves those contexts. A provisional answer is sound since the domain of a type is.
  `OrderNeverMatters`: two searches are not compared with each other, but each with what
  the program alone determines (`Determined`): which questions have a finite answer, and
  which values, are the least solutions of two rules (`FiniteOperands`, `SuppliedValues`;
  written as intersections of all solutions, so that no recursion is needed) in which every
  circle through a function, or among variables, is cut and has its provisional answer.
  `OrderInv` says that the caches and what is gathered are the determined answers
  wherever no unsteady circle is below; its part `PathInv`, that each question on the stack
  is reached from those below it, makes a question met again one that stands on a circle
  (`AskedCircular`). What is left is that a search which does go around a circle finds
  just the answer it would get by cutting it (`CircleSettles`): nothing else than 0 and 1
  is read there (`OnlyTruth`), and the provisional answer supplies both (`TruthAround`).

Only model-checked: everything with fairness (`EveryRunEnds`, `InterruptEndsRun`,
`EveryUnitIsReported`, `AnalysisEnds`, `EveryQuestionIsAnswered`): liveness is beyond the
provers; the null states of member lvalues, whose joins do *not* accumulate (see
`NullReplaced`) and whose facts are not sound (see `NullMemberTruth`); and `TestVerdicts`
and `DocumentedVerdicts`, which say what the analyses make of some functions of the tests
and documents, one by one.

## Findings

- `RunnerHelpers`: `terminate_process_group` returns as soon as the analyzer itself is gone,
  so a helper that ignores SIGTERM is never killed; `docs/large-projects.md` promises that
  helpers are not left running.
- `NullReplaced`: joining member lvalues compares the stable key after overwriting it, so
  the join of equal states may report a change for ever, and the analysis does not end.
- `NullMemberTruth`: `if (s.p)` refines pointers that hold the result although `s.p` holds
  it on one path only; an unchecked dereference stays silent.

Observed while modelling, beside the exemptions above. The last `-x` of a line decides for
`explicit_language`, wherever it stands, while a compiler heeds it for the files after it: on
`-x c++ file -x none` the launcher sees no source and compiles the file unanalysed, which
line 117 means to refuse (without `Overruled` TLC finds it). In the walk
`p = NULL; while (c) { q = p; p = find(); if (p) q->value; }` the analysis takes the NULL in
`q`, and in the next round the result before, for the result just tested, and is silent about
`q->value`, although `docs/nullability.md:81` has a dereference reported if one path can still
carry an unchecked result (`previousNode` in `NullCasesMC`; without `Recalled` TLC finds it). `README.md:277` says that integer
functions with a visible body are not treated as closed finite domains; `function_domain`
does infer such domains (`ReturnDomains`). In the inference of nullable functions the
provisional "no" given to a recursive question is cached for good as part of another
answer: with `f` returning `g()` or NULL and `g` returning `f()`, asking about `f` first
leaves `g` not nullable, asking about `g` first finds both nullable. A short-circuit
`a || b` skips the block on which the whole condition is evaluated, so a use in the `then`
branch of an exhaustive `if (s == 1 || s == 2)` is reported as unhandled; a path on which
the result is passed to a function that checks it is reported in the same way; the second
search evaluates an `else if` with its own condition's expressions only.

## What is left out

- *Driver*: POSIX only. The Ctrl-C between entering an `except` clause and setting the stop
  event, and a Ctrl-C while the interpreter joins the pool's threads, are not modelled; a
  helper process is started before its analyzer is signalled; what logs and summaries say is
  left out.
- *Null state*: members through `->` and lvalues without a stable key, pointer arithmetic,
  conditions saved in Booleans, and the replay from another source expression; whether a
  `return` "holds" a nullable call is part of a program in `NullableInference`.
- *Lifetime*: parameters point to distinct live objects; an unknown call returns a new
  object; `freed_at`, which only places a note. The checks of `SafetyVisitor` beside it look
  at one expression at a time.
- *Value flow*: which statements pass the result to a callee that checks it comes from the
  program (`checked`); a call's result is an integer in a variable or member; arrays and
  declarations without initialiser.
- *Handling, conditions*: a text is straight: bodies of checks, those of an `else if` too, are empty or leave. Casts and
  symbolic sums of constants are folded before the model starts. The values of a domain are
  integers without labels.
- *Calls*: which names are helpers, adapters or commonly ignored, and where a location is
  written, are fields of the call. *Domains*: what an enumeration or an annotation lists is
  part of the program.
- *Contracts*: the tables of built-in functions by one name of each group; option parsing,
  whose work Clang's library does.
- *Driver, launcher*: discovery of tools, building of commands, logs and the summary.
- The components marked `not_modelled` or `partly` in `PROJECT.json`, with the reason.

## Plan

What would come next, most useful first; the runs are kept at a dozen by letting a new
component join an existing run of its kind.

1. An abstract specification of a call's verdict, implemented by `CallVerdicts` with
   `HandlerFinder` and `ValueFlow` in the place of the record's answers.
2. An abstract inference (answers are grounded, final and cached) that `NullableInference`
   and `ReturnDomains`, both a stack of questions over a cache, implement.
3. Null states of members through `->`, and the replay from another source expression.
