# Verification of BASTET

BASTET analyses Scratch programs written in its intermediate language LeILa. A
program is a set of actors with scripts; every script becomes a thread. The
analysis explores the states of the program with a stack of configurable program
analyses: a worklist algorithm unrolls a reachability graph, the control analysis
interleaves the threads, and the analyses inside it represent the data.

This directory holds TLA+ models of the parts of that machinery that have
state and control, the runs of TLC that check them, and proofs of what they
guarantee for all programs.

## Inventory

Paths are relative to `src/bastet/` of the repository.

| Component | State | Operations | Interacts with | What makes it correct |
|---|---|---|---|---|
| Thread scheduling, `procedures/analyses/control/ControlTransferRelation.ts`, `ConcreteProgramState.ts` | list of threads (state, location, call stack, loop stack, atomic nesting, what it waits for), list of condition threads, last stepped program threads | `abstractSucc`: interpret one operation, finish threads, restart monitors, wake up waiters, check conditions, schedule | called by the graph analysis; asks the wrapped analyses for the successors of data and for the truth of conditions | nobody resumes too early or sleeps forever; atomic sections; observers first; phases of a program in order; no internal check fails |
| Merge and order of control states, `ControlAnalysis.ts`, `coverage/` | coverage counters | `shouldMerge`, `merge`, `stop`, `widen`, order keys | called by the graph analysis | only states of the same control are merged |
| Reachability algorithm, `procedures/algorithms/ReachabilityAlgorithm.ts`, `procedures/analyses/Operators.ts` | frontier, reached set | `run0`: take a state, compute successors, widen, merge, stop, add; return at a target | uses every analysis through the graph analysis | when it ends without a target, the reached set covers every successor |
| Feasibility, CEGAR, multiple properties, `procedures/algorithms/` | precision, sets of open, violated and satisfied properties | check the target and remove it; refine and restart; collect results | wrap the reachability algorithm | a result is reported for every property, and "safe" only after a complete run |
| State sets, `procedures/algorithms/StateSet.ts` | partitions, heaps, insertion order, sizes | add, remove, peek, partition | frontier and reached set of the algorithms | sizes and emptiness agree with the contents; nothing is lost |
| Graph analysis, `procedures/analyses/graph/` | reachability graph: predecessors, merged-into, children | transfer, merge, add, remove | wraps the control analysis, wraps frontier and reached set | what is removed is reached again from a frontier state |
| SSA, label, time, data, value, statistics, debug analyses, `procedures/analyses/*/` | index maps, counters | transfer, merge | wrapped in each other | merging keeps both branches apart |
| Abstraction analysis, `procedures/analyses/abstraction/`, `AbstractionPrecision.ts` | block formulas, abstractions, precision | compute an abstraction at widening states, refine from an infeasible path | CEGAR | the refined precision excludes the path |
| Domains and lattices, `procedures/domains/`, `lattices/` | none | join, meet, inclusion | every analysis | the laws of a lattice |
| Control flow, `syntax/app/controlflow/` | transition relations | concatenate, branch, eliminate epsilons, find dominators and loops | control analysis | the same paths of operations before and after |
| Programs, `syntax/app/` | actors, scripts, methods | build, dissolve inheritance, unite programs | read by the control analysis | every script becomes a thread |
| Utilities, `utils/` | budgets, decision diagrams | count, compare, convert | everywhere | the reference definition of each |
| Parser, transformers, solver bindings, command line | - | translation and I/O | - | not modelled |

What is hard here: one step of the control analysis is a pipeline of six stages
that read and write the same list of threads; a scheduler that is meant to be
fair, gives observers priority and stops for atomic sections; sets that are
changed while the graph is merged and cut, by four parties (the algorithm, the
merge operator, the reached set, the refinement); a loop that restarts
exploration on what is left.

## Modules

Modules `MC<name>` instantiate a module for TLC, modules `<name>Proofs` hold its proofs. `ControlSchedulerProofs`
has three parts that build on each other: all programs; orderly programs (waiting, atomic sections, broadcasts, monitors,
internal checks); phases, and programs as they are built. `ReachabilityProofs` and `PredicatesProofs` share
`ExplorationProofs`, lemmas on what removing and merging states leaves of the graph and of the frontier; `ControlFlowProofs` and
`LoopStructureProofs` share `TransitionRelationsProofs`, lemmas on the shape of relations and on searches in them.

| Module | Models | Built on |
|---|---|---|
| `ControlScheduler` | one step of the control analysis: the scheduler of threads; with proofs | |
| `BuiltPrograms` | what the parts that build a program make sure of, as operators on a program | `ControlScheduler` |
| `FrontierSets` | the operators of the differencing frontier | |
| `Exploration` | the reachability graph with merging and removal, the frame of the worklist, collection of verdicts | `FrontierSets` |
| `Reachability` | bounded model checking: worklist, merging, feasibility of targets, budget; with proofs | `Exploration` |
| `Predicates` | predicate abstraction: the same worklist with blocks, widening, coverage, and refinement of the precision; with proofs | `Exploration`, `BlockRelations` |
| `TraversalOrder` | in which order the states that a thread leads to are expanded: lexicographic keys, wait at meet | `TransitionRelations` |
| `Verdicts` | the abstract specification of a result, implemented by `Reachability` and by `Predicates` | |
| `BlockRelations` | what formulas, summaries and predicates stand for: relations and sets of data | |
| `Blocks` | the abstract specification of an analysis with blocks: merging, summaries, traces | `BlockRelations` |
| `Encoding` | SSA versions, constraints on data, merging of branches, starts of blocks and alignment of traces; implements `Blocks`; with proofs | |
| `TransitionRelations` | composition and transformation of transition relations, as operators; with proofs | |
| `ControlFlow` | from the statements of a script to its relation: building, elimination of epsilons, shape; with proofs | `TransitionRelations` |
| `LoopStructure` | dominators, loops, wait-at-meet order of a relation, and the loop stack of a thread; with proofs | `TransitionRelations` |

How they meet in the code: `ControlFlow` produces the relations that `LoopStructure` analyses and whose
locations `ControlScheduler` steps along; `TraversalOrder` turns the numbers of `LoopStructure` into the order of the frontier; the control states and keys that are parameters of
`Reachability` and `Predicates` stand for what `ControlScheduler` and `LoopStructure` compute. They are
checked apart: a product of a scheduler and of the graph over its states is beyond TLC. `Predicates` takes
for granted that the formula of a block is a relation and a trace their composition; that this is so is what
`Encoding` shows.

Still to do, in this order: lattices, clauses and decision diagrams; the construction of programs from the syntax
tree.

## ControlScheduler

### State and actions

`task` is the program under analysis: for each thread its script (event, message, actor,
whether its actor is an observer, whether it belongs to the program's concern,
attribute `restart`, relation and entry location), the transition relations, and the
methods. It is chosen in the initial state from the constant `Tasks`. Locations are
numbered uniquely across relations as in the code, where location ids are global.

`threads` is `threadStates`: the computation state with the letters of
`ThreadComputationState`, the location, the call stack (return locations), the atomic nesting
depth, the set of what it waits for, and whether it failed a property.
`condThreads` is `conditionStates`, one condition thread per waiting thread;
`lastNonObserver` is `lastSteppedNonObserverThreadIndices`; `thrown` is the set of internal
checks (`Preconditions.checkState`, exceptions) that failed, after which the analysis ends.

Each action is one operation of the running thread followed by all stages of
`abstractSuccSingleStep` (`Complete`): `Terminated`, `Monitored`, `WokenUp`, `Released`,
`Scheduled`, in the order of the code, each reading the same intermediate state as the code does.
`StepOrdinary` stands for all operations that change nothing in the control
state but the location, among them `stop this script` and `stop other scripts in actor`.

Abstracted: the wrapped state. Every branch may be taken; a condition that is waited for may
hold or not, except when no program thread can run: then the code advances time to it. A
successor whose data is infeasible is a behaviour the model has and the code cuts off.
The loop stack is a part of `LoopStructure`. Not modelled: `activatedByThread` and the operations of a
thread, which only order the frontier; scoping of variables.

### Runs

`MCScheduler` builds programs from actors, scripts and bodies, adds bootstrapper and
terminator as `AppBuilder` does, and defines a family of programs for each run; every
program of the family is an initial state. Scripts start and end with an epsilon
transition as `RelationBuildingVisitor` and `TransitionRelations` produce them.

| Run | Programs | Shows |
|---|---|---|
| `sched` | a startup script of up to two operations and two handlers, with all combinations of broadcasts, waits and statements, at most one script waiting for time; the same with a handler that has the attribute `restart` and is triggered repeatedly, also by itself; a script with an atomic section of up to two operations (calls, waits, sends), a second script, a handler, an atomic or ordinary method; handlers of the bootstrap, setup and startup message, one monitor, one user message; programs in which messages go to later handlers only, with and without monitor | `TypeOK`, `ScheduleChecked`, `NoLostWakeUp`, `NoInternalError`, `ObserversFirst`, `TerminatorLast`, `PhasesInOrder`, `WaitsUntilDone`, `BroadcastReachesAll`, `AtomicNotPreempted`, `MonitorsActivated`, and `Terminates` for the last family (`EndingTerminates`) |

The bounds: three program scripts are enough for a sender, a receiver and a
bystander; with bootstrapper and terminator there are five threads, six with a monitor, so
both parities of the round-robin search occur. Bodies of one to three operations
put every pair of operations in sequence. Two scripts that wait for time at once are left out
because the code does not implement that case (it throws `ImplementMeException`).

Deadlock is not checked: a program comes to its end.

Fairness: the worklist goes on as long as there is a state to explore, so a path is
extended as long as its last state has a successor. `FairSpec`, under which all properties of `sched` are checked, states weak fairness of `Next`
with its enabledness spelled out (`HasSuccessor`). There is no fairness among threads: the
schedule is deterministic, and that every thread has its turn follows from the code of the scheduler, for
programs whose scripts all end or wait.

### Where the code differs from what its comments and tests say

| Run | Expectation | What happens |
|---|---|---|
| `sched_two_monitors` | all monitors are activated after a statement | only the last one is |

`test/programs/language-coverage/run-tests.sh` takes the expected result of a test from its
name. Found with TLC as well, but without runs of their own: a handler that stops inside an atomic section while a sender waits for
it is set back from DONE to RUNNING by the early return of `schedule` (line 1143), after the sender was released
(`WaitsUntilDone`); a handler with the attribute `restart` that is triggered while it is in a method ends instead of starting
again, since `restartThread` (line 1130) keeps the relation of the method, which has no transitions at the entry of the
script (`BroadcastReachesAll`); the round-robin search of
`getNextYieldThreadFrom` starts at the second thread after the stepped one (it increments before its
first check, `ControlTransferRelation.ts:1186`), so that of two ready threads the same one is chosen
again, against the comment at line 1229; `stop all` stops only the script that executes it (line 725),
and `termination-stop-all-1_SAFE.sc` reaches its failure. Read from the code: `StopThisStatement` and `StopOthersInActorStatement` are no cases of
`interpreteLocal` and have no effect (tests `termination-stop-this-script-1_SAFE.sc` and
`common-stop-other-act-scripts-1_SAFE.sc`).

### Proofs

`ControlSchedulerProofs` proves for every set `Tasks` of programs that satisfies
`TasksAssumption` (the shape of programs, one bootstrapper that is not empty):

- `TypeCorrect`: `Spec => []TypeOK`;
- `ScheduleIsChecked`: `Spec => []ScheduleChecked`;
- `NobodyWaitsForNothing`: `Spec => []WaitsForSomething`, the first half of `NoLostWakeUp`;
- `ObserversRunFirst`: `Spec => []ObserversFirst`.

The inductive invariant `IInv` adds to these that a thread waits either for threads or for a
condition that is checked, never for both (`Consistent`): otherwise `Released`, which sets
a thread to YIELD when its condition holds, could leave something it waits for. A step is a
pipeline, and each stage has a lemma for each part of the invariant; `CompleteInv` combines them
for the common part of all steps, and `StepInv` shows for each operation that it
hands a good table to the pipeline. `ScheduleChecked` is not immediate from the check in
the code, because `schedule` returns early for atomic sections: there it needs that no stage
sets another thread to RUNNING (`StagesLetNobodyRun`). `ObserversFirst` rests on `NextFromFinds`: the
search of `getNextYieldThreadFrom` starts two threads after the stepped one, yet it misses no candidate,
because it looks at one index more than there are threads.

The other properties do not hold of every program of that shape, only of those that are built in a
certain way. Each theorem names what it needs as a premise about the program:

| Premise | What it says | Where the code ensures it | Without it |
|---|---|---|---|
| `EndsQuietly` | scripts begin with a step, and only an epsilon or a return leads to an end | `introduceEntryExitEpsilonTransition`, `TransitionRelation.ts:1027-1064` | a sender woken up in the step of its broadcast with no step left is set to DONE by `schedule`, after the wake-up of that step: whoever waits for it notices one step later |
| `Nested` | atomic sections are nested, a method returns outside of its own ones, nothing stops in one or, by `stop all`, in a method | the grammar, except for stops | a stop inside an atomic section, see above |
| `PlainRestarts` | what is restarted neither waits, calls nor has atomic sections | nothing does | a restart inside a method, see above |
| `SoleSends` | a location with a broadcast has no other step | `RelationBuildingVisitor` | the model could not say which of two steps was taken |
| `Observable` | one monitor, whose entry no step leads to; steps between the same locations are alike | `introduceEntryExitEpsilonTransition`; nothing limits the monitors | run `sched_two_monitors` |
| `Assembled` | one terminator, a bootstrapper that is no observer, qualified handlers are addressed by their namespace | `Actors.defaultTerminator`, `defaultBoostraper`, `Actor.ts:310-330`; nothing ensures the last | the exceptions of a broadcast, of two threads that run, and of an observer that was stepped before any program thread |
| `OneTimer` | one thread at most waits for time | nothing does | the case `ControlTransferRelation.ts:982` does not implement |
| `EndsAlone` | neither monitors nor the terminator send, and monitors are not of the program | the default terminator is empty | the terminator would trigger handlers |
| `StartsInOrder` | the bootstrapper sends its three messages in order, nobody else does | `Actors.defaultBoostraper` | the phases have no order |

`Structured` is the first three. The second and third part of `ControlSchedulerProofs` prove:

| Theorem | Premises | Property |
|---|---|---|
| `NoWakeUpLost` | `EndsQuietly` | `[]NoLostWakeUp` |
| `AtomicSections` | `Structured` | `AtomicNotPreempted` |
| `SendersWait` | `Structured`, `SoleSends` | `WaitsUntilDone` |
| `BroadcastsReach` | `Structured`, `SoleSends` | `BroadcastReachesAll` |
| `MonitorsSeeSteps` | `Structured`, `Observable` | `MonitorsActivated` |
| `OnlyTimeFails` | `Structured`, `Assembled` | `thrown` has no failed check but the unimplemented case of time |
| `NoCheckFails` | `Structured`, `Assembled`, `OneTimer` | `[]NoInternalError` |
| `TerminatorRunsLast` | `Structured`, `Assembled`, `EndsAlone` | `[]TerminatorLast` |
| `PhasesKept` | `Structured`, `StartsInOrder` | `[]PhasesInOrder` |
| `WellBuiltPrograms`, `WellBuiltSteps` | `WellBuilt(task)` | all of these together, with `OnlyTimeFails` for the checks |

That the premises are no empty ones: `WellBuilt` of `BuiltPrograms` implies all of them but `OneTimer`
(`WellBuiltMeans`), and `MCScheduler` assumes, for TLC to evaluate in the run `sched`, that every program of the run is `WellBuilt` (`ProgramsAreWellBuilt`). `OneTimer` is false for a few of those
programs, where a bootstrap handler waits for time and a startup handler does so later; what holds for
them is `OnlyTimeFails`.

The arguments:

- `WInv`: a thread that others wait for is not DONE between two steps, since `Terminated` runs before
  `WokenUp` and `schedule` ends nobody when only an epsilon or a return leads to an end.
- `PInv`: each thread is where its program says (`Placed`): its atomic depth is the nesting depth of its location plus those
  of the calls on its stack (`Framed`), so a return and an end leave no section open. Hence one thread at most is
  inside a section, nobody else runs while it can, and `schedule` returns early for it alone.
- `SendersWait` needs both: what a sender waits for is not lost, and is not resumed early by another thread.
- `EInv`: each check of the pipeline by itself. That somebody can run rests on the bootstrapper and the terminator: while neither
  is awake something else is.
- `TInv`: the terminator is woken up when the program's threads are finished, or wait for each other
  and can never be released (`Stuck`), and as it sends nothing (`Hushed`) this stays so.
- `BInv`: who may be awake tells how far the bootstrapper is. In each phase the handlers of later phases are still
  disabled or waiting for their message, and the bootstrapper does not go on before those of its phase are done.

Only model-checked: `Terminates`, since liveness is out of the prover's reach. All other properties of the
runs are proved.

## Exploration, FrontierSets and Reachability

### State and actions

`Exploration` holds the state and what bounded model checking and predicate abstraction have in common;
`Reachability` completes it to the analysis as `AnalysisProcedureFactory.runBMC` and `config/default.json` put it
together: `MultiPropertyAlgorithm` calls `FeasibilityAlgorithm`, which calls `ReachabilityAlgorithm`,
on a `GraphAnalysis` with `NewMergeIntoOperator`, `IfMergedStopOperator` and construction order
`WaitAtMeet`.

`task` is the program as the graph analysis sees it. A control state is all that `shouldMerge`
compares; for each one `task` gives its steps (in the order of `abstractSucc`, each with the inputs
that may take it), the properties it is a target for, and its key in the frontier. An abstract
state is a control state and a formula, and a formula is the set of inputs that satisfy it:
strengthening is intersection, merging is union, feasible is not empty.

| Variable | In the code |
|---|---|
| `node` | every `GraphAbstractState` with a fresh id: control, formula, predecessors, `mergeOf` |
| `graph.reached`, `graph.addedLast` | `GraphReachedSetWrapper`, `DefaultAnalysisStateSet` |
| `graph.frontier` | `DifferencingFrontierSet`: contents of the heaps with copies, elements, size, known partitions, partitions whose turn is still to come |
| `pc`, `current`, `todo` | where the algorithms are: `begin` an iteration of CEGAR, `choose` and `expand` in `run0`, `check` feasibility, `report` |
| `verdict` | `violated`, `satisfied`, `unknown` of `MultiPropertyAlgorithm.run` |
| `thrown` | exceptions that end the analysis |

`Choose` takes a state and computes its successors. `Process` is the body of the loop for one
successor: `mergeInto` (a new state replaces its partners, first added, then partners removed from
frontier and reached set, with all the consequences of `removeState`), the stop operator, adding it,
and the return at a target. `Check` removes an infeasible target or hands a feasible one to
`Report`. `Exhausted` is the exception of the budget at the two places that ask for it. An
exception (`Throw`) leaves the variables of the graph as they were, since nothing reads them after it.

`Removed` is `removeState`: what is below the removed state goes, too; if a state among those was
still waiting, the other parents are put into the frontier, and what their children lead to is cut
off. When several states are removed at once the order is left open, it affects only whose turn is next.

The keys abstract `LexiKey`: `part` is the thread that was stepped (larger ones first, taking
turns), `rank` the order within a partition, ties broken by age. The rank is any number; what it is in the
code, and that it lets states wait for what is merged with them, is the subject of `TraversalOrder`.

### Runs

`MCReachability` enumerates programs; every program of a family is an initial state. Two inputs
distinguish taken, not taken and partly taken branches.

| Run | Programs | Shows |
|---|---|---|
| `reach` | all of five control states with no step, one step, a branch or a free choice each, the last a target, explored in topological order, by one thread or by two, whose partitions take turns and make merges late; programs with two targets of different properties that go on after a violation, the budget exhausted at any time or never; and a branch, three control states and a target in all orders | `TypeOK`, `Represented`, `Precise`, `Sound`, `Connected`, `OnePerControl`, `NoException`, `FrontierConsistent`, `Ends`, `KeepsPromise` |

`KeepsPromise` is the refinement: every behaviour of `Reachability` is one of `Verdicts` with `wrong` the
properties that some execution violates, and `ended` the end of the analysis. It says in one what a caller
may rely on: a verdict is given once and not taken back, a violation has a reason, and "satisfied" is
said only at the end, of all that is left, when nothing else is wrong. It contains `Sound` and
`Precise`.

`MaxNodes` bounds the states that are created. No program in topological order reaches it, so that
`Ends` says something of all of them; others do: in an order that puts a join before what it
joins, states are merged, removed and added again without an end, which is why `Ends` is claimed for
topological orders only, and why `WaitAtMeet` matters for more than speed. In such an order
`Represented` may be false for a while too; the verdicts are right.

Four to six control states are enough for what makes removal hard: a state with two parents, one of
them expanded before the other; a grandchild that waits while a sibling does not; a merge into a
state whose successors were merged themselves.

Fairness: the program is sequential and runs on while it can, which is weak fairness of `Next`
(`FairSpec`). It is stated for a simpler action, `GoesOn`, that changes `pc`: `Next` is enabled where `CanStep`
holds, and `pc` moves on in the end, as the successors that are processed without it are finitely many.

### Where the code differs from what its comments and assertions say

| Run | Expectation | What happens |
|---|---|---|
| `reach_siblings` | satisfied means that a fixed point was reached | the return at an infeasible target loses the successors after it, and the property is reported as satisfied |
| `reach_cycle` | the parent of a state that is added exists | in a program that comes back to a control state, the merge removes the state that is being expanded; the check throws, as its comment fears |

The comment of `GraphStatesSetWrapper.remove` says more than the code does, too: the parents of a
removed frontier state become frontier states only if they are parents of a state below it.

### Proofs

`ReachabilityProofs` proves for all sets of programs (`TasksAssumption`), inputs and properties,
without a bound on the size of the graph, cycles and any order of the frontier included:

- `PreciseCorrect`: `Spec => []Precise`;
- `OnePerControlCorrect`: `Spec => []OnePerControl`;
- `TypeCorrect`: `Spec => []TypeOK`;
- `ConnectedCorrect`: `Spec => []Connected`;
- `NothingOverlooked`: what waits is reached, and the frontier does not say that it is empty while a state waits.

`Precise` is not inductive: that a reported target was reached needs that every state ever created
stands only for inputs that reach its control state (`NodeOK`), which successors keep by
`ReachesStep` and merges by `MergedOK`; and that the algorithms look at one state only, that the one that
was added last is a feasible target when its properties are noted (`Latest`). `OnePerControl` needs that a
state is a merge of itself and of what went into it, so that the stop operator recognizes it after
the merge; that a removal takes its partners away is `RemovedKeeps`.

The last three rest on `Orderly`, a conjunct of the inductive invariant `IInv`: predecessors are older, the predecessors of reached states are
reached, what waits is reached, and the frontier is `Counted`, that is, what waits is in a heap and the size is at least the
number of what waits. It is no more than this, because the frontier does not count right in general: a state may be added to it twice, by
`removeState` and by the algorithm, and copies of removed states stay in the heaps. `Connected` needs more of `removeState`
than that it is called with all partners: the states below are those of `Below`, a recursive function, so they are closed under
successors (`BelowClosed`, by a least counterexample); the second removal, of what is below the siblings, is closed too; and
the predecessors of a merged state are not below it. The elements of the frontier are removed and re-added one at a
time by folds over sets; `FoldExists` shows that such a fold is a function on the subsets of what is folded, and
`FoldCounted` that what one step keeps holds for all of them, since there is no smallest one for which it does not. `RemovedOrderly` and `MergedOrderly` put this together.

It also proves `VerdictsKept`: `Spec /\ []Sound => KeepsPromise`, the step of the refinement for all
programs. `Sound` is a premise because it is false for programs like those of `reach_siblings`; where it
holds, as in `reach`, the rest follows for any number of properties,
violations, removals and whatever the budget does: that `unknown` is what has no verdict, that the
properties of the target are wrong (from `PreciseCorrect`), and that a step of the algorithms that gives
no verdict is a stutter of `Verdicts`.

The last part of `ReachabilityProofs` proves the rest for programs explored in order (`InOrder`): the control states have no
cycle and are explored in topological order (`TopologicalOrder`), there is one partition, and a target is the last
successor of its predecessor. This is what `WaitAtMeet` is for on loop-free programs of one thread. None of it can be left out:
with a target before another successor `Sound` and `Represented` are false (`reach_siblings`), with a cycle
`NoException` is (`reach_cycle`), and with several partitions, or in another order, a state that was expanded may be merged and
removed with all that is below it, which is the part of `removeState` that only TLC looks at.

- `SoundInOrder`, `RepresentedInOrder`, `FrontierInOrder` (`FrontierConsistent`), `NoExceptionInOrder`:
  `Spec /\ InOrder => []...`, for any number of control states, inputs and properties, and whatever the budget does;
- `VerdictsKeptInOrder`: `Spec /\ InOrder => KeepsPromise`, without the premise `[]Sound`.

The inductive invariant `SInv`: the frontier holds each of its elements once, with a right count (`FrontierRight`);
what waits in it is of no smaller rank than what is being expanded, and what was expanded has a smaller one
(`InRankOrder`); the predecessors of a state that is left are left (`PredsLeft`); the successors still to be
processed are those of the state being expanded (`TodoRight`); each step of an expanded state is covered by a state
that is left or by a successor still to come (`AllCovered`); the initial control state keeps its inputs
(`InitialKept`), and targets that were found are noted (`TargetsNoted`, `InitialTarget`). By `InRankOrder` a merge only takes out
a state that still waits, so that nothing is below it and a removal is one step: the folds over what is
below need no induction. `Sound` follows when nothing waits, because the control states of the reached states that stand for
an input are then closed under the steps which that input can take (`ExploredAll`).

Only model-checked: the properties above for the programs of `reach` that are not `InOrder`, those with two partitions; and `Ends`, since liveness is out
of the prover's reach.

## Predicates

### State and actions

The analysis as `AnalysisProcedureFactory.runPredicate` and `config/predicate-abstraction.json` put it together:
`CEGARAlgorithm` in the place of `FeasibilityAlgorithm`, the abstraction analysis below the control
analysis, widening on loop heads, the stop operator `CheckCoverage`, and `checkTargetFeasibility`.

The data of a program is one value of a small set `Values`. The formula of a block is the relation
between the values where the block starts and where it ends; a summary (`enteringSummary`) and a predicate
are sets of values. So the abstraction of a summary with respect to the precision, an all-sat
enumeration in the code, is the union of the classes of values that no predicate tells apart.

`node[x]` adds to the states of `Exploration` the block (`blockId`), the summary and the formula of its
block, whether it was widened, and `part`: the control state for which its partition key was computed,
before widening forgot the loop stack. `precision` is `_currentPrecision` of the refiner.

`Choose` computes successors and leaves out the targets that are infeasible within their block (`Kept`).
`Process` widens at a loop head (the summary is abstracted, a block starts), merges with states of the same
block, asks for coverage, adds. `Check` ends an iteration without a target or with a feasible trace.
`Refine` takes interpolants along an infeasible trace, adds them to the precision, puts the root back
into the frontier and removes what is below it. No state but the root survives that in the reached set, so the model
gives their ids again, up to the last one that a copy in the heap of the frontier still refers to (`StillNamed`): such a
copy may be expanded once more, and its successors find no parent. The runs do not meet one, the proofs allow for it.

Interpolants are any that are correct, in the direction of `buildInterpolationProblem`, which reverses the
blocks: a predicate between each two blocks that holds where the rest of the trace is possible, excludes what
the blocks before lead to, and follows from the next one (`Interpolants`). The proof of the solver decides which in the
code; the model tries all of them. The solver may return predicates that relate two values of a block as
well, which `SingleInterpolants` adds as the values where both are equal.

Limits: one thread; a predicate talks about one moment; no budget (the configuration sets it to -1); the
root has one step, as `initialStatesFor` leads to the bootstrapper; only the last of several successors
may be a target (see `reach_siblings` for what happens otherwise, which this algorithm shares). Not
modelled: predicates that a program pushes. They are pushed but never popped, since the test for the
pop statement in `AbstractionTransferRelation.ts:74` repeats the one for the push statement.

### Run

`predicates`: a loop that is entered in two ways, its body a branch, expanded with the meet after both branches
or too early; a target before and one behind it; and two loops in a row with targets for two properties, one
inside the first loop, going on after a violation. Three values are enough for a precision that has to be
refined several times, and for loops that need it. `MaxNodes` = 90 states between two
refinements is never reached (`Ends` would fail).

- `KeepsPromise`: the refinement of `Verdicts`, which contains `Sound` and `Precise`, the latter also checked by itself: what is reported as violated is
  violated by an execution, although one trace is looked at and merged states share it, and what is satisfied by none, although
  covered states are not explored, and covering ones may be removed;
- `UniqueTrace`: the assumption of `checkIsFeasible` about unique sequences of abstraction states;
- `RefinesAlways` and `Ends`: no refinement is in vain, and the analysis ends whatever interpolants are chosen.
  That it ends is no consequence of the finite number of predicates alone: the order, removal and coverage matter as well;
- `NoException`: no orphan, and no trace without a place for an interpolant.

Fairness is that of `Reachability`: the program runs on while it can. `WF_vars(Next)` itself is not used, because
its `ENABLED` would enumerate all interpolants in each state.

### Proofs

`PredicatesProofs` proves for all programs (`PredicateTasksAssumption`), values, properties and interpolants, any order of
exploration and any number of loops, merges and refinements:

- `OneTrace`: `Spec => []UniqueTrace`;
- `RefinementsAdvance`: `Spec => RefinesAlways`;
- `InterpolationPossible`: the part of `NoException` that is about the refinement, that the exception of
  `buildInterpolationProblem` is never thrown;
- `PreciseCorrect`: `Spec => []Precise`;
- `VerdictsKept`: `Spec /\ []Sound => KeepsPromise`.

The inductive invariant `Consistent`: there is a set L, the states created since the last refinement and not below one
that it removed, for which `IInv(L)` holds. States are numbered after their predecessors, the states of a block have the
summary of the state that starts it, and only a state that was widened starts one (`Linked`). Each start of a
block has one sequence of starts before it, and the summary of one in L is the abstraction, with the current precision, of what
its formula makes of the summary before (`Traced`, `Chain`). What is reached is in L, and L is closed under predecessors and
blocks (`Living`), which a successor of a state that was removed cannot enter (`Lost`). This is kept by widening only because what is still to be
processed is nobody's predecessor yet (`Pending`), and by merging because partners are in one block. A target that was
reached is feasible within its block (`FeasibleTargets`): `Kept` filters it, and a merge only adds values. No
state that stays loses a predecessor (`Connected`), for which `RemovedKeeps` follows the recursion of `Below`, so
that a refinement leaves the root alone in the graph.

`OneTrace` walks back along any predecessors and finds the sequence of `Traced`: what was walked and the sequence of where
the walk has come to make up the sequence of where it began (`OnlyTrace`). For `RefinementsAdvance`, suppose that all interpolants are in the precision. The
first excludes what the first block leads to, so its abstraction lies in the complement, as the abstraction
does not mix values that a predicate tells apart; each next one follows likewise (`NewPredicate`), so that the last
summary excludes all that could pass the last block, and the target were infeasible within its block, which
it is not. A trace of one block is infeasible for the same reason only if the target is, so there is a place for interpolants.

The recursive functions of the model (`Below`, `Kept`, `Passed`, `Traces`, `Interpolants`) are shown to be defined by the lemma
`Recursion` of `ExplorationProofs`; what they compute follows by a least counterexample, since induction theorems cannot be used.

`Precise` has an invariant of its own, `Truthful`. An execution that is where the block before a state starts, with a value
that the formula of the state relates to another one, comes to the state with the other one (`Explained`); at a loop
head it is there only with the loop stack forgotten, so this holds of what an execution does only once the state was widened. So
what is in the graph, and every copy in a heap of the frontier, must have been widened if it is at a loop head
(`Settled`): removals re-add parents, and the heaps keep copies of states that left the graph, which may be expanded again
(`RemovedCounted`, `MergedCounted`). New states are explained by their predecessors (`SuccessorsExplained`), merged ones by one of those they are made of
(`MergedExplained`), and a refinement forgets states from the end only, so that it keeps all that the others refer to
(`RestartTruthful`). The starts of blocks on a trace follow each other (`TraceFollows`), so that the values that pass the first
blocks are those executions bring to where the last of them ends (`PassedExecuted`), and a feasible trace ends in an
execution that violates the properties of its target (`TargetWrong`). Those are the ones that are reported, because one
state was added last (`Alone`). That what executions reach is closed under the steps of a program (`ExecutedClosed`) is a fact about the definition
`Executed`, which collects it in as many rounds as there are pairs of a control state and a value: each round but the last
finds a new pair.

The last part is about order, on which `Sound` and the rest of `NoException` depend. Programs are `InOrder` if they have one
partition, and of two control states that a step connects, neither of them a loop head, the first has the smaller rank, unless the second is
an end. This is what waiting at meets gives for a program of one thread; loops are no exception to it, as their heads
start new blocks. (The root's rank is the least; it decides nothing, since nothing waits beside the root.) Of the 264 programs of
the run 156 are `InOrder`, those of two loops among them; in the others the meet of the branch is expanded too early. For all programs `InOrder`:

- `SoundInOrder`: `Spec /\ InOrder => []Sound`;
- `NoExceptionInOrder`: `Spec /\ InOrder => []NoException`;
- `VerdictsKeptInOrder`: `Spec /\ InOrder => KeepsPromise`, `VerdictsKept` without its premise.

Their invariant `SInv` holds beside `Consistent` and `Truthful`. The start of a block is expanded before the rest of the block,
and of the rest what was expanded has no larger rank than what waits (`BlocksInOrder`); so a merge finds only partners that still
wait or are ends, nothing is below them, and it takes out nothing but them (`PartnerFacts`, `MergedAlone`). The values with which a step leaves
an expanded state are covered by those of a reached state, or of one still to be processed (`AllCovered`): a new state is covered by
itself or by a state in its place that stopped it, and a merge covers what its partners did. Predecessors of reached
states were expanded (`PredsLeft`), a successor in `todo` was neither added nor merged (`TodoRight`), and a target that is reached was reported
or is about to be (`TargetsNoted`). A refinement removes all but the root (`RemovedWhole`), whose step then is to be
taken again (`RestartSInv`). When nothing waits, all reached states were expanded, so the pairs of a control state and a value that they have are
closed under the steps of the program and contain what executions reach (`AllReached`, by `ExecutedLeast`): an execution that
violates a property is at a target that is reached, and noted.

Only model-checked: the rest of `NoException`, and the premise `Sound` of `VerdictsKept`, for programs that are not `InOrder`,
whose merges remove expanded states with what is below them; `Ends`.

## Encoding and Blocks

### State and actions

`Encoding` is the stack below the control analysis: `DataTransformerVisitor` collects constraints in the formula of
a block, `SSATransformerVisitor` replaces variables by versions before, `SSAMergeOperator` equates versions when
states are merged, `AbstractionComputation` ends a block, and the refiner aligns the formulas of a trace
(`Z3Theories.alignSsaIndices`). Formulas are sets of memories, which give each version of each variable a value.

`node[x]` is a state: its block, the summary at its start, its SSA map (`ssa`) and formula. A state also carries
what the refiner would compute when it walks back over the widened states before it: `path`, the
conjunction of their aligned formulas, and `offset`, the versions it ends with. `Store`, `Declare` and
`Assume` are transfers, `Merge` and `Widen` what their names say. Which states are merged and where blocks start
is left open, except that merged states are in one block, as `AbstractionMergeOperator.shouldMerge` demands; the
control analysis decides it in the code.

`Blocks` is the same without formulas and versions: a state is a relation between the data where the block
starts and now, a merge the union, a trace the composition. `Meaning` is the refinement mapping: a formula stands
for the pairs of what its memories hold at versions 0 and at the current ones.

Not modelled: variables that hold actors, which the merge leaves out; the terms of the solver.

### Run

`encoding`: two Boolean variables, an assignment that reads its target and the other variable, declarations, a
test, two predicates, one relating the variables and one not; five states, versions 0 to 2. This is enough for
branches with different numbers of assignments that are merged and merged again, and for a block after a block
whose versions have an offset. A state that would need a third version has no such step; versions
count along the whole trace.

- `ImplementsBlocks`: every step of the encoding is a step of `Blocks`;
- `SummariesCover`: the summary holds after every model of the blocks before.

### Proofs

`EncodingProofs` proves both for all variables, values, assignments, conditions, sets of predicates and bounds:
`EncodingCorrect` and `SummariesAreSound`. The inductive invariant says of each state that its formula leaves the versions
above its own open (`Unassigned`), and its `path` those above `offset`; that versions and
offset are within the bounds together; that states of a block started with the same summary, path and offset (`SameBefore`);
and that summaries cover (`Covers`). `Unassigned` is the heart: because of it a new version can be given any value
(`StoredRelation`, `DeclaredRelation`), the missing equations of a merge have a solution (`SyncedRelation`), and a memory of the
blocks before can be put together with one of this block where they meet (`AlignedRelation`).

## TransitionRelations and ControlFlow

### State and actions

`stack` is the stack of results of `RelationBuildingVisitor`: each visited statement with its relation and with what
it means, the words of operations it executes, cut off at `MaxWord`; complete executions are kept apart. `Visit*`
are the methods of the visitor, in the order of a traversal bottom up. `BuildScript`, `BuildMethod` and
`BuildCheck` are what the constructors of `Script` and `Method`, and the analysis for conditions, make of a
relation. Then `phase` goes through the steps of `establishAnalysisInvariants`: the common target of several
signals, the classes of locations that epsilons connect, the quotient, entry and exit locations of their own,
and locations before merges. `MergeClasses` computes the class of one location, in any order of the locations of a relation with up to
`MaxAnyOrder` of them (in larger ones the smallest or the largest of the remaining ones is next); the code iterates over
an unsorted set of locations, and over a closure that it extends meanwhile.

Locations are numbers; the code's global counter is `next`. Data locations are left out.

### Run

`control_flow`: every nesting of up to three statements (branch, until, forever, signal, plain), lists up to four
deep, words up to four operations. This is enough for a loop in a branch in a loop, two signals, and each statement next
to each other. `MaxAnyOrder` is 9: relations of up to three statements are
among those that stay below it, and classes that meet late; a set of ten locations has already 1024 subsets of what remains.

- `SameWords`: the final relation executes the words that the statements mean;
- `ClassesComplete`: classes are components, whatever the order;
- `InShape`: what `establishAnalysisInvariants` establishes.

### Proofs

`TransitionRelationsProofs` proves `ShapeEstablished` for relations of any size: after `IntroduceToMerge` and
`IntroduceBetween`, no location both merges and branches, and only locations of a straight line lead
to a merge. Each step adds transitions to fresh locations; the lemmas say how each one changes what enters and
leaves a location.

`ControlFlowProofs` proves for all programs that the visitor can be given, of any size and nesting (the numbers of statements,
the bounds and the kinds are constants of which only `ControlFlowAssumption` is known), for every `MaxAnyOrder`, thus for any order in which the
classes are computed, and for any order in which the locations of a set are numbered:

| Theorem | Property |
|---|---|
| `TypeCorrect` | `[]TypeOK` |
| `ShapeOfAllPrograms` | `[]InShape` |
| `ClassesAreComponents` | `[]ClassesComplete` |

The argument is the inductive invariant `IInv`:

- `StackOK`: the relations on the stack are `Good` and have no location in common. A `Good` relation has one entry, at most one
  exit, which no epsilon leaves, finitely many locations, none with a number that is still to be given (`Ranged`), and no zigzag.
- `NoZigzag`: an epsilon transition is the only epsilon transition that leaves its source, or the only one that enters its target,
  which then is no entry. Each
  `Visit*` keeps it (one lemma for each operator of `TransitionRelations`). This is why
  `buildEquivalenceClasses` is right for these relations: its search goes only forwards and only backwards from a
  location, and would miss what is reached by turning around.
- `ClassesOK`: at each point of the iteration, in any order, a class is connected, and each member whose location was taken has
  its neighbours on one side in the class, and one on the other side if there is any (`Settled`); without zigzags that is all of them
  once every location was taken.
- `EntryOnly` and `MergesEnteredStraight` carry the shape through the last phases.

`SameWords` stays with TLC: it compares executions of any length, so it needs an induction over data.

## LoopStructure

`ControlDominance` (dominators after Lengauer and Tarjan), `getLoops`, `computeWaitAtMeetNumbering`, then a thread that walks along
the relation with the loop stack of `getLoopAction` and `popLoop`. Depth-first searches take successors in any order,
one call at a time, because the numbers depend on it. `NoLoc` is `undefined`.

`loops` runs four programs whose relations `MCLoops` computes with the operators of `TransitionRelations`: a branch
with a signal in a loop, a loop in a loop, a loop with a branch in an endless loop, and two signals in nested branches of an
endless loop; the stack is at most three high. In the last one, the common target of the signals has a relative dominator: step 3
knows of it only that it shares its dominator with another location.

- `DominatorsImplied`: what a location gets is its immediate dominator, or a location with the same one;
- `BodiesRight`: a location belongs to the innermost loop around it, and to none if there is none;
- `MeetsWait`: the wait-at-meet order is topological off the cycles;
- `Unrolls`: a location with its loop stack is never seen again, so that different iterations are not merged.

The programs have no merge directly before an inner loop. What happens otherwise, and at the end of `computeDominators`:

| Run | Expectation | What happens |
|---|---|---|
| `loops_unroll` | a loop stack tells iterations apart | with a branch that ends before an inner loop, what lies before that loop is taken for its body when the search sees it late, and entering the outer loop is missed |
| `loops_dominators` | the immediate dominators are explicit in the end (`DominatorsRight`) | with two signals in nested branches, `step4` of `Dominators.ts` writes `dominatedBy` of `d` back to `d` instead of giving it to `w`, and stops before the last number, against the comment at line 250: a location keeps a dominator that paths to it bypass |

### Proofs

`LoopStructureProofs` proves `MeetsAreWaitedFor` (`Spec => []MeetsWait`) for every finite relation that satisfies
`RelationsAssumption`, and for any order in which the search visits roots and transitions. The inductive invariant `OInv` says
of `path` that it is a path against the transitions through locations without a number (`PathOK`), and of the numbers
that a transition on no cycle whose end has a number starts at a location with a smaller one (`NumbersOK`). What the model computes as the locations that are reached is shown to be the smallest closed set
(`ReachesClosure`), since the definition is recursive.

`DominatorsImplied`, `BodiesRight` and `Unrolls` are only model-checked: they all depend on the dominators, whose
proof would have to follow the numbering of a depth-first search through three nested recursions; and where dominators stay
relative, `isDominatedBy` is wrong, so that a premise on the relations would be needed as well.

## TraversalOrder

The order `WaitAtMeet` of the frontier, for the states that one thread leads to. A step of a state has a key
(`ThreadKey`, `getThreadLexiOrderKey`): whether the thread belongs to the specification, how few loops it is in, how many calls, and how
early its location is in the wait-at-meet order. The key of a state is the key of the thread that activated the stepped one, then the key of the
stepped thread (`OrderKey`); `CompareTo` compares keys element by element, and `CompareStateOrder` breaks ties by age.

`task` is a script with its methods, the wait-at-meet numbers of their relations, and the states of the threads that may have activated
it. `waiting` is the frontier, `parts` the keys that `_partitions` has, which are never removed. `ExpandRoot` takes
the initial state, for which no thread was stepped, and creates the first states of the thread. `Expand` takes what the heap of the
partition offers and adds its successors: steps along a relation, calls and returns. A successor whose place is that of a waiting
state is merged with it.

The heap is external and modelled by what the comparator makes of it: at the top is a state from which all others are reached along
parents and children, and each parent is there because one of two comparisons said so (`Above`, `Offered`). For an order
without ties this is the first state; for a bad comparator it is any of several.

### Runs

`traversal`: four scripts of up to seven locations with branches, meets and calls of two methods, one of which calls the other; every
topological numbering of each relation; activated by the bootstrapper, at two locations of a relation, in two methods (where the keys
are equal), or from within and from after a loop.

- `MeetsAwaited`: nothing that waits leads to the state that is expanded next, so that no state is merged with one that was expanded;
- `Decided`: a heap offers one state, whatever it compares and in which order.

`Decided` would fail for keys of different lengths: `compareTo` says `THIS_LARGER` for a key that is a prefix of the other, as its test
`[1] > [1,2]` asks, and for the longer one as well (`Lexicographic.ts:72`). In a partition all keys have the same
shape. The partitions themselves have the keys `[]`, of the initial state, and `[thread]`; the first is empty after the first step and is popped when it is at the
top, but where it is in the heap, and with it which thread's partition comes next, depends on the order of the comparisons.
`FrontierSets` takes the partitions from the largest to the smallest; only whose turn it is may deviate from that.

Loops are left out of these scripts. The number of loops a thread is in comes before its calls and its location, so that what
has left a loop is expanded before what is still in it: a meet after a loop does not wait for the iterations that are still to
come, and what they lead to is merged late or not at all. There are no proofs about this module: that a
heap offers the first state needs an induction over the number of waiting states.

## Not modelled

- Parser, syntax tree, transformation to the intermediate language, generated code, solver bindings: sequential
  translation of data, or external (most lines of the repository: the grammar and the solver interface alone are
  over half of them).
- Value, label, statistics and debug analyses: no control. Of the data analysis, the translation of expressions.
- Witnesses: rendering of a path after the result.
- Lattices, clauses, decision diagrams: still to do, see above.
