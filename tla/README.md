# tramli: a verification project

This directory holds TLA+ models of tramli, a flow engine that exists in Java,
TypeScript and Rust, together with the model-checking runs over them and proofs
checked by TLAPS. What is modelled is the TypeScript binding: the engine and
the data-flow analysis in `lang/ts/src`, the plugins in `lang/ts-plugins`, the
React hooks in `lang/ts-react`, and the visualiser in `tools/viz-server` and
`tools/viz`. It is the binding with real interleavings, since every method of
the engine is `async` and gives up control at each guard, processor, branch and
store call. Paths below are relative to the root of the repository.

## 1. The system

### Components

| Component | State it keeps | Operations | Here |
|---|---|---|---|
| Flow definition and builder (`flow-definition.ts`, `types.ts`) | none after `build()`: states, transitions, error routes | the builder's methods, `build()` with its checks, `withPlugin` | `FlowDefinition` |
| Flow instance (`flow-instance.ts`) | current state, exit state, failure counters, time of entry, active sub-flow | `transitionTo`, `incrementGuardFailure`, `complete`, `setActiveSubFlow`, `restore`, `withVersion` | `FlowInstance`, `PersistedFlow` |
| Flow context (`flow-context.ts`) | key to value | `put`, `snapshot`, `restoreFrom`, aliases | variable `context` of `FlowEngine` |
| In-memory store (`in-memory-flow-store.ts`) | map of flows, transition log | `create`, `loadForUpdate`, `save`, `recordTransition`, `clear` | variable `stored` of `FlowEngine`, field `last` of an instance |
| A store that persists (asked for by `spec/SPEC.md` 3.5, none in the repository) | rows with versions, log | load, compare versions and save, record | `PersistedFlow` |
| Flow engine (`flow-engine.ts`) | none between calls; locals across awaits | `startFlow`, `resumeAndExecute`, the auto-chain, sub-flows, `handleError` | `FlowEngine` |
| Data-flow analysis and graph (`checkRequiresProduces`, `data-flow-graph.ts`) | during the walks: available keys per state, errors, the call stack; afterwards the graph | the two recursive walks, `explain`, `whyMissing`, `migrationOrder`, `isCompatible`, `versionCompatibility` and further look-ups | `DataFlowAnalysis`, `DataFlowGraph` |
| Pipeline (`pipeline.ts`) | a context and its progress per execution, settings shared by all | `build`, `execute`, `asStep`, `setStrictMode`, loggers | `Pipeline` |
| Store plugins (`eventstore`, `audit`) | audit log, event log with a version per flow | `recordTransition`, `appendCompensation`, `clear`, `stateAtVersion`, `project` | `PluginStack` |
| Idempotency and rich resume | command ids seen | `resumeAndExecute` with a command, `resume` with a status | `PluginStack` |
| Observability | none; tells a sink | transition and guard events | `PluginStack`, `VizSync` |
| Hierarchy compiler (`entry-exit-compiler.ts`) | none | `compileTransition`, `synthesizeBubbling` | `EntryExitCompiler` |
| React hooks (`use-flow.ts`, `use-flow-chain.ts`) | flow id, snapshot, error, loading, step index per mounted component | mount, unmount, `resume`, advance | `UseFlow`, `FlowChain` |
| Visualisation (`tools/viz-server`, `tools/viz`) | server: event log, states of flows; page: its view, timers, replay controls | the sink, socket snapshot, reconnection, the reducer, replay | `VizSync` |
| Lint, sub-flow validator, scenario tests, documentation and diagram plugins, generators, facade | none | reports and text from a definition | not modelled |
| Java and Rust bindings | as above, without awaits | as above | not modelled |

### How they interact

A caller asks the engine to start a flow or to resume one with external data.
The engine loads the instance from the store, chooses a transition from the
definition, calls user code (guards, processors, branches, enter and exit
actions) with the flow's context, moves the instance, writes a record for each
move, and follows automatic transitions until the flow waits for an event or
ends. A sub-flow is an instance of its own that shares the context of its
parent; the parent reaches it through `activeSubFlow`. When user code throws,
the context is restored from a snapshot and `handleError` takes a typed route,
the error route of the state, or completes the flow as `TERMINAL_ERROR`.
`build()` is where definitions are refused that the engine would not cope with;
it ends by computing the data-flow graph from the requires and produces that
guards, branches and processors declare.

Around the engine, store plugins decorate the store and so see each record;
telemetry is told by the engine's logger; the idempotent executor stands in
front of `resumeAndExecute`. The hooks call the engine from a component that
may be mounted twice, unmounted, or call again before the last answer. The
visualiser is a telemetry sink that forwards events over web sockets to pages,
which keep a view of their own. `Pipeline` is the small brother of the engine:
steps in sequence, the same requires and produces, no store.

### What is hard

* Everything the engine read before an `await` may be stale after it. The
  in-memory store locks nothing, so callers have to serialise resumes of a
  flow; `spec/SPEC.md` asks for a lock or a version in the store.
* A process may die at any await. Records are written at once and the instance
  at the end of the call, so log and row part; `restore` brings back less than
  an instance has.
* An error can leave a step at several places, and the route depends on whether
  the step was external, automatic, a branch, or in a sub-flow; the snapshot
  that is restored differs too.
* Sub-flows end in four places (on entry, on resume, by rejection, by a guard's
  expiry), with or without an exit mapping, in chains that have depth counters
  of their own.
* The time to live, the timeout of a state and a guard's expiry race a late
  event.
* The walk over requires and produces is a recursion over a graph with cycles,
  with side effects that the caller sees after the recursive call returns.
* Several logs are kept of the same moves, by parties that fail at different
  points; a version is taken before the event is serialised.
* Calls of one component share one instance and answer in any order.
* A page gets states and events twice, over connections that break, while
  timers drop flows and a replay rewrites what live events go on updating.

`PROJECT.json` lists each hazard with the line where it bites and the
properties that would notice.

### What makes each component correct

* Engine: it completes a flow once and truthfully, bounds retries and chains,
  leaves no data of failed steps, keeps one continuous log of what it did even
  when calls overlap, strands nobody, and returns from every call.
* Persistent store: the log explains each change of what is stored, counts
  survive restarts, a flow that has ended stays, every flow ends.
* Definition: what `build()` accepts has no reachable dead end, no automatic
  cycle, an exit mapping for each way a sub-flow ends.
* Data-flow analysis: it ends; what it reports is a gap; gaps are reported; its
  copy agrees; what the graph says of order, replacement and versions is true of
  the flows.
* Pipeline: failures are located, strict mode keeps what `build()` promised.
* Plugins: the logs agree, replay gives the state, commands run once, answers
  are not wrong about moves.
* Hierarchy: entries and exits nest; a trigger goes to the nearest handler.
* Hooks: a quiet component shows its flow as it is, or an error; steps are taken in order.
* Visualisation: no event is missed or doubled, flows are shown where the
  server's record has them, the page comes back.

## 2. The modules

| Module | Models | How |
|---|---|---|
| `FlowDefinition` | `flow-definition.ts`, `types.ts` | a definition is a record; the builder's methods are constructors of transitions; `ValidDefinition` is the conjunction of the structural checks of `build()`, one operator each, and an assumption on the constant `Def`; the look-ups the engine makes are operators |
| `FlowInstance` | `flow-instance.ts`, the log of the store | one operator per method; EXTENDS `FlowDefinition` |
| `FlowEngine` | `flow-engine.ts`, `in-memory-flow-store.ts` | the state machine; EXTENDS the two above |
| `FlowLifecycle` | what callers see of a flow | abstract specification: started once, moves along declared edges, closed once; where an enter action throws it may stumble over a state |
| `FlowEngineProperties` | properties of `FlowEngine`, fairness, the inductive invariant, the refinement mapping `LifeOf` | EXTENDS `FlowEngine`, INSTANCEs `FlowLifecycle` |
| `PersistedFlow` | a persistent store with overlapping, dying workers | EXTENDS `FlowInstance` |
| `DataFlowAnalysis` | `checkRequiresProducesFrom`, `traverse` | the recursion as a state machine with its stack |
| `DataFlowGraph` | what the graph answers, and the comparison of two versions | EXTENDS `DataFlowAnalysis` |
| `Pipeline` | `pipeline.ts` | overlapping executions of every pipeline `build()` accepts |
| `PluginStack` | event log, audit, telemetry, replay, compensation, idempotency, rich resume | composed around an engine cut down to what they see of it |
| `EntryExitCompiler` | `entry-exit-compiler.ts` | the compilation as operators, and flows that run what it compiles |
| `UseFlow` | `use-flow.ts` | a component, its effect and its calls; also the abstract specification of a chain of one step |
| `FlowChain` | `use-flow-chain.ts` | INSTANCEs `UseFlow`, which it refines |
| `VizSync` | `viz-sink.ts`, `server.ts`, `useVizSocket.ts`, `Replay.tsx`, parts of the components that draw | server, socket, page and replay controls in one state machine |
| `FlowEngineProofs`, `DataFlowProofs`, `PersistedFlowProofs`, `PluginStackProofs`, `PipelineProofs`, `EntryExitCompilerProofs`, `FlowChainProofs`, `VizSyncProofs` | theorems | each EXTENDS its module and `TLAPS` (`DataFlowProofs` that of the graph, so both) |
| `MC...` | constants to check with | EXTENDS the module it is named for; `MCFindings` has the definition of `nested_wait` |

Definitions whose comment begins with "Mistaken" are no part of the
models: each is a plausible bug, next to the definition it would replace, and
shows that some property notices it.

### FlowEngine and the code

The code between two awaits runs without interruption, so an action is such a
stretch of code. A call in progress is a frame in `calls`: where it awaits
(`pc`), the flow, the transition it chose, the snapshot, and one depth counter
per auto-chain on the JavaScript stack. `inst[f]` is the path from flow `f` to
its deepest active sub-flow, that is the chain of `activeSubFlow` references.
A *run* packs the instances, the context and the frame of one call; operators
from run to run stand for stretches of code, and `Commit` writes the outcome
back.

| Action | Code |
|---|---|
| `StartFlow` | `startFlow` up to the first await of its chain |
| `Resume` | `resumeAndExecute` up to the guard: not found, time to live, descent into the sub-flow, selection of the external, timeout of the state |
| `GuardAccepted`, `GuardRejected`, `GuardExpired`, `GuardThrows` | what follows the guard; `Sub...` the same in `resumeSubFlow` |
| `ProcessDone`, `ProcessThrows` | the processor of an external transition settles |
| `AutoDone`, `AutoThrows` | an automatic transition of `executeAutoChain` |
| `Decide`, `DecideThrows`, `BranchProcessDone`, `BranchProcessThrows` | a branch and its processor |
| `EnterSubFlow`, `SubChainEnds`, `ChainReturns`, `ResumedChainEnds` | sub-flows start and end, chains return |
| `Tick` | the clock; external |
| `Clear` | `InMemoryFlowStore.clear` |

Abstracted:

* Values in the context are left out: a key is present or not. A guard or
  processor puts what it declares or, outside strict mode's check, any part of
  it; enter and exit actions put nothing.
* Of the log, the last record per instance is kept. `lastError`, `version`, the
  failure counters per guard, loggers and ids are written for the caller and
  read by no engine code.
* The caller passes the flow's own definition to `resumeAndExecute`.
* Per state, all branch transitions belong to one branch. The requires of a
  guard are a set. `externalOn` triggers are modelled.
* Strict mode is a flag of the definition here, an option of the engine there.
* `EnterSubFlow` separates the await in which a sub-flow's chain begins.
* External transitions have a guard, as the builder's methods require. The
  engine also has a path for one without; that is in `PluginStack`, where what
  its exceptions do to the logs can be seen.
* Overlapping calls are modelled for definitions without sub-flows
  (`OverlapAssumption`): a call that outlives the sub-flow it works on would
  hold an instance that is on no path any more.

### PersistedFlow and the code

The store is the one `spec/SPEC.md` 3.5 and 10.4 demand: `loadForUpdate` answers
with `FlowInstance.restore`, `save` compares versions, records are written at
once. One flow, any number of workers; each call has an instance of its own.

| Action | Code |
|---|---|
| `Start` | `startFlow`: create, then the first await of the chain |
| `Load` | `resumeAndExecute` up to the guard, time to live included |
| `GuardAnswers`, `ProcessorSettles`, `ChainSettles` | the call goes on after an await, with the failure and error routes of each |
| `Save` | `store.save`: the row is replaced, or the version has changed and the caller gets a conflict |
| `Crash` | a worker dies at an await or before its save; external |
| `Tick` | the clock; external |

An enter or exit action that throws is part of each move (`ExternalTo`,
`StepTo`, `TakeExit`): the enter action runs between `transitionTo` and the
record, so what is stored may be a move the log lacks. Left to `FlowEngine`:
data, the choice among externals, the steps within a sub-flow, `maxChainDepth`.
What `restore` does not bring back (active sub-flow, time of
entry) is absent here, so a call never finds a sub-flow, and no timeout of a
state has passed when it is looked at.

### DataFlowAnalysis, DataFlowGraph and the code

`checkRequiresProducesFrom` and `traverse` are the same recursion, the first
with error routes and a report, the second without error routes and with sets
of producers and consumers. Both read the set of a state anew for each
transition, so what a recursive call did to it matters. The model keeps the
stack: a frame has the state, the place in its loop over the transitions and
whether an error route is to be followed next. `TakeEdge` is one turn of the
loop, `TakeErrorRoute` the recursive call for the error target, `Return` the
end of a call, `BuildGraph` the start of the second walk. `settled` is the pair
of early returns, exactly as the code has them. Left out: the wording of
errors and, because the code leaves them out, routes of `onStepError` and exits
of sub-flows.

`DataFlowGraph` adds what is asked of the finished graph: `node`, `producersOf`,
`consumersOf` are its maps, `explain`, `isCompatible`, `migrationOrder`,
`assertDataFlow` and `versionIncompatibilities` its methods. `Redefine` builds
the next version of the definition, so that two graphs can be compared.
`migrationOrder` is a recursive function, as the module is proved about: ready
nodes one after the other (`orderOf`), and once none is ready all that are left,
whatever they need (`restOf`). The code takes both in the order of its maps; the
model leaves it open.

### The other modules and the code

`PluginStack`. A call of the engine is cut down to its awaits, its records and
where an exception ends it. `startFlow`, `deliver` (the idempotent executor and
the first half of the resume behind it), `deliverAgain` (a command seen
before), `validate` (the guard settles or throws), `process`, `auto` (processors settle),
`answer` (rich resume classifies), `compensate`, `clear`. `recordTransition` is
the two decorators in either order (`auditInside`), `dirty` says that the
flow's context holds a value on which `JSON.stringify` throws.

`Pipeline`. `execute` begins an execution, `proceed` is a step that settles,
with everything up to the next await, `throw` one that throws, `setStrictMode`
and `setStateLogger` change the settings at any time. A step made by `asStep`
has the steps of the inner pipeline as its parts.

`EntryExitCompiler`. `exits`, `entries`, `compileTransition`, `fallbacks`,
`synthesizeBubbling` are the code; `Fire` is a flow that does what was compiled.

`UseFlow`, `FlowChain`. `RunEffect` is the effect (again in React's strict
mode), `Unmount` its clean-up, `Resume` a call of `resume`, `Move` the engine
moving the flow while the call is under way, `Return` and `Throw` the answer,
`tryAdvance` included. A call may throw before it has moved the flow or after
(`MAX_CHAIN_DEPTH`, an action on an unguarded transition or on the exit of a
sub-flow); the hook then shows the error and keeps the snapshot it had. The
condition of a step (`when`) is assumed to return. `overlapped` and `origin` record history for the
properties.

`VizSync`. Server: `Transition`, `Guard` (the sink is told), `Restart`. Socket:
`Connect`, `Break`, `Close` (`onclose`), `Reconnect` (its timer), `Deliver`
(`onmessage` and the reducer's `event` and `snapshot`). Page: `Tick` (the
reducer's `tick`, the timers). Replay controls: `Play`, `Advance`, `Seek`,
`Pause`, `GoLive`. Times are ages in units of `Tick`. Who owns a flow is left
out.

## 3. The runs

| Run | Asks | Properties | Bounds, distinct states |
|---|---|---|---|
| `serialized` | does one caller at a time get what the documents promise, and is the flow from outside a `FlowLifecycle` | `TypeOK`, `ExitConsistent`, `GuardRetriesBounded`, `LogMatchesState`, `NeverStranded`, `DataOfTakenSteps`, `StrictAutoProduces`; `CompletionIsFinal`, `ImplementsLifecycle` | one flow, one call, definitions `Order` (every kind of transition and route) and `Account` (sub-flows in sub-flows), clock to 4, `maxChainDepth` 4, two retries; 190 000 |
| `liveness` | does every call return, and does the time to live close every flow somebody asks for | `EveryCallReturns`, `EveryFlowCompletes` | the same, and `Spin`, a chain without end through a sub-flow exit |
| `overlap` | what is left of the retry bound and of the log when resumes overlap | `RetriesUnderOverlap`; `LogIsContinuous` | three calls, one flow, `Ticket`, with an enter action and an error route back; 387 000 |
| `persisted` | do dying, overlapping workers keep row and log together | `RetriesSurviveRestarts`; `RowsFollowTheLog`, `StoredFlowsEnd` | two workers, version to 3, one crash, clock to 1, enter and exit actions that throw; 277 000 |
| `dataflow` | does the analysis end, report only gaps and every sure gap, and is what the graph answers true | `NoFalseAlarm`, `SureGapsReported`, `GraphMatchesCheck`, `MigrationFollowsData`, `AcceptedIsOrderable`, `CompatibleReplacementIsSafe`, `VersionCheckCoversInstances`; `AnalysisEnds` | every choice of six kinds of data on a diamond, a cycle with a join, a loop with an error route, a recovery state and two transitions between the same states (`Twice`, with a key that resumes bring), and every next version of the last two; four states, two keys; 312 000 |
| `pipeline` | are failures located, is strict mode worth its name, is the state log exact | `StoryIsTrue`, `StrictKeepsThePromise` | every pipeline of up to three of four steps over two keys, one execution; 340 000 |
| `plugins` | do three logs, replay, compensation and the executor agree with the flows | `VersionsRise`, `LogsAgree`, `ReplayIsTrue`, `CommandsRunOnce`, `NothingAppliedNothingMoved` | two flows, two commands, three calls, one compensation, up to symmetry of each; 89 000 |
| `hierarchy` | do entries and exits nest, does bubbling find the nearest handler | `EntriesMatchExits`, `BubblingIsNearest` | all nestings of four states, two transitions between any of them; 48 000 |
| `flow_chain` | what does a component show, in what order are steps taken, is a chain of one step a `UseFlow` | `QuietViewIsTrue`, `StepsInOrder`; `ImplementsUseFlow` | chains of one and three steps, three calls; 98 000 |
| `viz` | does a page follow the server over broken connections and restarts | `EventsFollowTheLog`, `CaughtUp`, `ActiveFlowsAreShown`; `Reconnects` | two flows of three states, two events per run of the server, snapshots of one event; 392 000 |
| `nested_wait` (violation) | is an open flow always resumable | `NeverStranded` | the smallest definition that embeds two levels |
| `lost_join` (violation) | does an accepted definition guarantee what it requires | `AcceptedMeansGuaranteed` | two transitions that join |

Why the bounds suffice. Flows share nothing but the store's map, which every
action of the engine indexes by flow id, so one flow shows what happens to any;
the plugins' logs are shared by flows, so `plugins` has two. The only counters
of the engine are the failures of a guard (at most twice the retries that are
allowed), the depth (4 exceeds the longest chain of `Order` and is below that
of `Spin`, so both outcomes occur) and the clock, which has to pass a timeout
of 1 and a time to live of 2 at different moments. Two levels of sub-flows are
what the engine can resume; the third level in `Account` runs through. Two
workers are what a conflict takes, three saves let a stale one follow a
rejection and a move, and one crash is enough to lose any suffix of a call.
`Ticket` has one way forward, one back to the same state and one error route
back, so three calls chosen in one state can each find the flow in the other.
For the analysis, four states suffice for a join, a cycle through it and an
error route into it, and two keys for sets that are not comparable. Three calls
of a component are two that overlap and one that finds what they left. A
snapshot of one event out of two is one that has lost its beginning. Four
nested states give an ancestor of both ends, one of each end and unrelated
roots.

Names of bounds: `MaxTime` stops the clock, `MaxCalls` is the room on the
JavaScript stack in `dataflow` (12 is `|State| * (|Key| + 1)`, so the run also
shows that this many nested calls suffice) and the calls of a component in
`flow_chain`; `MaxVersion` is the version from which a flow is left alone until
it expires, `MaxCrashes`, `MaxCompensations`, `MaxEvents`, `MaxSteps` count what
their names say; `Window` and the durations of `VizSync` are the code's
constants scaled down. `Clearable` says whether anybody calls `clear`; runs
without it keep the state space small.

Deadlock is checked for the engine, which can always be called again, and for
the visualiser, whose page goes on for ever. The other systems stop when their
calls are used up, the analysis has ended or the flow is over.

### Findings

`nested_wait`: `resumeSubFlow` looks at the sub-flow of the flow and never at
the sub-flow of that one (`flow-engine.ts:288`), so a flow that waits two
sub-flows deep cannot be resumed, although `build()` accepts it and
`spec/SPEC.md:1034` promises it. `lost_join`: the second visit of a state with
fewer keys than the first returns at once (`flow-definition.ts:500`), so a
definition whose paths join is accepted although one path lacks a required key
(I6, `spec/SPEC.md:2758`).

### Findings without a run

Met while modelling. Engine:

* the time to live completes a flow and leaves its sub-flow attached
  (`flow-engine.ts:86`; I18, `spec/SPEC.md:1443`);
* an error of a sub-flow that bubbles to a parent without a route completes the
  parent, whose chain then starts the sub-flow again (`flow-engine.ts:280`; I18);
* an error route into a state with an automatic transition leaves the flow there
  (`flow-engine.ts:242`; `spec/SPEC.md:2347`);
* a sub-flow that fails on resume, without a mapping, leaves its parent in the
  state of the sub-flow (`flow-engine.ts:353`; `CHANGELOG.md:191`);
* strict mode does not check processors of external transitions
  (`flow-engine.ts:130`; I12, `spec/SPEC.md:2764`);
* a guard's throw is not caught and reaches the caller with the flow unchanged
  (`flow-engine.ts:117`; `spec/SPEC.md:1327` differs, section 10.5 leaves it
  open);
* errors of enter and exit actions are routed like those of processors
  (`flow-engine.ts:214`; `spec/SPEC.md:1355` says they are only logged);
* a chain of exactly `maxChainDepth` steps into a terminal state is refused
  (`flow-engine.ts:246`; `spec/SPEC.md:934`);
* the failure counter grows without bound when the error route of a state leads
  to that state (`flow-engine.ts:149`; `spec/SPEC.md:1439`);
* the plugin a sub-flow definition becomes through `withPlugin` is built
  without `strictMode` and not validated again.

Persistence:

* the timeout of a state never fires when every call restores the flow, as
  `restore` sets `stateEnteredAt` to now (`flow-instance.ts:58`);
  `docs/patterns/long-lived-flows.md:221` builds on it, `spec/SPEC.md:672` says
  to persist it, yet `restore` takes no such parameter;
* a sub-flow that waits is lost on reload: every resume is refused with
  `INVALID_TRANSITION` until the time to live closes the flow;
* a crash in `startFlow` strands the flow in the same way.

Data-flow analysis and graph:

* data that only a state behind an error route requires is reported as dead
  (`data-flow-graph.ts:513`, comment at line 65);
* the analysis keeps a guard's data on the error path while the engine's
  rollback of an external step drops it (`flow-definition.ts:544`,
  `flow-engine.ts:139`);
* `versionCompatibility` says nothing of instances in states the new version
  removed; `pruningHints` looks at the state itself only.

Pipeline: a pipeline made into a step by `asStep` runs without its own strict
mode and loggers; a violation of strict mode is thrown without the error logger
hearing of it; a transition is logged before its step runs.

Hierarchy: `compileTransition` throws a `TypeError` for a transition between
different roots when the target's root has something to produce on entry
(`entry-exit-compiler.ts:36`); the model has it as `crashed`.

Hooks: a chain's condition has a parameter named `prevTerminalState`
(`use-flow-chain.ts:14`) but is also asked about flows that expired or failed in
a state that is not terminal. A call that throws after it has moved the flow
shows its error over the old snapshot (`use-flow.ts:121`), and the next `resume`
may be refused in a state the component never showed.

Visualisation: back in live mode (`Replay.tsx:10`) the view stays where the
replay left it until events come; flows known from a snapshot only vanish at
the first tick after their time although they may be waiting; idle flows shown
by a replay are deleted by the next tick; the `maxEvents` of the dashboard is
never read.

### Fairness

* Engine (`FairSpec`): a promise that a call awaits settles, as user code
  returns or throws in the end. It is stated as "a call that is under way
  changes infinitely often or is idle infinitely often", which for these frames
  is weak fairness of `Continue(c)` and which TLC evaluates faster. Time passes,
  up to the bound. Somebody asks for a flow whose time is over (`AskLate`): the
  engine has no timer, so without a request nothing expires. Nothing is assumed
  of user code's choices: guards may reject for ever.
* `PersistedFlow`: time passes, a call under way goes on (unless its worker
  dies), and somebody asks for a flow whose time is over. Nobody has to finish
  what another worker began.
* `DataFlowAnalysis`, `DataFlowGraph`: weak fairness of the walk, as `build()`
  is a plain synchronous call; nobody has to write a next version.
* `VizSync`: timers fire (`Tick`, `Reconnect`), messages are handled
  (`Deliver`), a broken connection is noticed in the end (`Close`). `Connect`
  is strongly fair: an attempt may fail any number of times, but not for ever.
* Pipeline, plugins, hierarchy and hooks: none; their properties are safety.

## 4. What is proved

Every theorem is for all values of the constants that satisfy the named
assumptions of the modules it extends; TLC evaluates these on every run.

| Theorem | Statement |
|---|---|
| `FlowEngineProofs!TypeCorrect` | `Spec => []TypeOK` |
| `FlowEngineProofs!ExitsAreConsistent` | `Spec => []ExitConsistent`: an instance completed under the name of a state is in that state, which is terminal |
| `FlowEngineProofs!FailedStepsLeaveNoData` | `Spec => []DataOfTakenSteps`: what guards and processors of failed steps put is gone |
| `FlowEngineProofs!EngineImplementsLifecycle` | `Spec => ImplementsLifecycle`: a refinement |
| `FlowEngineProofs!CompletedIsFinal` | `Spec => CompletionIsFinal`: no step of any call changes a completed flow |
| `FlowEngineProofs!LogFollowsState` | `Spec => []LogMatchesState`: the last record of an instance ends where it is |
| `FlowEngineProofs!GuardRetriesAreBounded` | `Spec => []GuardRetriesBounded` |
| `FlowEngineProofs!StrictDataStays` | `Spec => []StrictAutoProduces`: what strict mode has checked stays there |
| `FlowEngineProofs!NobodyIsStranded` | `Spec => []NeverStranded`, for definitions that meet `Delivers` |
| `FlowEngineProofs!OverlappingRetriesAreBounded` | `Spec => []RetriesUnderOverlap`, calls need not be serialised; for definitions without sub-flows that meet `RejectionsEnd` |
| `FlowEngineProofs!TheLogIsContinuous` | `Spec => LogIsContinuous`, calls need not be serialised; for definitions without sub-flows |
| `PersistedFlowProofs!RowsAreExplained` | `Spec => RowsFollowTheLog`: what replaces a row lies beyond it on the path of the records, whoever dies when |
| `PersistedFlowProofs!RetriesAreBounded` | `Spec => []RetriesSurviveRestarts` |
| `DataFlowProofs!AnalysisTypeCorrect` | `Spec => []TypeOK` |
| `DataFlowProofs!ReportsAreGaps` | `Spec => []NoFalseAlarm`: what is there on every path is never reported |
| `DataFlowProofs!SureGapsAreReported` | `Spec => []SureGapsReported`: what no path brings is always reported |
| `DataFlowProofs!EveryVersionIsAnalysed` | the last two, for any sequence of versions (`GraphSpec`) |
| `DataFlowProofs!CompatibleMeansSafe` | `GraphSpec => []CompatibleReplacementIsSafe` |
| `DataFlowProofs!InstancesAreCovered` | `GraphSpec => []VersionCheckCoversInstances`: what an old instance may lack is announced, by the comparison or by the new build |
| `DataFlowProofs!GraphExplainsTheCheck` | `GraphSpec => []GraphMatchesCheck`: the graph's walk is that of the check, and explains its report |
| `DataFlowProofs!OrdersAreRight` | `GraphSpec => []MigrationFollowsData`: by induction over what is left to order |
| `DataFlowProofs!AcceptedIsOrdered` | `GraphSpec => []AcceptedIsOrderable`: in an accepted definition nodes do not wait for each other in a circle |
| `PluginStackProofs!TypeCorrect` | `Spec => []TypeOK` |
| `PluginStackProofs!VersionsAlwaysRise` | `Spec => []VersionsRise`: along the event log and below the counter |
| `PluginStackProofs!CommandsAreRunOnce` | `Spec => []CommandsRunOnce` |
| `PluginStackProofs!NothingAppliedMeansNothingMoved` | `Spec => []NothingAppliedNothingMoved`: no answer says that nothing happened when something did |
| `PluginStackProofs!LogsTellTheSame` | `Spec => []LogsAgree`: audit, event log and sink, however recordings fail |
| `PluginStackProofs!ReplayTellsTheTruth` | `Spec => []ReplayIsTrue`: replay ends where the flow is, and both services agree |
| `PipelineProofs!StrictModeKeepsThePromise` | `Spec => []StrictKeepsThePromise` |
| `PipelineProofs!TheStoryIsTrue` | `Spec => []StoryIsTrue` |
| `EntryExitCompilerProofs!EnteredIsLeft` | `FlowSpec => []EntriesMatchExits`: for every forest of states |
| `EntryExitCompilerProofs!NearestHandles` | `FlowSpec => []BubblingIsNearest`: for every forest of states |
| `FlowChainProofs!ChainOfOneIsUseFlow` | `Spec => ImplementsUseFlow`: a refinement |
| `FlowChainProofs!ViewIsTrue` | `Spec => []QuietViewIsTrue`: a quiet component shows its flow as it is or an error, for chains of any length |
| `FlowChainProofs!ChainInOrder` | `Spec => []StepsInOrder`: one step after the other, none skipped, none stopped short of |
| `VizSyncProofs!NoGapNoDuplicate` | `Spec => []EventsFollowTheLog`: page and connection together hold the end of the server's log |
| `VizSyncProofs!PageCatchesUp` | `Spec => []CaughtUp`: with nothing under way the page shows flows where the server's record has them |
| `VizSyncProofs!FreshFlowsStay` | `Spec => []ActiveFlowsAreShown`: who has just moved is shown |

### The engine

Assumptions: `NamesAssumption` (names of states, labels, errors and exits do
not clash), `DefAssumption` (definitions have their type), `SubFlowAssumption`
and `ValidAssumption` (what `build()` accepts), `EngineAssumption` (types of
the engine's constants), `OverlapAssumption`; for the data also
`StatesAssumption` (transitions and error routes lead to states of their own
definition, as the type `S` of `FlowDefinition<S>` has it). The theorems, except the
last two, are for callers that serialise (`Serialized`). With overlapping resumes
a call acts on a transition of a state the flow has left meanwhile, which no
property denies and which is why `spec/SPEC.md` has the store lock.

Argument. `ExitConsistent` is not inductive: `handleError` completes an
instance in the middle of a chain, and the chain may go on with it. `IndInv`
therefore says of each call under way that its run is sound (`RunInv`): the
level it works on exists, all instances above that level are unfinished or
completed by an error, the chosen transition starts where the current instance
is, guards and processors are awaited at the outermost level only, and no two
calls work on one flow. The proof goes bottom up: what each operator does to an
instance, then to a run (`Ready` is kept by every turn of a chain), then one
lemma per action.

`DataOfTakenSteps` needs a second invariant, `DataInv`, on top of `IndInv`. A set
of keys is `Provided` in a state when the transitions that lead there account
for it; the property then says that the context is, between calls. `DataOK` says
it of the context and of the snapshot of every frame, with one exception: while
the processor of an external transition runs, the context holds in addition what
the guard gave, and only the snapshot, which is older, is accounted for. A step
that is taken accounts for its own data and passes the rest on (`ProvidedTaken`);
an error route passes on what the snapshot holds (`ProvidedRouted`). Flows with
sub-flows are outside the property, and no step turns one into the other.

The other five properties follow from a third invariant, `LifeInv`, on top of
`IndInv`. It has two halves.

Of every instance it says that it is `Kept`: the record, the counter and the
checked data are as the properties have them. What is declared by an automatic
transition has to be in the snapshots as well (`Snapshot`), since a step that
fails puts them back; and since a snapshot is older than the step, the step
must not have moved the instance into a state of strict mode, which is where
the enter actions come in.

Of the root of a flow it says where its calls stand. A flow whose embedding
states route errors (`RoutesSubFlowErrors`) is completed only while its call is
at the end of the outermost chain, where nothing is left but to save and
return; while a chain of a sub-flow runs, the root is open and in a state that
embeds one (`RootOpen`); at rest, a flow with an active sub-flow stands in such
a state (`RestsWell`). `CompletionIsFinal` is then a matter of which actions are
enabled. For the refinement, each operator that a call goes through between
two awaits says what it has done to the root since the step began: `Turn` for a
chain about to take its next turn, `Outcome` for the run that is written back,
where `Lives` has the root stay, close, move along an edge or stumble. There is
one lemma for each action, and `NextLife` sums them up: a step changes nothing,
or one flow begins, or one flow lives on. `LivesObserved` and `BeginsObserved`
turn that into steps of `FlowLifecycle`.

The properties have conditions, and the code is why; without them the proof
stops at a behaviour that the code really has:

* an error that bubbles into a parent without a route completes the parent,
  whose chain starts the sub-flow again, so completion is not final there and
  the flow is not `Observed` (`flow-engine.ts:280`);
* an enter action that throws has moved the instance and leaves no record; the
  flow ends there, or the error is routed from the state the step came from or
  from the new one, depending on where it was thrown (`flow-engine.ts:216`), so
  `LogMatchesState` leaves out states with such an action,
  `EnteredByTransition` too, and `FlowLifecycle` has `Stumble`;
* an error route from a state to itself keeps the counter, so
  `GuardRetriesBounded` leaves such a state out (`flow-engine.ts:149`).

`NeverStranded` is a theorem about definitions that meet `Delivers`, and
`build()` does not see to that: `nested_wait` strands a flow. `MCFlowEngine`
assumes, and TLC evaluates, that the definitions of `serialized` meet it. Each
part is there because the code leaves a flow stranded without it:

* a state that is not terminal and has no transition waits for nothing
  (`NoDeadEnd`);
* `resumeSubFlow` looks at the sub-flow of the flow and not further down, so the
  definitions below must not wait (`flow-engine.ts:288`);
* every catch block ends the chain after `handleError` (`:241`), so an error has
  to lead to a state that waits or is terminal (`ErrorsRest`). After an error of
  a sub-flow the chain goes on, so there it may lead anywhere;
* an action that throws while a parent takes the exit of its sub-flow, outside
  any `try` (`:270`), leaves the call with the parent halfway
  (`ExitsDoNotThrow`), and a parent that is not moved by its sub-flow's failure
  starts the sub-flow again or stays where it is (`RoutesSubFlowErrors`, `FailuresLeave`);
* `MAX_CHAIN_DEPTH` throws wherever the chain is (`:246`), so a measure of what
  is left of a chain has to fall and to start below it (`CountsDown`). It need
  not fall where a sub-flow waited, as every resume starts a new count.

`DeliverInv` says where that leaves a flow. At rest its instances are a `Path`,
each embedded by the state of the one before, and the root is closed or the deepest one, of at
most two, `Waiting`. For a call under way, `Underway` says that the parents of
the current instance are open and have turns left (`Counted`), that a sub-flow
this call has started can wait in its initial state only (`Fresh`: so a chain
that leaves a sub-flow either counts down or had waited), and that a chain
which has ended did so in a state that rests (`Ended`). Again one lemma per
action, for `loop` (`LoopDelivers`) and for what errors leave behind
(`ErrorRests`). TLC checked `DeliverInv` on `serialized` before it was proved.

`OverlappingRetriesAreBounded` is about callers that do not serialise, with any
finite number of calls on a flow without sub-flows. Nothing of `IndInv` is left:
a completed flow may be moved on, choices are stale. What remains is arithmetic, and the log.
Each call that awaits a guard may count one more rejection, so `OverlapInv` keeps
the counter plus the guards being asked below `maxGuardRetries` plus the number
of calls (`RoomForRejections`, for definitions and calls that can be counted:
`RejectionsCount`), and the counter of an open flow below
`maxGuardRetries`: a guard is asked of an open flow only, and a rejection trades
a guard being asked for a count. Every other step leaves the counter and the
definition, or resets the counter, and reopens nothing (`Eased`, `Turned`). The
condition is needed for the last rejection: one that was waiting in S counts
against the state T another call has moved the flow to, and takes the error
route of S; if that leads to T, the flow stays open with its counter at the
maximum. So the error routes of states that wait have to end the flow or to be
absent (`RejectionsEnd`, which `overlap` evaluates for its definition).

`TheLogIsContinuous` comes from the same invariant and needs neither condition.
The code reads `currentState` again after every await, so a record starts where
the flow is by then, however stale the choice; `Recorded` says that this is
where the record before it ends, unless the enter action of that state may have
thrown, and `LogGrows` that a step writes one record at most, from there. TLC
checked `OverlapInv` on `overlap` before it was proved.

### The persistent store

Only types are assumed (`WorkerAssumption`, and what `FlowDefinition` assumes).
`Locked` says that what a call has loaded is the row or an older version of it,
and that a version says all about the row: so a save that finds its version
replaces what it was computed from. That much is the store's doing; what the
engine's code has to see to is `Logged`: from the row a call has loaded to its
instance the records lead, whichever awaits, exceptions and routes lie between,
since a record is written before the next await. The exception are moves whose
enter action throws inside a `try`, which are stored without a record
(`Unrecorded`); where a sub-flow's exit does that, no `try` catches it and
nothing is saved. A crash loses nothing the row knows of. The bound of the retries
needs `Locked`, as each call goes on counting from what it loaded.

### The analysis and the graph

The properties speak of data assignments rather than of paths, so no induction
over paths is needed. A `Guarantee` gives each state keys that every way into
it brings; a `Possibility` gives it at least the keys that some way brings. The
definitions of what a step brings are those of `spec/SPEC.md` 5.3 and not the
code's operators. Only types are assumed (`DesignAssumption`,
`VersionAssumption`).

Argument. Neither property is inductive. `IndInv` adds that the set kept for a
visited state lies above every guarantee and below every possibility
(`AboveGuarantees`, `BelowPossibilities`), that the sure gaps of transitions
gone through are reported, and that nothing is forgotten: a transition of a
visited state has been gone through, or a frame on the stack stands at or
before it. The last conjunct is what makes the empty stack at the end mean that
all transitions were seen. `IndInv` was checked by TLC on the `dataflow`
definitions before it was proved.

For two versions the invariant is `IndInv` and `VersionsOK`: what is kept of
the old version is what its analysis ended with, and the new one is one of its
next versions. A compatible replacement requires no more and produces no less,
so each guarantee of the old definition is one of the new; what the new check
reports is no guarantee of the new definition, hence none of the old.

That the two walks agree is a simulation over two stretches of time: the second
walk runs when the first has long ended. `WalksMatch` relates them by `Leads`:
while the check walks, moves lead from the start to where it is; while the graph
is filled, moves lead from where that walk is to where the check has ended. A move
depends on the configuration only and there is one at most (`OneMove`), so each
step of the second walk stays on the way the first has gone, and with an empty
stack it stands at the end of it. `Leads` quantifies over the sets that are
closed under moves, which needs neither sequences nor induction. That the graph
explains the report then needs `ReportsStay`: a visited state gains no key, so
what was missing when it was reported is missing in the end. Error routes are
excluded because the code excludes them: the graph's walk follows none.

That instances are covered needs the reports of the new build: a key that a
transition asks for and an old instance may lack is either in the new graph at
that state, and then the comparison names it, or it is missing there, and then
the check has reported it. The second half is `GapsReported`: a transition whose
gap is not in the report is still `Pending`, that is, to be gone through by some
frame on the stack, since the check goes through a state again whenever its set
of keys shrinks.

The order of migration is a recursive function over sets of nodes. The library's
theorems about induction take an operator, which the provers cannot instantiate, but a
set that holds 0 and every successor holds every number (`AllNumbers`, from the
least element of what it would lack), and that is enough: `OrderUnfolds` shows that
the recursion defines a function, `OrdersAreOrdered` what it returns for any set
of nodes that is left, both by the size of the set, the rest it lists in the end
included. For an accepted definition (`AcceptedIsOrdered`), take what there is
before the first node that lacks its data, and what resumes bring: no node of
the rest has its data there, so none of them can give anything else where the
check went along the paths (`KeysAreGrounded`), and then the check would have
reported what they lack.

Between the theorems lies the gap `lost_join` shows: a key that some paths
bring and others do not. The analysis may pass it, as the early return of
`flow-definition.ts:500` keeps the larger set.

### Plugins, pipeline, hierarchy, chain

`PluginStack`: `IndInv` is the types and the order of versions, `OnceInv`
connects the registry of commands with the calls that have passed it (one call
per registered command), `AnswerInv` says that a call under way has no
status yet and that a status by which nothing happened counts no moves. `TruthInv` is what the logs are worth: they agree with each
other, only started flows are in them, and the last transition the event log has
of a flow leads to where the flow is, unless a call threw on it or the engine
gave it up. What happens within one call is followed by `TruthOf`, as a call
records several moves before its answer. The order of versions then turns the
last transition into the one with the greatest version, which both replay
services find. `MachineAssumption` is types, and that `None` is no name.

The attempt at this proof corrected the property: the exception for flows given
up was for `TERMINAL_ERROR` alone, which holds with three calls and not with
four. A guard that is answered late completes the flow as `EXPIRED` over that
exit (`flow-engine.ts:157` sets it unconditionally), while the log still does
not know of the move; TLC shows it with one flow and four calls.

`Pipeline`: the promise of strict mode is proved from an invariant over the
steps that `build()` has checked: a checked execution holds what the completed
steps produce, which includes what the next one requires. The story is proved
from `Told`: of an execution that runs a step, the announced steps are those up
to this one, the keys before the step hold all that is logged, and an entry of
the state log is never later than the step that completed last. `Between` is
the same between two steps, within one action.

`EntryExitCompiler`: `SpecAssumption` says that states are nested as objects are,
in a finite forest, that no two have one name, and that transitions are between
its states; nothing bounds its depth. The code recurs on nesting in
both directions, and so do the definitions: `pathTo` from a state to the one
around it, `fallbacks` to those inside. A finite forest has a largest part that
contains the parents of its states and on which `pathTo` is defined, and by
`Nested` that part is all of it (`PathUnfolds`; `FallbacksUnfold` with children
for parents). What is proved of paths (`PathsArePaths`: what comes up to a state
of a path is the path to that state) makes the states around a state a line, from
which the rest follows: the common prefix cuts both paths into the same upper part
and two lower ones, what is left and what is entered (`FireMatches`), and a state
has the copy of a handler exactly when no state between them handles the trigger
(`FallbacksAre`, from the innermost states outwards), that is, when no handler is
nearer.

`FlowChain`: a chain of one step keeps index 1, and whatever a call has started
is the flow of that step (`OneInv`); under it each action of `FlowChain` is one
of `UseFlow` or a stutter, by one lemma per action. Longer chains are mapped to
a component that is never mounted, so the refinement says nothing of them; the
other two theorems do. `QuietViewIsTrue` speaks of quiet moments, so `ShowInv`
says what holds between them: the view is behind its flow only while a call
that counts has its answer to come, or with the error of one that threw
(`ViewKnowsItsFlow`), a loading flag is one that
some call in flight takes away (`LoadingIsOwed`), and each call works on a flow
that it started itself or that may be shown (`CallsKnowTheirFlow`). For the
order of steps `OrderInv` adds that calls which do not overlap are one at a
time and stand at the step of the index, and that between the move of the index
and the answer of the next start the view shows the ended flow of the step
before. `ChainAssumption` is types, that no flow starts ended, and room for a call.

### The visualisation

`VizInv` says what the messages under way are worth. On an open connection
(and on a broken one, until it is noticed) the channel is what is left of the handshake, topology then
snapshot, followed by events (`ChannelFollowsTheLog`, with `k` the messages of
the handshake that are still to come). The events are the last ones of the log;
what came before them is in the page's window, or in the snapshot as long as
that one is to come, and the flows stand where those events lead. The rest of the
invariant connects the three accounts of a flow, the server's state, the log and
the page (`LogKnowsStates`, `SeenFlowsExist`), and counts for each edge what the
page has counted and what is on the way against what was taken
(`CountsAreTaken`): that is why a snapshot's events must not be counted.

`AnimationsEnd` is the one place where durations matter: a snapshot moves flows
without touching animations, which is harmless since no animation outlasts the
pause before a reconnect. `VizAssumption` has `TransitDuration <= ReconnectDelay`
(600 ms and 2 s in the code) and `TerminalStale <= Stale` (3 s and 15 s) for
this reason; the rest is types. The invariant was checked by TLC on `viz` and a
variant of it before it was proved.

### Only model-checked

* Liveness, out of the prover's reach: `EveryCallReturns`, `EveryFlowCompletes`,
  `StoredFlowsEnd`, `AnalysisEnds`, `Reconnects`.

Every safety invariant and every action property that a run checks is also a theorem.

## 5. Not modelled, and why

* Java and Rust bindings and their plugins: further implementations of the same
  specification, without awaits.
* Diagram, skeleton and documentation generators, the rendering methods of the
  graph: text from an immutable definition.
* Lint, sub-flow validator, scenario tests: functions from a definition to
  messages, without state. The warnings that `build()` collects likewise.
* The remaining look-ups of the graph (`lifetime`, `pruningHints`, `parallelismHints`,
  `deadData`, `impactOf`, `crossFlowMap`, `diff`, `verifyProcessor`, `testScaffold`):
  filters over the maps that `DataFlowGraph` has, read by tools.
* Aliases of the context: names for serialisation, which no engine code reads.
* Registration of plugins and the formatting of telemetry; the error and state
  events of the observability plugin, which are told like the two modelled ones.
* What the visualiser draws: heat, metrics, edges, layout, several state
  machines on one board.
* The facade and the error classes: re-exports and constructors.
* Demonstrations and shared scenarios: users of the engine.

## 6. Plan

Done: engine, definition, instance, life cycle, analysis; then the persistent
store with crashes, the graph and versions, pipeline, plugins, hierarchy, hooks,
visualisation, and the theorems above.

Left:

- Aliases of the context, together with a store that serialises under them.
