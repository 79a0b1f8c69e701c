# A TLA+ development for zheng-harness

zheng-harness is an agent harness in Go: a command line and an HTTP server run
*sessions*, in which an engine lets a language model plan, call tools, observe
and have the result verified, while events are streamed to clients and every
step is stored in SQLite. This directory holds TLA+ models of the parts that
carry state and run concurrently and of the decisions they rest on, the TLC runs
that check them, and TLAPS proofs about nine of them: the session manager, the
server process, the event stream, the engine, the chat service, the
orchestrator, the scheduler, the plugin tools and the command line. All paths below are relative to the repository's root.

## 1. Inventory

| Component | State it keeps | Operations | Talks to |
|---|---|---|---|
| Session manager (`internal/runtime/session_manager.go`) | table of actors, active count, accepting flag, WaitGroup, one goroutine per actor | Start, Cancel, Lookup, Shutdown, runActor, completeActor | engine (runs it), chat service (finalizer callback), server (shutdown) |
| Event stream (`session_manager.go`, `emitter.go`, `server/api.go`) | EventChannel buffer, relay with its subscribers, one buffered channel per subscription | Emit, Subscribe, broadcast, trySend, markOverflow, Close, closeAll | engine (emits), SSE handlers (read) |
| Engine (`internal/runtime/runtime.go`) | loop variables of one run, session status, gathered steps | Run, RunStream | model, tools, verifier, memory, session store, EventChannel |
| Chat service (`internal/service/chat.go`) | none of its own | StartConversation, StartChat, SubmitReply, ResumeConversation, finalizer | session store, session manager |
| Session store (`internal/store/session_store.go`) | tables sessions (with `config_json`), plans, steps | SaveSession, SaveTask, SavePlan, AppendStep, SaveConversationState, SaveDiagnostics, queries | SQLite |
| Server process (`cmd/server/server.go`, `internal/server/api.go`) | listener, signal, exit | run, handlers, two shutdowns | everything above |
| Orchestrator (`internal/orchestration/orchestrator.go`, `worker.go`, `channel.go`) | task channel, result channel, workers, errgroup | Start, SubmitTask, Stop, Cancel, Wait, executeDecomposition | workers, engine |
| DAG scheduler, decomposition, aggregation (`scheduler.go`, `types.go`, `aggregation.go`) | dependency counts, ready set, collected results | Validate, next ready subtasks, Collect | orchestrator |
| Plugin manager (`internal/plugin/manager.go`) | managed tools, failure counts, unavailable set | Load, ReloadTool, execution with recovery, CloseAll | tool registry, external tools |
| External plugin tool (`internal/plugin/external.go`) | child process, request pipe, broken flag | initialize, Execute, HealthCheck, Close | plugin process |
| Registries (strategies, verifiers, providers, tools, tasks) | maps by id with a default | Register, Resolve, Clone | engine, builder |
| Verifiers (`internal/verify`), task registry | none | Verify, selectPolicy, Resolve | engine, tool executor |
| Tool executor and safety policy (`internal/tools`) | registry, policy | Execute, Validate, plugin path and capability checks | engine, plugins |
| Configuration (`internal/config/config.go`) | none | Load from file, environment and flags; Validate | command line, server |
| Command line (`cmd/agent/cli.go`) | one process per command | run, resume, inspect, tool reload; signals, streaming | engine, orchestrator, stores |
| Memory store, users and tokens, LLM providers, tool adapters, web UI | small or none | see `PROJECT.json` | engine, server |

What is hard in it:

* **Concurrency.** Start, Cancel, Shutdown and the ends of runs meet at the
  actor table; a cancellation may come before the actor's goroutine has a
  cancel function. The relay sends to a copy of its subscribers while clients
  leave. Requests, runs and finalizers write one metadata column
  read-modify-write.
* **Failure and order.** Every call of the engine may fail or be cancelled; the
  status is stored, announced and returned in that order; a finalizer stores
  the result after the slot of the session is free again and ignores errors.
* **Processes that are not ours.** A plugin is a child process that may answer
  late, wrongly or never, and die while calls, reloads and a close are under
  way. Two commands may work on one database, and be killed.
* **Precedence.** Four sources of configuration, two layers of registries, and
  evidence of several kinds, each with its own defaults and blanks.
* **Limits.** The cap on active sessions, the bounded channels, the step and
  retry budgets.
* **Shutdown.** HTTP handlers, streams, sessions and stores are stopped in
  sequence, each with a deadline of its own.

What makes each component correct:

* Session manager: one actor per session, cap kept, a shutdown that reports
  success leaves nothing running, cancellation reaches every actor, recorded
  results are final, every actor exits.
* Event stream: a client loses nothing but what overflows its own buffer, an
  explained end, nobody waits for a relay that is gone, no client holds up the
  stream.
* Engine: budgets end the run, the stored status is borne out by the stored
  steps, the last event tells what the store holds.
* Chat service and store: the turns of a conversation form a tree, no session
  stays `running` for ever, the last run decides the stored status.
* Server: a clean exit loses nothing, a signal leads to the exit.
* Orchestrator and scheduler: dependencies before dependents, each subtask handed
  out and reported once, none forgotten, Wait returns.
* Plugins: no process that nobody can stop, a tool that is kept works or has no
  process any more, every call, reload and close returns.
* Verifiers: success only with evidence of the kind the task asks for; what is
  stored of a verdict or of provenance can be read back as it was.
* Configuration, registries, tools: the last source wins and reaches only its own
  provider; what is bound stays bound; file tools stay in the workspace, and
  plugins load together or not at all.
* Command line: what is shown is stored, a success is not undone, a session is
  not continued without its plugin, every command ends.

## 2. Plan

Modules in the order of importance, those with a check mark are here.

1. [x] `SessionManager` with its abstract specification `SessionSlots`, and
   `SessionManager_proofs`.
2. [x] `ServerLifecycle`, which extends `SessionManager` by the process around it.
3. [x] `EventRelay`, the stream of one actor.
4. [x] `EngineRun`, one run of the engine.
5. [x] `ChatSessions`, the chat service over the store; it uses `SessionSlots`
   in the place of the manager.
6. [x] `Orchestrator`, a multi-agent run. Left: concurrent callers of SubmitTask
   and Stop, and an abstract specification (subtasks finish in an order the
   dependencies allow) that it implements.
7. [x] `Scheduler`, the DAGScheduler, with its abstract specification
   `SubtaskOrder`. Left: Aggregator.Collect.
8. [x] `PluginTools`, the plugin manager over the external tools and their
   processes. Left: a plugin that stops reading its input but lives.
9. [x] `Verification`, `Registries`, `ConfigLoad` and `ToolCalls`, modules of
   operators, and `Decisions`, which asks them. Left: the provider registry.
10. [x] `CommandLine`, the processes of the command line over one database. Left:
    the steps of several runs of one session, the memory store.

Proofs: [x] `SessionManager` with `ServerLifecycle`, `EngineRun`, `EventRelay`,
`Orchestrator`, `PluginTools`, `ChatSessions`, `CommandLine`, each in its `_proofs`
module; `Scheduler` and `Decisions` in `Algorithms_proofs`. Every invariant and
action property of the passing runs is proved; liveness is left to TLC.

## 3. The modules

### SessionManager, SessionSlots

An element of `Actors` is a `SessionActor` with its goroutine; `Start` allocates
a new one each time, so their number bounds the number of starts. One step is
one critical section (`m.mu`, `a.mu`) or one call other goroutines can see:

| Code | Action |
|---|---|
| `Start` under `m.mu` | `Start` (guard `Admitted`) |
| `attachCancel`, `transitionToRunning`, `finish` | `AttachCancel`, `TransitionToRunning`, `Finish` |
| runner factory fails / runner returns | `NewRunnerFails` / `RunReturns` |
| `completeActor`, first and second half | `RemoveActor`, `PersistFinal` |
| deferred calls of `runActor` | `CloseDone`, `WgDone` |
| `Cancel`, `markCancelled` | `Cancel`, `MarkCancelled` |
| `Shutdown`, its two selects and the unbounded receive | `ShutdownBegin`, `WaitReturns`, `ShutdownDrained`, `CancelAllEnd`, `ShutdownGivesUp` |
| `cancelAllActive` | `CancelAllBegin` (copies the table), `CancelNext` |

Several callers may shut down at once. `SessionSlots` is what the manager
promises: slots, a cap, runs that are still ending after they left their slot,
and a `drained` that is only reported when everything ended. `actors` is the
map of slots, a run is ending from `RemoveActor` to `WgDone`.

### ServerLifecycle

Extends `SessionManager` by the process: POST handlers (`posts`), SSE handlers
(`streams`), the signal, `server.Shutdown`, `manager.Shutdown`, and the exit,
after which no goroutine takes a step.

### EventRelay

The stream of one actor: `Emit` into the EventChannel, the relay goroutine
(`Broadcast`, `TrySend`, `MarkOverflow`, `CutOff`, `CloseAll` ...), and the SSE
handler of each client. Events are numbers; `Complete` stands for
session_complete, `Error` for the error event a slow client gets. A send on a
closed channel sets `crashed`, after which nothing happens any more.

### EngineRun

One run of `Engine.Run`, one action per call to the environment. Model, tools,
verifier, memory and store may answer, fail with the error of the context, of a
deadline, or with another error; cancellation and the deadline come at any
time. `SavePlan`, `AppendStep` and `SaveSession` run under a context that
cannot be cancelled (`SessionAliasStore` of `internal/runtimebuilder`).
`ending` holds how the run has decided to end until it is stored and announced.

### ChatSessions

Requests and runs over the rows of the table `sessions`. Each call of the store
that changes metadata is two steps, `...Loads` and the write, because the code
reads `config_json` and writes it back in two statements. The finalizer runs
after its slot is free. `Restart` is a crash: all requests and runs are gone,
the rows stay. The end of a run is chosen from `EndStatuses`; `EngineRun` says
when which is right.

### Orchestrator

`caller` is the goroutine of `executeMultiAgentRun` (`cmd/agent/cli.go`), `loop`
the one that `Start` launches, `worker[s]` the goroutine of a subtask inside
`executeDecomposition`. A subtask in `Agents` is run by a `WorkerAgent`, any
other by a callback of `NewWorker`, which is what the command uses. The command
submits one decomposition; the model lets it submit a list. The semaphore is
the number of goroutines between `Acquire` and `Return`. Where a `select` has
several branches that are ready, each is a possible step: a subtask may still
get a slot after the context has ended. `Valid` states what `Validate` refuses
of a graph; that a decomposition has an identifier and its subtasks
descriptions is left out. DAG edges are a set: an edge listed twice counts
twice in `remainingDeps` and in `dependents` alike.

### PluginTools

A tool instance is a number in the order of `ExternalLoader.Load`; its record
has the process, `closed` and `stdin` of the struct, the holder of `rpcMu`, the
last request id and what the process has written and nobody has read. `mgr` has
the holder of `m.mu` (a reload keeps it from its first look to its last write,
everything else takes it for one step) and the three maps by name. `act` is
what each caller (`executeWithRecovery`) or administrator (Load, ReloadTool,
CloseAll) is doing; `Begin` starts an operation, `Proceed` is its next step.

| Code | Action |
|---|---|
| `managedPlugin.Execute`, `lookupManagedPlugin` | `Call`, `Lookup` |
| `ExternalPluginTool.Execute` up to the request | `Enter` |
| `callInternal`: lock and write / read / deadline | `Send` / `Receive` / `Timeout` |
| success, failure counts, `markUnavailable`, `healthCheck` | `Succeed`, `Count`, `MarkUnavailable`, `HealthCheck` |
| `ReloadTool` | `BeginReload`, `LoadPlugin`, `Close` ... `WaitExit`, `Swap`, `SwapFails`, `LoadRefused` |
| `Load`, `CloseAll` | `Load`, `LoadPlugin`, `Track`; `CloseAll`, `CloseNext` |
| the child process | `Answer`, `Die`, `EndOfInput` |

### Scheduler, SubtaskOrder

A subtask is its position in the decomposition; `ready` is the queue, which the
code keeps sorted, as a set. The client is free: `Schedule` and `MarkComplete` of any
subtask at any time. `SubtaskOrder` promises that each subtask is handed out at
most once, after its dependencies. `Sort` is `TopologicalSort`: `turns[n]` is the
state of its loop after n turns, compared with what makes an order legal.

### Verification, Registries, ConfigLoad, ToolCalls, Decisions

Functions of the program that keep no state, as operators over records:
`Verification` from the task to the verdict and its stored form; `Registries`
for verifiers, strategies and provenance; `ConfigLoad` for the four sources of
the configuration; `ToolCalls` for the executor, the safety policy and the
loading of plugins, where a place is a path with what it starts from: the root
of the file system or the workspace. `Decisions` puts one question from a finite set and stores
the answer; its properties say what the answer should be without a look at how
the code finds it. In `ConfigLoad` a value names its origin, so that a setting
that reaches the wrong provider is seen; the model stands for the API key and
the base URL, `limit` for the settings of the runtime and the server. The flags
give their settings to the provider of the name that was selected before
`upsertSelectedProvider` replaces a blank name by the default one, as the code
does with its local variable.

Loops over a list (`RegisteredAfter`, `StrategiesOf`, `AllMerged`, `AllAdded`,
`Walk`) are functions from the number of turns to the state after them, so that
they can be reasoned about. The assumptions on the constants of `Decisions` say
what the inputs of the code are: lists come as arrays, limits are numbers,
providers of a file have names, the workspace is an absolute clean path, the
components of a path are names. One is about the model: the model that the flags
give is not one that any other source gives, so that a stray one can be told.

### CommandLine

Each process performs one command; `rows` is the table of sessions. `pc` follows
`runCommand`, `resumeCommand` and `inspectCommand`, `open` is what deferred calls
have to close, `engine` the engine seen from outside: it stores `running`, then
a plan, then its end, each of which may fail. With `--stream` the engine runs
beside the consumer of its events. `Signal` is the first signal once the
handler is installed, `Kill` a crash or a signal without it.

## 4. Runs

| Run | Bounds | Shows |
|---|---|---|
| `SessionManager` | 3 sessions, 3 starts, cap 2, one shutdown; symmetry | table, cap and counters; drained means gone; cancellation misses nobody; no `wg.Add` during `wg.Wait`; results are final; `SessionSlots` is implemented |
| `SessionManagerLostCancel` | runs that only answer to their context | violated: a shutdown that waits for ever, see 7 |
| `ServerLifecycle` | 2 sessions, 2 starts, no symmetry | clean exit and order of the shutdowns, a signal leads to the exit, started sessions end |
| `EventRelay` | 2 clients, 3 events, buffers 2 and 1 | only overflow loses events, explained ends, nobody left behind, relay ends |
| `EventRelayDisconnect` | 2 clients, 2 events, buffers 1 | violated: panic, see 7 |
| `EngineRun` | MaxSteps 0 to 3, MaxRetries -1 to 2 | budgets, justified and truthful ends, no lost steps, cancellation stops tools, termination |
| `ChatSessions` | 2 sessions, 3 requests, 2 runs, cap 1, one restart; symmetry | turns form a tree, no zombies, the last run decides |
| `Orchestrator` | up to 3 subtasks in 2 slots, 2 decompositions, one of them cyclic | dependencies first, no send on a closed channel, one result per worker, success means all ran, the call returns |
| `PluginTools` | 2 callers, 1 administrator, 1 name, 2 processes, 2 operations | no orphaned process, what is tracked works or is gone, operations end |
| `Scheduler` | all acyclic graphs over 4 subtasks | order, nobody forgotten, legal sort |
| `Decisions` | about 204,000 states in eight families of questions (`MCDecisions`) | success is earned, stored verdicts and provenance load (provenance keeps the first), precedence, bindings stand, calls stay in bounds (files in the workspace, plugins together) |
| `CommandLine` | 2 processes, 1 session, 1 plugin, 1 failed write, 1 kill | what is shown is stored, success stands, the plugin is kept, commands end |

Why the bounds are enough: three starts over three sessions with a cap of two
let the cap refuse, a session be run again and an actor slip in between the copy
of the table and the marks. Two clients are one that is slow and one that is
not; buffers of one and two overflow with three events. Three steps and three
attempts let either budget end the run first, and both at once. Two sessions
with three requests are a reply and a resume that overlap with each other and
with the run of the session they refer to. Two replies to one turn take a third
session, which is too many for TLC here: that they overlap without harm is left
to the theorem `TurnsAreATree`.

Three independent callbacks in two slots make one wait for a slot; a join whose
edge is listed as well as drawn, a chain and a second decomposition behind a
failing first one are the other shapes of a graph that the loop tells apart.

Two operations on two processes are a call with a reload and a retry beside a
second call, a reload, a load under the same name or a close; the second process
is the one a reload puts in the place of the first. Four subtasks are the
smallest graph with a diamond, a chain and an isolated node. Two processes of
the command line are a run and a resume that overlap or follow each other; a
third would meet the same row as the second did. The questions of `Decisions`
are bounded by lists of two or three elements, because the code compares
elements pairwise: two sources, results or registrations can be equal or
different, a third one can come after a conflict.

Deadlock checking is off where the system stops by itself: when all actors have
exited, the stream has ended, `Run` has returned, the process is gone, the
operations or subtasks are used up, or the question is answered.

The type invariants (`TypeOK`, `ServerTypeOK`) document the state. They are
proved as part of every inductive invariant of 6; that of `PluginTools` is in
`PluginTools_proofs`.

The definitions that stand right before another one and differ from it in one
respect are mistakes; `PROJECT.json` names the property that each one breaks.

## 5. Fairness

* Goroutines are scheduled: weak fairness of the steps of an actor, of the
  relay, of a handler inside `Close`, and of a call of Shutdown.
* Runs return: `Engine.Run` has at most MaxSteps iterations under a deadline,
  and `EngineRun` shows that it returns when its calls return (weak fairness
  of `Run`: each call of the environment answers or fails).
* `CooperativeSpec` is weaker about runs, and stronger about timers: a run
  returns once its context is cancelled, and the timers of Shutdown fire.
* In `Orchestrator` the caller, the loop and each goroutine of a subtask run, and
  the calls of a worker return; nothing makes the context end.
* In `ServerLifecycle` the shutdown context ends, because it has a deadline.
* In `PluginTools` each operation goes on (strong fairness: a Go mutex is handed
  to every waiter in the end, and a call of a tool has a deadline), and a process that
  sees the end of its input exits. Nothing in the host enforces the latter:
  `Close` waits for the process without a deadline.
* In `Scheduler` a client takes what is ready and reports what it was handed.
* In `CommandLine` a process goes on and the calls of its engine return; output
  need not break, and no signal has to come.
* No proof uses fairness.
* Nothing is assumed of clients, of requests, or of who cancels or shuts down.

## 6. Proofs

`SessionManager_proofs` proves, for any number of sessions, actors and callers
of Shutdown and any positive cap (assumptions `CapAssumption` and
`NoActorAssumption`; finite sets are not assumed, since only finitely many
actors have been started at any time):

* `TypesCorrect`, `TableCorrect`, `DrainCorrect`, `CancelAllCorrect`: the types
  and the three state invariants the run `SessionManager` checks;
* `WaitGroupCorrect`, `ResultsCorrect`: its two action properties;
* `Refinement`: the manager implements `SessionSlots`.

The argument: `IInv` adds to these invariants what they rest on. The counter of
the WaitGroup is the number of goroutines that have not exited (without it
"drained" says nothing of goroutines); an actor has a recorded result exactly
from `finish` on; once a call of Shutdown has begun the manager accepts nothing
any more, so the set of actors in the table only shrinks, and each of its members
is marked or in the targets of the call that is marking (this is why a copy of
the table is enough for `cancelAllActive`). Every step admits an actor, takes
one out of the table, ends one, or leaves these sets alone (`StepKinds`), and
each kind keeps the cardinalities in step.

The same module proves that the server process implements the session
manager (`ServerImplementsManager`: every step of the process is a step of the
manager or leaves it alone), so that all the theorems above hold inside it, and
`CleanExit`, with `MainAssumption`: run is the only caller of Shutdown. The invariant
`ServerInv` follows the order of the shutdown: the manager accepts sessions while
there are handlers, no request or stream is left once its Shutdown begins, and
run returns "ok" only for a Shutdown that returned nil, which is where
`DrainCorrect` comes in.

`Algorithms_proofs` is about what runs from start to end with no other actor in
between. Of the scheduler it proves, for any positive number of subtasks and any
graph that passed Validate, that the count of an open subtask is the number of
its open dependencies (`CountsExact`), that the scheduler implements
`SubtaskOrder` (`ImplementsOrder`), even if the client reports subtasks twice or
before they were handed out, and that the sort of a fresh one is legal and stable
(`SortLegal`). The invariant adds that whatever is ready has all
dependencies complete and has not been handed out: the count of a subtask falls
by exactly one when a dependency completes for the first time
(`OpenDependencies`), so it reaches zero once, and after the last of them.
`SortInv` says of every turn of the sort that the queue is what waits for
nothing more, and that what is placed is in order. A turn with an empty queue
and subtasks left would need a cycle (`QueueHasMore`).

Of the decisions it proves all five properties of the run, for every set of
questions that the assumptions of `Decisions` allow, thus for lists, paths and
maps of any length. `DecisionsFit` says that an answer is that of the code to the
question asked; then each property is one of the operators. `FormsLoad` is the
conjunction of `VerdictsRead` and `FirstMetIsKept`, `CallsInBounds` that of
`FilesAreInside` and `PluginsAreTogether`:

* `SuccessEarned`: each verifier passes only what holds (`IterationIsEarned`), and
  the task registry sends each task to the verifier that was promised. That no two
  sources share an id is what makes the one behind a claim unique.
* `VerdictsRead`: a verdict that the host makes of a plugin's answer is valid, and
  what is valid survives the JSON form.
* `FirstMetIsKept`: each merge keeps the entries it has and appends what has a
  new key, so an entry of the two runs is the first with its key among all that
  was met (`FirstOfBoth`, `FirstInBoth`).
* `BindingsAreKept`: from one registration to the next nothing is unbound; what a
  policy has is the first contract for it that the host accepted, or, before
  there is one, the built-in verifier (`Standing`, `FirstBinds`).
* `FilesAreInside`: to clean the joined path, as the policy does, and to walk the
  path from the workspace come to the same place, since a walk goes on where the
  one before it has led (`WalkOn`, `FromTheWorkspace`). Policy and adapters work
  on the names in a path alone, and so does the theorem: it does not say where
  a symbolic link leads.
* `PluginsAreTogether`: the same for plugins named by a path relative to the
  workspace. It leaves out absolute paths and names that the system looks up,
  of which it would not be true (section 7).
* `PrecedenceIsRespected`: `Loaded` lists what each stage (file, environment, flags)
  takes from its source and keeps of the stages before (`FileRead`, `EnvApplied`,
  `FlagsApplied`); `Origins` and `Unspoilt` say where every model in the result
  comes from, and that only the selected provider has that of the flags.

The loops are recursive functions, of which the provers know nothing. That such
a function exists, and that a fact holds after each turn, is proved by the least
counterexample (`LeastElement`, from the well-founded order on Nat, and
`EveryTurn`), once for each loop, since no lemma can take an operator as
a parameter.

`EngineRun_proofs` proves, for any limits the configuration may give
(`ConfigAssumption`: they are integers, negative ones included), that the
budgets bound every run (`TypeCorrect`), and the four invariants of the run
(`EndsAreJustified`, `NoStepIsLost`, `LastWordIsTrue`, `CancelStopsTheWork`).
None of these is inductive. `Counting` ties the loop variable, the retries and
the saved plans to the number of steps at each point of an iteration, which is
what makes a budget reached mean as many rejected steps; `StepsKept` says that
the store lacks at most the step being recorded, `Judged` that only the step
being judged may be other than rejected, and `EndingJustified` and `Told` carry
the reason of an end from the decision through SaveSession to the event.

`EventRelay_proofs` proves, for any number of clients, events and any
capacities, `OverflowAloneLoses`, `EndIsExplained` and `RelayLeavesNobody`. Events are
relayed in the order of their numbers (`InNumberOrder`), so session_complete,
the last one, is missed by nobody who has the others; a subscription that is
read is known to the relay, or a target of its last round, until the relay
closes it (`Known`), so one that is closed was cut off or closed at the end, and a
client that was not cut off has all but the event under way (`UpToDate`). For one
that was, `Overflown` says what it was sent in the end, from `markOverflow` on.

`Orchestrator_proofs` proves, for any lists of decompositions, any pool and any
capacity of the result channel, `DependenciesRunFirst`, `NobodySends` and
`OutcomeIsTrue`. `TaskAssumption` says that a decomposition has finitely many
subtasks, which own its dependencies, that its edges have one of the three types, and that
two decompositions of a list share no identifier, since the model has one
goroutine for each; whether a graph passes Validate is not assumed. The core is
`Counted`: `remainingDeps` of a subtask is the number of edges, counted with their
multiplicity, from the subtasks whose results the loop has not taken yet, and
`completed` the number of those it has taken. Because results are published and
delivered once each (`Recorded`, `Delivered`), a count falls to zero when the last
dependency succeeds and never below; `Accounted` and `Finished` follow each error to the
group, the loop and the caller, so that a success leaves no subtask behind.

`PluginTools_proofs` proves, for any number of callers, administrators, names
and processes, `NoProcessIsOrphaned` and `TrackedWorks`. A tool that is up is
tracked under its own name or owned by one operation (`Owners`): the instance
a load or reload has just started, the one a failed step is undoing, those that
CloseAll still has to close. `Footing` says what the lock gives: a reload holds
`m.mu` from its first look to its last write, so the instance it swaps out is still the
tracked one, and only such a swap can have hung up on what is tracked
(`InService`). `Broken` says that a tool whose `closed` is set has no process, unless
its Close is still under way; a Close of a tracked tool is under the lock, which
is why `TrackedWorks` speaks of the times when the lock is free.

`ChatSessions_proofs` proves, for any number of sessions, handlers and runs and
any cap, `NoSessionIsLeftRunning`, `LastRunHasTheWord` and `TurnsAreATree`
(`EndAssumption`: a run that ends is not `pending` or `running`, which `EngineRun`
shows). Reading the metadata and writing it back are two steps, so what saves
the chain of a session is that its writers take turns: `Alone` says that a
session that was never started under another writer is first in the hands of
its handler and then of one run at a time, and that what a writer has read is
what is stored. `Watched` gives each session stored as `running` a run that will
store more; `Tells` says how far a run that has ended has told the store, from its own
SaveSession to the finalizer's; `Chained` keeps what SubmitReply has read about the
parent true until the chain is written, and ever after: the parent is not being
created any more, so its conversation and its turn no longer change.

`CommandLine_proofs` proves, for any number of processes, sessions and plugins,
and however many writes fail and processes are killed, `OutcomesAreStored`,
`PluginsAreKept` and the action property `SuccessesStand`
(`NumProcessesAssumption`; `NobodyAssumption`: no process or plugin is called
nobody). Several processes write one row, so the invariant follows the
process that wrote it last: `Told` says that a row stored as running is excused by a
fault of that process, or not settled yet (`Unsettled`), and that a success was
returned by its engine, which therefore stores nothing more; `Writes` keeps what
a process has shown equal to the row while the row is its own. `Bound` is about
the session of a run with a plugin: there is no second run of it, the row has
the plugin from the first plan on, and a resume needs that plan. A step moves
one process and one row, so `MovesKeep` shows once what it needs to keep all
this for everybody else, and each action is a move that leaves the row
(`QuietKeeps`) or stores the session (`SavesKeep`).

TLC checked every inductive invariant on an instance before it was proved, and
still checks the invariants that follow from them in the runs, with the two
refinements. What stays with TLC:

* Liveness under fairness (`ShutdownReturns`, `SignalLeadsToExit`,
  `StartedSessionsEnd`, `RelayAlwaysEnds`, `RunReturns`, `CallReturns`,
  `OperationsEnd`, `NobodyForgotten`, `CommandEnds`): out of the prover's reach.
* What a bounded run shows and a theorem cannot: that the questions of
  `Decisions` reach the interesting cases, and that the mistakes listed in
  `PROJECT.json` are seen.

## 7. Disagreements found

* **Lost cancellation** (`SessionManagerLostCancel`): an actor cancelled before
  `attachCancel` keeps a live context; `Shutdown` may wait for it without bound.
* **Disconnect panics** (`EventRelayDisconnect`): a client that leaves while an
  event is sent makes `markOverflow` send on a closed channel.

The others were seen while modelling, and the models take these steps as the
code does, but no run has a property of its own for them. Documents and comments
that the code contradicts:

* **Sessions dropped at the timeout**:
  `cmd/server/server.go:230` returns when the HTTP shutdown times out, which an
  open stream of a session that goes on makes it do, before the manager is shut
  down. The process exits with sessions that nobody has cancelled; ADR-009:258
  says that all sessions are marked cancelled after the timeout.
* **Silent overflow**: when the event that overflows a
  client is session_complete, the oldest event in its buffer makes room for it;
  the client loses that one and is never told, although
  `docs/validation-matrix.md:556` says that overflow emits an error event. The
  client may also get session_complete twice, once from its buffer and once
  as the signal of the overflow.
* **Completed sessions run again**: between `InspectSession`
  and `Start` of a resume a session may complete; ADR-009:59 promises a conflict.
* **Success replaced by fatal_error**: the finalizer
  of a failed run may still be at work when the session is resumed and succeeds;
  ADR-009:62 calls the history of a terminal session immutable.
* **Reload that fails half way**: `Close` of the old
  tool fails after it has killed the process and set `closed`; the reload undoes
  its own load and leaves the dead tool tracked, although `manager.go:232` speaks
  of atomicity. The next call on it fails, finds it dead and reloads it.
* **Plugins before built-ins**: a contract for the policy of a built-in verifier
  is accepted and decides in its place, while `GetRegistration` still says
  built-in, and a strategy registered as host_default takes the place of the
  default one. ADR-008:104 and 106 say that both are rejected, and 108 that
  plugins extend and never replace. `BindingsStand` states what the code does.
  The outer registry of strategies (`internal/plugin/registry.go`) refuses
  host_default; the one of the runtime, which the engine resolves from, does not.
* **Allowed plugins refused**: an absolute plugin path
  is checked as if it lay below the workspace (`safety.go:56`), while an absolute
  allowed directory stays where it is (`safety.go:206`); so a plugin in such a
  directory does not load, against ADR-007:66.

Sessions and their store:

* A cancellation that hits `createPlan` or `Memory.Remember` is stored as
  fatal_error. The command line corrects it to interrupted, which is what
  `docs/validation-matrix.md:97` says; the server leaves it.
* A session that is resumed while the request that creates it still stores
  metadata, or while the finalizer of its last run is at work, has two writers
  that put back each other's old metadata: it can lose its conversation.
  `TurnsFormATree` and `LastRunDecides` exempt these sessions (`raced`), and say
  nothing of this loss.
* A session that `Start` refuses keeps its row with the status `pending`.
* An overflowed client gets its error event twice, once in the channel and once
  from `OverflowEvent`. `Emit` drops events silently when the channel is full.
* ADR-009 promises a late subscriber session_complete; the stream it gets is
  closed and empty. `docs/validation-matrix.md:791` says subscribe returns an
  error; it returns a closed subscription.
* A new plan is announced with step_complete and the number of the step it is
  for, before that step has been taken.
* A multi-agent run that is cancelled before its worker gets a slot has no
  result; `Wait` hides the cancellation, the aggregation of no results
  succeeds, and the command gets an empty session without an error.
  The success part of `OutcomeIsHonest` is therefore about runs that were not
  cancelled.
* Results are read only after `Wait`: more of them than `ResultChannel` holds
  would block the workers, and `Wait`, for ever. The model gives the channel
  room for all. Only the command's single subtask makes that true of the code.
* `SubmitTask` sends on a channel that `Stop` may have closed, a panic for
  callers that do both at once; the command does one after the other.

Plugins:

* The host can die of a plugin, although ADR-008:83 says "Plugin failures never
  crash the host": a second caller waits for `rpcMu` while the first one finds
  the process dead, reloads, and `Close` sets `stdin` to nil; the second caller
  then writes to it (`external.go:340`). `PluginTools` has this as `crashed`, and its
  liveness excepts it. It takes two callers of one tool at a time; the programs
  as they are shipped use a manager from one goroutine at a time.
* `Load` of a name that is loaded overwrites the entry and leaves the old
  process running (`replaced` in `PluginTools`); `buildPluginExecutor` loses the
  first process in the same way before it refuses the duplicate name.
* The failure count and the mark are two critical sections: a success in between
  leaves a tool unavailable with no failures. A cancelled call counts as a
  failure of the plugin.
* `pluginExecutor.Execute` (`builder.go:345`) bypasses `SafetyPolicy.Validate` and
  the timeout of the call. `tool reload` never closes the process it loaded; the
  reload of the server's API works on a manager in which nothing is loaded, and
  always answers "not found" (`README.md:292` says that it reloads).

Scheduler, verification, registries, configuration, tools:

* `TopologicalSort` starts from the counts as they are: after a `MarkComplete` it
  can place a subtask before its dependency. `SortIsLegal` is about a fresh one.
* With verification off the server builds an engine without a verifier, and
  `Run` refuses to start; only the command line puts its FakeVerifier in.
* A verdict stored without a reason by an older version cannot be read back. A
  policy named "default" is refused. The older `verify.NewVerifier` looks at
  the first record of a command, `CommandVerifier` at the last.
* A resume of a session with a verifier plugin in its provenance always fails:
  `TaskAwareVerifier` has nothing resolved before its first `Verify`.
* `plugin_provider` of a file is compared without lowering its case: if it is not
  listed under that very name the default provider is taken without a word. A
  blank `--provider` or `--plugin-provider` drops an earlier selection, and
  `--model` beside it has no effect at all, although the comment at
  `config.go:193` puts the flags above every other source. The model of the
  environment is lost when a flag selects another provider.
  `LoadRespectsPrecedence` names the exceptions it needs.
* `grep_search` has its whole input checked as a path.
* A plugin that is named by an absolute path is executed by that path, which the
  check has taken to lie below the workspace. A bare name with an extension is
  checked as a path but executed by its name, which the system looks up, and so
  is a bare name when the directory of plugins is "." (a `.so` file is opened as
  it is). `ToolCalls` has these as places from "root" and from "search";
  `PluginsLoadTogether` says nothing of where they lie.
* The safety policy compares the names in a path and follows no symbolic links.

Command line:

* A session that ended before its first plan can neither be resumed nor
  inspected. A general task without options is not stored, and a resume works
  on the summary of the plan in its place.
* `Emit` may drop session_complete when its channel is full; a streaming command
  then shows no status. It reads the row afterwards, but only for its exit status.
* `--stream` ignores `--decompose`, and exits with 0 for a session that ended
  badly. When its output breaks, the store is closed under the engine, and the
  row may stay `running`.
* Nothing keeps a resume from a session that another process is running; a
  success may then be overwritten by the process that never saw it
  (`SuccessStands` allows only this). The error of the corrective `SaveSession` is
  ignored. With best effort, a decomposed run that failed exits with 0.

## 8. Not modelled

The components marked so in `PROJECT.json`: the memory store, users and tokens,
LLM providers, tool adapters and the web UI are a table each, formats, or input
and output, and the engine sees them as calls whose outcomes are chosen freely.
Of modelled components: payloads, wording, times (a deadline is a flag),
listings and transcripts, the steps of several runs of one session (a resumed
run starts at step 1 again, and the table has no unique key), the collision of
ids that are taken from the clock, native plugins, a plugin that closes its
input but lives, the provider registry, `Aggregator.Collect`, and the older
`verify.NewVerifier`.
