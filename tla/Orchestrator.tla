---------------------------- MODULE Orchestrator ----------------------------
(***************************************************************************)
(* The multi-agent run: cmd/agent/cli.go executeMultiAgentRun hands a      *)
(* decomposition to the Orchestrator of internal/orchestration, stops it,  *)
(* waits for it and aggregates the results of the workers.                 *)
(*                                                                         *)
(* One caller starts the orchestrator, submits its decompositions, closes  *)
(* the queue, waits and only then reads the results, as the command does   *)
(* with its single decomposition.  The processing loop takes one           *)
(* decomposition at a time; for each subtask without open dependencies it  *)
(* launches a goroutine, which needs one of MaxWorkers slots to run its    *)
(* worker.  The context may end at any moment.                             *)
(*                                                                         *)
(* A definition that stands right before another one and differs from it   *)
(* in one respect is a mistake the properties are tested against.          *)
(***************************************************************************)
EXTENDS Integers, Sequences, FiniteSets, SequencesExt

CONSTANTS TaskLists,   \* lists of decompositions a caller may submit
          Agents,      \* the subtasks run by a WorkerAgent, not by a NewWorker callback
          MaxWorkers,  \* size of the pool, and of the task channel
          ResultCap    \* capacity of ResultChannel

(* A decomposition: its subtask ids, the dependencies the subtasks list    *)
(* (<<from, to>>: "to" names "from") and the edges of its DAG.             *)
SubtasksOf(list) == UNION {t.subtasks : t \in ToSet(list)}
Subtasks == UNION {SubtasksOf(list) : list \in TaskLists}

ASSUME PoolAssumption ==
  /\ MaxWorkers \in Nat \ {0}
  /\ ResultCap \in Nat \ {0}
  /\ Agents \subseteq Subtasks

EdgeTypes == {"depends-on", "sequential", "parallel-with"}

(* Dependencies are those of the subtasks; the decompositions of a list    *)
(* share no id, so that one goroutine stands for each.                     *)
ASSUME TaskAssumption ==
  \A list \in TaskLists :
    /\ list \in Seq(ToSet(list))
    /\ \A i \in DOMAIN list :
         /\ IsFiniteSet(list[i].subtasks)
         /\ \A d \in list[i].deps : d = <<d[1], d[2]>> /\ d[2] \in list[i].subtasks
         /\ \A e \in list[i].dag :
              e.type \in EdgeTypes /\ e = [from |-> e.from, to |-> e.to, type |-> e.type]
    /\ \A i, j \in DOMAIN list : i # j => list[i].subtasks \cap list[j].subtasks = {}

VARIABLES
  caller,        \* the goroutine of the command: where it is, what it submitted, what it got
  ended,         \* how the context of the caller ended: "none", "canceled" or "deadline"
  taskChannel,   \* queued decompositions
  taskClosed,
  loop,          \* the processing loop: its decomposition, results taken of it, error
  remaining,     \* remainingDeps of the current decomposition
  groupErr,      \* first error of the inner errgroup
  worker,        \* per subtask: where its goroutine is, and the error of its result
  results,       \* internal channel of results: subtasks
  resultChannel, \* published results
  resultClosed,
  panicked       \* a worker has sent on the closed ResultChannel

tasks == <<taskChannel, taskClosed>>
group == <<remaining, groupErr, worker, results>>
published == <<resultChannel, resultClosed, panicked>>
vars == <<caller, ended, tasks, loop, group, published>>

-----------------------------------------------------------------------------
(* Validation and the dependency graph.                                    *)

(* The edges that order subtasks; parallel-with does not.                  *)
Directed(t) == {e \in t.dag : e.type # "parallel-with"}
Before(t, x, y) ==
  \/ <<x, y>> \in t.deps
  \/ \E e \in Directed(t) : e.from = x /\ e.to = y

(* findCycle: some subtasks each of which waits for another one of them.   *)
HasCycle(t) ==
  \E S \in (SUBSET t.subtasks) \ {{}} :
    \A y \in S : \E x \in S : Before(t, x, y)

(* TaskDecomposition.Validate, for the faults a graph can have.            *)
Valid(t) ==
  /\ t.subtasks # {}
  /\ \A d \in t.deps : d[1] \in t.subtasks /\ d[1] # d[2]
  /\ \A e \in t.dag : {e.from, e.to} \subseteq t.subtasks /\ e.from # e.to
  /\ ~HasCycle(t)

(* How often y waits for x: a dependency that is also an edge counts       *)
(* twice, in remainingDeps and in dependents alike.                        *)
DependenciesOnly(t, x, y) == IF <<x, y>> \in t.deps THEN 1 ELSE 0
Multiplicity(t, x, y) ==
  (IF <<x, y>> \in t.deps THEN 1 ELSE 0)
    + Cardinality({e \in Directed(t) : e.from = x /\ e.to = y})

DependencyCount(t, y) ==
  LET Waits == {w \in t.subtasks \X (1 .. 3) : w[2] <= Multiplicity(t, w[1], y)}
  IN  Cardinality(Waits)

-----------------------------------------------------------------------------
Errs == {"none", "failed", "deadline", "canceled"}
Idle == [pc |-> "idle", err |-> "none"]
WorkerPcs == {"idle", "queued", "planning", "executing", "verifying",
              "publishing", "delivering", "returning", "gone"}
(* The goroutine holds a slot of the semaphore.                            *)
Holding == {"planning", "executing", "verifying", "publishing",
            "delivering", "returning"}
CallerPcs == {"start", "submit", "stop", "wait", "collect", "aggregate", "returned"}
Result(s) == [subtask |-> s, err |-> worker[s].err]

Init ==
  /\ \E list \in TaskLists :
       caller = [pc |-> "start", list |-> list, next |-> 1, err |-> "none",
                 collected |-> <<>>, strategy |-> "all_succeed"]
  /\ ended = "none"
  /\ taskChannel = <<>> /\ taskClosed = FALSE
  /\ loop = [pc |-> "off", task |-> 0, completed |-> 0, err |-> "none"]
  /\ remaining = [s \in Subtasks |-> 0]
  /\ groupErr = "none"
  /\ worker = [s \in Subtasks |-> Idle]
  /\ results = <<>>
  /\ resultChannel = <<>> /\ resultClosed = FALSE /\ panicked = FALSE

Task(i) == caller.list[i]
Current == Task(loop.task)

(* o.ctx is done: the context has ended or the loop has returned an error. *)
RunDone == ended # "none" \/ loop.err # "none"
(* workerCtx is done, and the error it gives.                              *)
WorkerDone == ended # "none" \/ groupErr # "none"
WorkerCtxErr == IF groupErr = "none" THEN ended ELSE "canceled"
FirstErr(e) == IF groupErr = "none" THEN e ELSE groupErr

-----------------------------------------------------------------------------
(* The caller.                                                             *)

(* Orchestrator.Start.                                                     *)
Start ==
  /\ caller.pc = "start"
  /\ caller' = [caller EXCEPT !.pc = "submit"]
  /\ loop' = [loop EXCEPT !.pc = "select"]
  /\ UNCHANGED <<ended, tasks, group, published>>

(* SubmitTask queues the next decomposition; select takes any branch that  *)
(* is ready, so that it may still queue when the context is done.          *)
SubmitAccepted ==
  /\ caller.pc = "submit" /\ caller.next <= Len(caller.list)
  /\ Valid(Task(caller.next))
  /\ Len(taskChannel) < MaxWorkers
  /\ taskChannel' = Append(taskChannel, caller.next)
  /\ caller' = [caller EXCEPT !.next = @ + 1]
  /\ UNCHANGED <<ended, taskClosed, loop, group, published>>

(* SubmitTask returns an error, which the call returns after Stop and Wait. *)
SubmitFails ==
  /\ caller.pc = "submit" /\ caller.next <= Len(caller.list)
  /\ ~Valid(Task(caller.next)) \/ RunDone
  /\ caller' = [caller EXCEPT !.pc = "stop",
                  !.err = IF ~Valid(Task(caller.next)) THEN "failed"
                          ELSE IF ended # "none" THEN ended ELSE "canceled"]
  /\ UNCHANGED <<ended, tasks, loop, group, published>>

SubmittedAll ==
  /\ caller.pc = "submit" /\ caller.next > Len(caller.list)
  /\ caller' = [caller EXCEPT !.pc = "stop"]
  /\ UNCHANGED <<ended, tasks, loop, group, published>>

Stop ==
  /\ caller.pc = "stop"
  /\ taskClosed' = TRUE
  /\ caller' = [caller EXCEPT !.pc = "wait"]
  /\ UNCHANGED <<ended, taskChannel, loop, group, published>>

(* Wait returns with the loop, and takes a cancellation for no error.  A   *)
(* call whose SubmitTask failed returns here with that error.              *)
Wait ==
  /\ caller.pc = "wait" /\ loop.pc = "exited"
  /\ caller' = IF caller.err # "none" THEN [caller EXCEPT !.pc = "returned"]
               ELSE [caller EXCEPT !.pc = "collect",
                       !.err = IF loop.err = "canceled" THEN "none" ELSE loop.err]
  /\ UNCHANGED <<ended, tasks, loop, group, published>>

(* collectWorkerResults ranges over ResultChannel until it is closed,      *)
(* which it is when Wait has returned: nobody sends any more.              *)
Collect ==
  /\ caller.pc = "collect" /\ resultClosed
  /\ caller' = [caller EXCEPT !.pc = "aggregate", !.collected = resultChannel]
  /\ resultChannel' = <<>>
  /\ UNCHANGED <<ended, tasks, loop, group, resultClosed, panicked>>

(* Aggregator.Aggregate: with all_succeed a failed result is an error.     *)
FailedNotCancelled(collected) == {r \in ToSet(collected) : r.err \notin {"none", "canceled"}}
FailedResults(collected) == {r \in ToSet(collected) : r.err # "none"}

(* The strategy is an option of the command, first looked at here.         *)
Aggregate ==
  /\ caller.pc = "aggregate"
  /\ \E strategy \in {"all_succeed", "best_effort"} :
       caller' = [caller EXCEPT !.pc = "returned", !.strategy = strategy,
                    !.err = IF /\ @ = "none" /\ strategy = "all_succeed"
                               /\ FailedResults(caller.collected) # {}
                            THEN "failed" ELSE @]
  /\ UNCHANGED <<ended, tasks, loop, group, published>>

(* The caller is cancelled, calls Cancel, or its deadline passes, while    *)
(* the loop can still see it.                                              *)
EndContext ==
  /\ ended = "none" /\ loop.pc # "exited"
  /\ \E how \in {"canceled", "deadline"} : ended' = how
  /\ UNCHANGED <<caller, tasks, loop, group, published>>

-----------------------------------------------------------------------------
(* The processing loop.                                                    *)

(* The goroutine of Start returns: closeResultChannel runs first.          *)
ExitLoop(err) ==
  /\ loop' = [loop EXCEPT !.pc = "exited", !.err = err]
  /\ resultClosed' = TRUE
  /\ UNCHANGED <<resultChannel, panicked>>

LoopEnds ==
  /\ loop.pc = "select"
  /\ \/ ended # "none" /\ ExitLoop(ended)
     \/ taskClosed /\ taskChannel = <<>> /\ ExitLoop("none")
  /\ UNCHANGED <<caller, ended, tasks, group>>

(* executeDecomposition up to its loop: count, find the roots, launch.     *)
Roots(t) == {s \in t.subtasks : DependencyCount(t, s) = 0}

Launched(ready) ==
  [s \in Subtasks |-> IF s \in ready /\ worker[s].pc = "idle"
                      THEN [pc |-> "queued", err |-> "none"] ELSE worker[s]]

BeginDecomposition ==
  /\ loop.pc = "select" /\ taskChannel # <<>>
  /\ LET t == Task(Head(taskChannel))
     IN  /\ loop' = [loop EXCEPT !.pc = "run", !.task = Head(taskChannel), !.completed = 0]
         /\ remaining' = [s \in Subtasks |-> IF s \in t.subtasks THEN DependencyCount(t, s) ELSE 0]
         /\ worker' = Launched(Roots(t))
  /\ groupErr' = "none" /\ results' = <<>>
  /\ taskChannel' = Tail(taskChannel)
  /\ UNCHANGED <<caller, ended, taskClosed, published>>

(* The subtasks that the result of s was the last to hold back.            *)
ListedUnblocked(t, s, left) == {d \in t.subtasks : left[d] = 0 /\ <<s, d>> \in t.deps}
Unblocked(t, s, left) == {d \in t.subtasks : left[d] = 0 /\ Before(t, s, d)}

(* A result without an error lets them go; the last one leaves only        *)
(* group.Wait.                                                             *)
TakeResult ==
  /\ loop.pc = "run" /\ results # <<>> /\ worker[Head(results)].err = "none"
  /\ LET s == Head(results)
         left == [d \in Subtasks |-> remaining[d] - Multiplicity(Current, s, d)]
     IN  /\ remaining' = left
         /\ worker' = Launched(Unblocked(Current, s, left))
  /\ results' = Tail(results)
  /\ loop' = [loop EXCEPT !.completed = @ + 1,
                !.pc = IF loop.completed + 1 = Cardinality(Current.subtasks) THEN "join" ELSE @]
  /\ UNCHANGED <<caller, ended, tasks, groupErr, published>>

(* A result with an error, or workerCtx done: only group.Wait is left.     *)
TakeFailure ==
  /\ loop.pc = "run" /\ results # <<>> /\ worker[Head(results)].err # "none"
  /\ results' = Tail(results)
  /\ loop' = [loop EXCEPT !.pc = "join"]
  /\ UNCHANGED <<caller, ended, tasks, remaining, groupErr, worker, published>>

SeeWorkerDone ==
  /\ loop.pc = "run" /\ WorkerDone
  /\ loop' = [loop EXCEPT !.pc = "abort"]
  /\ UNCHANGED <<caller, ended, tasks, group, published>>

Live == {s \in Subtasks : worker[s].pc \notin {"idle", "gone"}}

(* group.Wait: the goroutines are all gone.  Without an error among them   *)
(* an aborted decomposition gives the error of the context.                *)
GroupResult ==
  IF groupErr = "none" /\ loop.pc = "abort" THEN WorkerCtxErr ELSE groupErr

JoinAtOnce ==
  /\ loop.pc \in {"join", "abort"}
  /\ IF GroupResult = "none"
     THEN loop' = [loop EXCEPT !.pc = "select"] /\ UNCHANGED published
     ELSE ExitLoop(GroupResult)
  /\ UNCHANGED <<caller, ended, tasks, group>>
Join ==
  /\ loop.pc \in {"join", "abort"} /\ Live = {}
  /\ IF GroupResult = "none"
     THEN loop' = [loop EXCEPT !.pc = "select"] /\ UNCHANGED published
     ELSE ExitLoop(GroupResult)
  /\ UNCHANGED <<caller, ended, tasks, group>>

-----------------------------------------------------------------------------
(* The goroutine of a subtask.                                             *)

StepTo(s, next) == worker' = [worker EXCEPT ![s].pc = next]
Fails(s, err) == worker' = [worker EXCEPT ![s] = [pc |-> "publishing", err |-> err]]
WorkerFrame == UNCHANGED <<caller, ended, tasks, loop, remaining>>

(* A slot is free, and selectWorker gives a worker, or the strategy or the *)
(* factory fails.  The Plan and the Verify of a NewWorker callback return  *)
(* nil at once: it goes from here to Execute, from there to publishing.    *)
Acquire(s) ==
  /\ worker[s].pc = "queued"
  /\ Cardinality({o \in Subtasks : worker[o].pc \in Holding}) < MaxWorkers
  /\ StepTo(s, IF s \in Agents THEN "planning" ELSE "executing") \/ Fails(s, "failed")
  /\ WorkerFrame /\ UNCHANGED <<groupErr, results, published>>

(* workerCtx is done first: the goroutine ends without a result.           *)
GiveUp(s) ==
  /\ worker[s].pc = "queued" /\ WorkerDone
  /\ StepTo(s, "gone")
  /\ groupErr' = FirstErr(WorkerCtxErr)
  /\ WorkerFrame /\ UNCHANGED <<results, published>>

(* WorkerAgent.Plan refuses an invalid subtask and an incomplete engine.   *)
Plan(s) ==
  /\ worker[s].pc = "planning"
  /\ StepTo(s, "executing") \/ Fails(s, "failed")
  /\ WorkerFrame /\ UNCHANGED <<groupErr, results, published>>

(* The error that runWorker publishes and returns.  WorkerAgent.fail has   *)
(* turned the error of a passed deadline into context.Canceled, and        *)
(* mergeReportedWorkerResult lets what the agent reports prevail.          *)
MergedErr(s, err) == IF s \in Agents /\ err = "deadline" THEN "canceled" ELSE err

(* The run of the engine: it may fail, time out, or be cancelled with its  *)
(* context; it may also succeed when the context has ended.  A callback    *)
(* that times out by itself fails like any other.                          *)
Execute(s) ==
  /\ worker[s].pc = "executing"
  /\ \/ StepTo(s, IF s \in Agents THEN "verifying" ELSE "publishing")
     \/ Fails(s, "failed")
     \/ s \in Agents /\ Fails(s, MergedErr(s, "deadline"))
     \/ WorkerDone /\ Fails(s, MergedErr(s, WorkerCtxErr))
  /\ WorkerFrame /\ UNCHANGED <<groupErr, results, published>>

(* WorkerAgent.Verify wants a session that ended in success, with a last   *)
(* step that passed.                                                       *)
Verify(s) ==
  /\ worker[s].pc = "verifying"
  /\ StepTo(s, "publishing") \/ Fails(s, "failed")
  /\ WorkerFrame /\ UNCHANGED <<groupErr, results, published>>

(* publishWorkerResult: the worker reports its result, or the orchestrator *)
(* does it for it; either blocks while ResultChannel is full.              *)
Publish(s) ==
  /\ worker[s].pc = "publishing"
  /\ resultClosed \/ Len(resultChannel) < ResultCap
  /\ IF resultClosed THEN panicked' = TRUE /\ UNCHANGED resultChannel
     ELSE resultChannel' = Append(resultChannel, Result(s)) /\ UNCHANGED panicked
  /\ StepTo(s, "delivering")
  /\ WorkerFrame /\ UNCHANGED <<groupErr, results, resultClosed>>

(* The worker is terminated and unregistered, and its result handed to     *)
(* executeDecomposition, whose channel has room for every subtask.         *)
Deliver(s) ==
  /\ worker[s].pc = "delivering"
  /\ results' = Append(results, s)
  /\ StepTo(s, "returning")
  /\ WorkerFrame /\ UNCHANGED <<groupErr, published>>

(* The slot is free again, and the first error ends workerCtx.             *)
Return(s) ==
  /\ worker[s].pc = "returning"
  /\ groupErr' = IF worker[s].err = "none" THEN groupErr ELSE FirstErr(worker[s].err)
  /\ StepTo(s, "gone")
  /\ WorkerFrame /\ UNCHANGED <<results, published>>

-----------------------------------------------------------------------------
CallerStep == Start \/ SubmitAccepted \/ SubmitFails \/ SubmittedAll \/ Stop
                \/ Wait \/ Collect \/ Aggregate
LoopStep == LoopEnds \/ BeginDecomposition \/ TakeResult \/ TakeFailure
              \/ SeeWorkerDone \/ Join
WorkerStep(s) == Acquire(s) \/ GiveUp(s) \/ Plan(s) \/ Execute(s)
                   \/ Verify(s) \/ Publish(s) \/ Deliver(s) \/ Return(s)

Next == CallerStep \/ EndContext \/ LoopStep \/ (\E s \in Subtasks : WorkerStep(s))

Spec == Init /\ [][Next]_vars

(* Goroutines run, and the calls a worker makes return; nothing ends the   *)
(* context of itself.                                                      *)
FairSpec ==
  /\ Spec
  /\ WF_vars(CallerStep)
  /\ WF_vars(LoopStep)
  /\ \A s \in Subtasks : WF_vars(WorkerStep(s))

-----------------------------------------------------------------------------
(* Types of the variables.                                                 *)
ResultType == [subtask : Subtasks, err : Errs]
CallerType == [pc : CallerPcs, list : TaskLists, next : Nat, err : Errs,
               collected : Seq(ResultType), strategy : {"all_succeed", "best_effort"}]
LoopType == [pc : {"off", "select", "run", "join", "abort", "exited"},
             task : Nat, completed : Nat, err : Errs]
WorkerType == [pc : WorkerPcs, err : Errs]
TypeOK ==
  /\ caller \in CallerType
  /\ caller.next <= Len(caller.list) + 1
  /\ ended \in {"none", "canceled", "deadline"}
  /\ taskChannel \in Seq(Nat) /\ Len(taskChannel) <= MaxWorkers
  /\ loop \in LoopType
  /\ remaining \in [Subtasks -> Int]
  /\ groupErr \in Errs
  /\ worker \in [Subtasks -> WorkerType]
  /\ results \in Seq(Subtasks)
  /\ resultChannel \in Seq(ResultType) /\ Len(resultChannel) <= ResultCap
  /\ taskClosed \in BOOLEAN /\ resultClosed \in BOOLEAN /\ panicked \in BOOLEAN

(* executeDecomposition starts the goroutine of a subtask only when every  *)
(* subtask it waits for, by its own list or by an edge of the DAG, has     *)
(* delivered a result without an error, and launches none twice; no        *)
(* dependency count falls below zero.                                      *)
DependenciesFirst ==
  \A i \in 1 .. Len(caller.list) : \A s \in Task(i).subtasks :
    /\ worker[s].pc # "idle" =>
         \A x \in Task(i).subtasks :
           Before(Task(i), x, s) => worker[x].pc \in {"returning", "gone"} /\ worker[x].err = "none"
    /\ remaining[s] >= 0

(* The loop closes ResultChannel only when no goroutine is left that could *)
(* send on it, on the error paths of executeDecomposition as well: no      *)
(* worker panics.                                                          *)
NobodySendsOnClosed == ~panicked /\ (resultClosed => Live = {})

(* What the command collects is one result for each worker that ran, with  *)
(* the error it ended with, and none for a subtask that never got a slot,  *)
(* whether the agent or the orchestrator has published it.                 *)
OneResultPerWorker ==
  caller.pc = "aggregate" =>
    \A s \in Subtasks :
      LET mine == {i \in DOMAIN caller.collected : caller.collected[i].subtask = s}
      IN  /\ \A i, j \in mine : i = j
          /\ \A i \in mine : caller.collected[i].err = worker[s].err
          /\ mine = {} => worker[s].err = "none" /\ worker[s].pc \in {"idle", "gone"}

(* A multi-agent run with all_succeed that returns no error had no worker  *)
(* that failed, although Wait hides cancellations and the loop drops what  *)
(* is queued after an error; and unless it was cancelled, every subtask of *)
(* every decomposition has run.                                            *)
SuccessMeansAllRan ==
  caller.pc = "returned" /\ caller.err = "none" /\ caller.strategy = "all_succeed" =>
    /\ \A s \in Subtasks : worker[s].err = "none"
    /\ ended # "canceled" =>
         \A s \in SubtasksOf(caller.list) :
           \E r \in ToSet(caller.collected) : r.subtask = s /\ r.err = "none"

(* What the command collects and the error it returns tell how it went.    *)
OutcomeIsHonest == OneResultPerWorker /\ SuccessMeansAllRan

(* The run returns, whatever the workers return and whenever the context   *)
(* ends, although the goroutines that get no slot deliver no result.       *)
CallReturns == <>(caller.pc = "returned")
=============================================================================
