------------------------------ MODULE EngineRun ------------------------------
(***************************************************************************)
(* One run of Engine.Run (internal/runtime/runtime.go): plan, then act,    *)
(* observe and verify until an outcome is terminal or a budget is used up; *)
(* every step is stored, and the run ends by storing a status, announcing  *)
(* it with session_complete and returning it.                              *)
(*                                                                         *)
(* The model provider, the tools, the verifier, the memory and the store   *)
(* are the environment: each call may take long, during which the caller   *)
(* may cancel the context or the deadline may pass, and may fail.  Emit    *)
(* cannot fail here: the channel is closed only after Run has returned.    *)
(* A definition that stands right before another one and differs from it   *)
(* in one respect is a mistake the properties are tested against.          *)
(***************************************************************************)
EXTENDS Integers, Sequences, SequencesExt

CONSTANTS StepConfigs,  \* values of Engine.MaxSteps
          RetryConfigs  \* values of Engine.MaxRetries

ASSUME ConfigAssumption == StepConfigs \subseteq Int /\ RetryConfigs \subseteq Int

VARIABLES
  pc,          \* the call Run is about to make
  maxSteps, maxRetries,  \* the two limits as Run normalises them
  cancelled,   \* the context of the caller is cancelled
  expired,     \* the deadline of the session has passed
  stepIndex,   \* the loop variable
  retries,
  action,      \* the type of the action of this iteration
  steps,       \* the steps Run has gathered
  ending,      \* the status to end with and the error that caused it
  stored,      \* the store: status of the session, its steps, saved plans
  events,      \* what has been emitted
  lateTools,   \* history: tools executed after the cancellation
  result       \* the status of the returned Session ("": the zero Session) and the error

limits == <<maxSteps, maxRetries>>
context == <<cancelled, expired>>
loop == <<stepIndex, retries, action, steps>>
vars == <<pc, limits, context, loop, ending, stored, events, lateTools, result>>

-----------------------------------------------------------------------------
(* Errors: of the cancelled context; of a deadline, of the session or of   *)
(* the provider's own; the retry budget's; any other.                      *)
CtxErrors == {"canceled", "deadline"}
CallErrors == CtxErrors \cup {"other"}
Errors == CallErrors \cup {"nil", "retryBudget"}

ActionTypes == {"respond", "tool_call", "request_input", "complete"}
EndStatuses == {"blocked_input", "success", "interrupted", "verification_failed",
                "budget_exceeded", "fatal_error"}
(* Of a step: the verifier passed it, it did not, or it asks for input.    *)
Verdicts == {"passed", "rejected", "blocked"}
Step == [index : Int, verdict : Verdicts]
EventTypes == {"tool_start", "tool_end", "step_complete", "error"} \cup EndStatuses
Event == [type : EventTypes, step : Int]

(* The builtin max.                                                        *)
AtLeast(bound, n) == IF n < bound THEN bound ELSE n

(* session_complete carries the status, and stands for it here.            *)
Ev(type, step) == [type |-> type, step |-> step]

(* What a call that fails can return: only a cancelled context makes it    *)
(* return the error of one.                                                *)
Failures == {e \in CallErrors : e = "canceled" => cancelled}

Init ==
  /\ pc = "start"
  /\ maxSteps \in {AtLeast(1, n) : n \in StepConfigs}
  /\ maxRetries \in {AtLeast(0, n) : n \in RetryConfigs}
  /\ cancelled = FALSE
  /\ expired = FALSE
  /\ stepIndex = 0
  /\ retries = 0
  /\ action = "respond"
  /\ steps = <<>>
  /\ ending = [status |-> "", cause |-> "nil"]
  /\ stored = [status |-> "", steps |-> <<>>, plans |-> 0]
  /\ events = <<>>
  /\ lateTools = 0
  /\ result = [status |-> "", err |-> "nil"]

-----------------------------------------------------------------------------
(* The environment of a run.                                               *)
Cancel ==
  /\ pc # "returned"
  /\ ~cancelled
  /\ cancelled' = TRUE
  /\ UNCHANGED <<pc, limits, expired, loop, ending, stored, events, lateTools, result>>

(* The deadline is computed after the first plan.                          *)
Expire ==
  /\ stepIndex > 0
  /\ pc # "returned"
  /\ ~expired
  /\ expired' = TRUE
  /\ UNCHANGED <<pc, limits, cancelled, loop, ending, stored, events, lateTools, result>>

-----------------------------------------------------------------------------
Return(status, err) ==
  /\ pc' = "returned"
  /\ result' = [status |-> status, err |-> err]

(* Run has decided how to end: failSession, or a terminal outcome.         *)
EndWith(status, cause) ==
  /\ pc' = "ending"
  /\ ending' = [status |-> status, cause |-> cause]

EndFatal(cause) == EndWith("fatal_error", cause)

IterationRetried(err) ==
  /\ IF err = "deadline" THEN pc' = "head" /\ ending' = ending
     ELSE EndWith(IF err = "canceled" THEN "interrupted" ELSE "fatal_error", err)
  /\ UNCHANGED <<limits, context, loop, stored, events, lateTools, result>>

(* How an error of executeIteration ends the run.                          *)
IterationFails(err) ==
  /\ EndWith(IF err \in CtxErrors THEN "interrupted" ELSE "fatal_error", err)
  /\ UNCHANGED <<limits, context, loop, stored, events, lateTools, result>>

SaveRunning ==
  /\ pc = "start"
  /\ \/ /\ pc' = "planning"
        /\ stored' = [stored EXCEPT !.status = "running"]
        /\ result' = result
     \/ /\ Return("", "other")
        /\ stored' = stored
  /\ UNCHANGED <<limits, context, loop, ending, events, lateTools>>

(* createPlan: recall, CreatePlan, SavePlan.  It runs under the context of *)
(* the caller, not under the deadline.  The first plan is announced as     *)
(* step 0, a later one with the number of the step it is for.              *)
PlanSaved ==
  /\ pc = "planning"
  /\ stored' = [stored EXCEPT !.plans = @ + 1]
  /\ events' = Append(events, Ev("step_complete",
                                 IF stepIndex = 0 THEN 0 ELSE Len(steps) + 1))
  /\ stepIndex' = stepIndex + 1
  /\ pc' = "head"
  /\ UNCHANGED <<limits, context, retries, action, steps, ending, lateTools, result>>

PlanFails(err) ==
  /\ pc = "planning"
  /\ EndFatal(err)
  /\ UNCHANGED <<limits, context, loop, stored, events, lateTools, result>>

IterateOnDeadlineOnly ==
  /\ pc = "head"
  /\ IF expired THEN EndWith("interrupted", "deadline")
     ELSE pc' = "acting" /\ ending' = ending
  /\ UNCHANGED <<limits, context, loop, stored, events, lateTools, result>>

(* The checks at the head of the loop: the context, then the deadline.     *)
Iterate ==
  /\ pc = "head"
  /\ IF cancelled THEN EndWith("interrupted", "canceled")
     ELSE IF expired THEN EndWith("interrupted", "deadline")
     ELSE pc' = "acting" /\ ending' = ending
  /\ UNCHANGED <<limits, context, loop, stored, events, lateTools, result>>

-----------------------------------------------------------------------------
(* executeIteration, call by call.                                         *)
NextAction(type) ==
  /\ pc = "acting"
  /\ action' = type
  /\ IF type = "tool_call"
     THEN pc' = "executing" /\ events' = Append(events, Ev("tool_start", Len(steps) + 1))
     ELSE pc' = "observing" /\ events' = events
  /\ UNCHANGED <<limits, context, stepIndex, retries, steps, ending, stored, lateTools, result>>

(* Tools.Execute; its error becomes part of the result of the tool.        *)
ExecuteTool ==
  /\ pc = "executing"
  /\ events' = Append(events, Ev("tool_end", Len(steps) + 1))
  /\ lateTools' = IF cancelled THEN lateTools + 1 ELSE lateTools
  /\ pc' = "observing"
  /\ UNCHANGED <<limits, context, loop, ending, stored, result>>

Observe ==
  /\ pc = "observing"
  /\ events' = Append(events, Ev("step_complete", Len(steps) + 1))
  /\ pc' = "verifying"
  /\ UNCHANGED <<limits, context, loop, ending, stored, lateTools, result>>

(* verifyIteration.  A request for input is never put to the verifier.     *)
Verify(verdict) ==
  /\ pc = "verifying"
  /\ (action = "request_input") <=> (verdict = "blocked")
  /\ steps' = Append(steps, [index |-> stepIndex, verdict |-> verdict])
  /\ pc' = "recording"
  /\ UNCHANGED <<limits, context, stepIndex, retries, action, ending, stored, events, lateTools, result>>

IterationCallFails(err) ==
  /\ \/ pc \in {"acting", "observing"}
     \/ pc = "verifying" /\ action # "request_input"
  /\ IterationFails(err)

-----------------------------------------------------------------------------
AppendStepIgnored ==
  /\ pc = "recording"
  /\ pc' = "remembering"
  /\ UNCHANGED <<limits, context, loop, ending, stored, events, lateTools, result>>

(* recordStep: AppendStep, whose context cannot be cancelled, and then     *)
(* Memory.Remember under the context of the caller.                        *)
AppendStep ==
  /\ pc = "recording"
  /\ stored' = [stored EXCEPT !.steps = Append(@, Last(steps))]
  /\ pc' = "remembering"
  /\ UNCHANGED <<limits, context, loop, ending, events, lateTools, result>>

AppendStepFails ==
  /\ pc = "recording"
  /\ EndFatal("other")
  /\ UNCHANGED <<limits, context, loop, stored, events, lateTools, result>>

Remember ==
  /\ pc = "remembering"
  /\ pc' = "deciding"
  /\ UNCHANGED <<limits, context, loop, ending, stored, events, lateTools, result>>

RememberFails(err) ==
  /\ pc = "remembering"
  /\ EndFatal(err)
  /\ UNCHANGED <<limits, context, loop, stored, events, lateTools, result>>

StepsUsedUp == stepIndex = maxSteps

RetriesUsedUpLate == retries > maxRetries
RetriesUsedUp == retries + 1 > maxRetries

(* decideIterationOutcome, and the budgets when it is not terminal: the    *)
(* last permitted step ends the run before the retry is counted.           *)
Decide ==
  /\ pc = "deciding"
  /\ \/ /\ action = "request_input"
        /\ EndWith("blocked_input", "nil")
        /\ retries' = retries
     \/ /\ action # "request_input"
        /\ Last(steps).verdict = "passed"
        /\ EndWith("success", "nil")
        /\ retries' = retries
     \/ /\ Last(steps).verdict # "passed" /\ action # "request_input"
        /\ StepsUsedUp
        /\ EndWith("budget_exceeded", "nil")
        /\ retries' = retries
     \/ /\ Last(steps).verdict # "passed" /\ action # "request_input"
        /\ ~StepsUsedUp
        /\ retries' = retries + 1
        /\ IF RetriesUsedUp THEN EndWith("verification_failed", "retryBudget")
           ELSE pc' = "planning" /\ ending' = ending
  /\ UNCHANGED <<limits, context, stepIndex, action, steps, stored, events, lateTools, result>>

-----------------------------------------------------------------------------
SaveEndingIgnored ==
  /\ pc = "ending"
  /\ pc' = "announcing"
  /\ UNCHANGED <<limits, context, loop, ending, stored, events, lateTools, result>>

(* SaveSession with the final status.  Its failure replaces the error, and *)
(* the zero Session the session.                                           *)
SaveEnding ==
  /\ pc = "ending"
  /\ stored' = [stored EXCEPT !.status = ending.status]
  /\ pc' = "announcing"
  /\ UNCHANGED <<limits, context, loop, ending, events, lateTools, result>>

SaveEndingFails ==
  /\ pc = "ending"
  /\ Return("", "other")
  /\ UNCHANGED <<limits, context, loop, ending, stored, events, lateTools>>

ErrorEvents == IF ending.cause = "nil" THEN <<>> ELSE <<Ev("error", Len(steps))>>

(* The error event, if there is an error, then session_complete.           *)
Announce ==
  /\ pc = "announcing"
  /\ events' = events \o ErrorEvents \o <<Ev(ending.status, 0)>>
  /\ Return(ending.status, ending.cause)
  /\ UNCHANGED <<limits, context, loop, ending, stored, lateTools>>

-----------------------------------------------------------------------------
Run ==
  \/ SaveRunning \/ PlanSaved \/ Iterate \/ ExecuteTool \/ Observe
  \/ \E type \in ActionTypes : NextAction(type)
  \/ \E verdict \in Verdicts : Verify(verdict)
  \/ AppendStep \/ AppendStepFails \/ Remember \/ Decide
  \/ \E err \in Failures : PlanFails(err) \/ IterationCallFails(err) \/ RememberFails(err)
  \/ SaveEnding \/ SaveEndingFails \/ Announce

Next == Run \/ Cancel \/ Expire

Spec == Init /\ [][Next]_vars

(* Every call of the environment returns, with a result or an error.       *)
FairSpec == Spec /\ WF_vars(Run)

-----------------------------------------------------------------------------
(* Types and limits: Run never starts more iterations than MaxSteps and    *)
(* never plans again once the retries are used up.                         *)
TypeOK ==
  /\ pc \in {"start", "planning", "head", "acting", "executing", "observing", "verifying",
            "recording", "remembering", "deciding", "ending", "announcing", "returned"}
  /\ maxSteps \in Int /\ maxRetries \in Int
  /\ cancelled \in BOOLEAN /\ expired \in BOOLEAN
  /\ stepIndex \in Nat /\ stepIndex <= maxSteps
  /\ retries \in Nat /\ retries <= maxRetries + 1
  /\ action \in ActionTypes
  /\ steps \in Seq(Step)
  /\ ending \in [status : EndStatuses \cup {""}, cause : Errors]
  /\ stored \in [status : EndStatuses \cup {"", "running"}, steps : Seq(Step), plans : Nat]
  /\ events \in Seq(Event)
  /\ lateTools \in Nat
  /\ result \in [status : EndStatuses \cup {""}, err : Errors]

AllRejected(s) == \A i \in DOMAIN s : s[i].verdict = "rejected"
EndsIn(s, verdict) == s # <<>> /\ AllRejected(Front(s)) /\ Last(s).verdict = verdict

(* The stored status is borne out by the stored steps: success by a last   *)
(* step that passed, blocked_input by one that asks, the two budgets by    *)
(* that many rejected steps, and the step budget wins when both are used   *)
(* up at once.                                                             *)
EndIsJustified ==
  /\ stored.status = "success" => EndsIn(stored.steps, "passed")
  /\ stored.status = "blocked_input" => EndsIn(stored.steps, "blocked")
  /\ stored.status \in {"interrupted", "budget_exceeded", "verification_failed"} =>
       AllRejected(stored.steps)
  /\ stored.status = "budget_exceeded" => Len(stored.steps) = maxSteps
  /\ stored.status = "verification_failed" =>
       Len(stored.steps) = maxRetries + 1 /\ Len(stored.steps) < maxSteps

(* No step is lost or stored twice: the stored steps are numbered from 1,  *)
(* one after the other, and are all the steps of the run, except for the   *)
(* last one when it could not be stored, which ends the run.               *)
StoreKeepsTheRun ==
  /\ \A i \in DOMAIN stored.steps : stored.steps[i].index = i
  /\ IsPrefix(stored.steps, steps)
  /\ Len(steps) <= Len(stored.steps) + 1
  /\ stored.status \notin {"", "running", "fatal_error"} => stored.steps = steps
  /\ pc \in {"planning", "head", "acting", "deciding"} => stored.steps = steps

(* What watchers of the stream are told last is what the store holds and   *)
(* what the caller gets: session_complete is the last event, follows the   *)
(* SaveSession of its status, and is missing only if that failed.          *)
CompleteTellsTheTruth ==
  /\ \A i \in DOMAIN events : events[i].type \in EndStatuses =>
       /\ i = Len(events)
       /\ pc = "returned"
       /\ events[i].type = stored.status
       /\ events[i].type = result.status
  /\ pc = "returned" /\ (events = <<>> \/ Last(events).type \notin EndStatuses) =>
       result.status = "" /\ stored.status \in {"", "running"} /\ result.err = "other"

(* A cancelled run does not go on working: at most the tool call that had  *)
(* already been decided on is still executed.                              *)
CancelStopsTools == lateTools <= 1

(* The budgets end every run whose calls return.                           *)
RunReturns == <>(pc = "returned")
=============================================================================
