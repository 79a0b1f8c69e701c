--------------------------- MODULE SessionManager ---------------------------
(***************************************************************************)
(* The session manager of internal/runtime/session_manager.go: a table of  *)
(* session actors behind one RWMutex, an active-session cap, a WaitGroup   *)
(* that counts actor goroutines, and Shutdown, which stops admission and   *)
(* waits for, or cancels, what still runs.                                 *)
(*                                                                         *)
(* An element of Actors is one *SessionActor together with its goroutine   *)
(* runActor: Start allocates a new one each time, so a session that is run *)
(* again gets another actor.  A step of an actor is one critical section,  *)
(* or one call that other goroutines can observe, of runActor.             *)
(*                                                                         *)
(* Definitions that stand right before another one and differ from it in   *)
(* one respect (AdmittedOverCap, WaitOnActiveCount, ...) are the mistakes  *)
(* that the properties below are tested against; no action uses them.      *)
(***************************************************************************)
EXTENDS Integers, FiniteSets

CONSTANTS SessionIDs,  \* session identifiers used by callers of Start
          Actors,      \* actor objects; TLC's bound on the number of starts
          Callers,     \* goroutines that call Shutdown
          Cap,         \* SessionManagerOptions.ActiveSessionCap
          NoActor      \* "no entry" in the table

(* NewSessionManager replaces a cap that is not positive by the default.   *)
ASSUME CapAssumption == Cap \in Nat \ {0}
ASSUME NoActorAssumption == NoActor \notin Actors

VARIABLES
  actors,       \* m.actors: session id -> actor in the table, or NoActor
  activeCount,  \* m.activeCount
  accepting,    \* m.accepting
  wg,           \* the counter of m.wg
  act,          \* the actors: position of the goroutine and guarded fields
  down          \* the calls of Shutdown

vars == <<actors, activeCount, accepting, wg, act, down>>

-----------------------------------------------------------------------------
TerminalStates == {"completed", "failed", "cancelled"}
ActorStates == {"pending", "running"} \cup TerminalStates

(* Where runActor is.  "spawned": Start has returned, nothing ran yet;     *)
(* "attached": attachCancel ran; "running": in NewRunner or Run;           *)
(* "finished": the result is recorded; "removed": out of the table;        *)
(* "persisted": PersistFinal returned; then the deferred calls, in order.  *)
Positions == {"free", "spawned", "attached", "running", "finished", "removed",
              "persisted", "doneClosed", "exited"}

Actor == [pc : Positions, sid : SessionIDs \cup {NoActor}, state : ActorStates,
          hasCancel : BOOLEAN, cancelled : BOOLEAN, ctxDone : BOOLEAN,
          finalized : BOOLEAN]

FreshActor == [pc |-> "free", sid |-> NoActor, state |-> "pending",
               hasCancel |-> FALSE, cancelled |-> FALSE, ctxDone |-> FALSE,
               finalized |-> FALSE]

(* A call of Shutdown.  "select": in the first select; "cancelling": in    *)
(* cancelAllActive; "drain": the receive of waitDone that nothing bounds;  *)
(* "select2": the second select.  branch is the case the first select took *)
(* and waitDone says that the goroutine blocked in m.wg.Wait has returned. *)
Call == [pc : {"idle", "select", "cancelling", "drain", "select2", "returned"},
         branch : {"none", "timer", "ctx"}, targets : SUBSET Actors,
         waitDone : BOOLEAN, ret : {"none", "nil", "ctxErr"}]

IdleCall == [pc |-> "idle", branch |-> "none", targets |-> {},
             waitDone |-> FALSE, ret |-> "none"]

At(a, positions) == act[a].pc \in positions
Started == {a \in Actors : ~At(a, {"free"})}
Live    == {a \in Actors : ~At(a, {"free", "exited"})}
InTable == {a \in Actors : At(a, {"spawned", "attached", "running", "finished"})}
Occupied == {s \in SessionIDs : actors[s] # NoActor}

(* What runner.Run can hand back: the class of the error and the status of *)
(* the returned session ("" when the zero Session is returned).            *)
RunErrors == {"nil", "ctx", "other"}
RunStatuses == {"", "pending", "running", "blocked_input", "success", "interrupted",
                "verification_failed", "budget_exceeded", "fatal_error"}
FailingStatuses == {"fatal_error", "verification_failed", "budget_exceeded"}

ClassifyActorState(status, runErr, cancelled) ==
  IF cancelled \/ runErr = "ctx" \/ status = "interrupted" THEN "cancelled"
  ELSE IF runErr # "nil" \/ status \in FailingStatuses THEN "failed"
  ELSE "completed"

-----------------------------------------------------------------------------
Init ==
  /\ actors = [s \in SessionIDs |-> NoActor]
  /\ activeCount = 0
  /\ accepting = TRUE
  /\ wg = 0
  /\ act = [a \in Actors |-> FreshActor]
  /\ down = [c \in Callers |-> IdleCall]

(* The three checks of Start, in order: closed, already active, limit.     *)
AdmittedOverCap(s) == accepting /\ actors[s] = NoActor
AdmittedWhenClosed(s) == actors[s] = NoActor /\ activeCount < Cap

Admitted(s) ==
  /\ accepting
  /\ actors[s] = NoActor
  /\ activeCount < Cap

(* Start under m.mu.  A refused call returns its error and changes         *)
(* nothing, so it is no step.                                              *)
Start(s, a) ==
  /\ At(a, {"free"})
  /\ Admitted(s)
  /\ actors' = [actors EXCEPT ![s] = a]
  /\ activeCount' = activeCount + 1
  /\ wg' = wg + 1
  /\ act' = [act EXCEPT ![a].pc = "spawned", ![a].sid = s]
  /\ UNCHANGED <<accepting, down>>

AttachCancel(a) ==
  /\ At(a, {"spawned"})
  /\ act' = [act EXCEPT ![a].pc = "attached", ![a].hasCancel = TRUE]
  /\ UNCHANGED <<actors, activeCount, accepting, wg, down>>

TransitionUnlessCancelled(a) ==
  /\ At(a, {"attached"})
  /\ ~act[a].cancelled
  /\ act' = [act EXCEPT ![a].pc = "running", ![a].state = "running"]
  /\ UNCHANGED <<actors, activeCount, accepting, wg, down>>

TransitionToRunning(a) ==
  /\ At(a, {"attached"})
  /\ act' = [act EXCEPT ![a].pc = "running", ![a].state = "running"]
  /\ UNCHANGED <<actors, activeCount, accepting, wg, down>>

(* actor.finish, under a.mu, with what the runner returned.                *)
Finish(a, status, runErr) ==
  /\ At(a, {"running"})
  /\ act' = [act EXCEPT
       ![a].pc = "finished",
       ![a].state = ClassifyActorState(status, runErr, act[a].cancelled),
       ![a].finalized = TRUE]
  /\ UNCHANGED <<actors, activeCount, accepting, wg, down>>

(* The factory fails, or returns a nil runner.                             *)
NewRunnerFails(a) == Finish(a, "", "other")

RunReturns(a) ==
  \E status \in RunStatuses, runErr \in RunErrors : Finish(a, status, runErr)

(* First half of completeActor, under m.mu: the entry is deleted by id.    *)
RemoveActor(a) ==
  /\ At(a, {"finished"})
  /\ actors' = [actors EXCEPT ![act[a].sid] = NoActor]
  /\ activeCount' = IF activeCount > 0 THEN activeCount - 1 ELSE activeCount
  /\ act' = [act EXCEPT ![a].pc = "removed"]
  /\ UNCHANGED <<accepting, wg, down>>

(* Second half of completeActor, outside the lock.                         *)
PersistFinal(a) ==
  /\ At(a, {"removed"})
  /\ act' = [act EXCEPT ![a].pc = "persisted"]
  /\ UNCHANGED <<actors, activeCount, accepting, wg, down>>

(* The deferred calls cancel, events.Close and close(done), none of which  *)
(* the manager waits for, and then wg.Done.                                *)
CloseDone(a) ==
  /\ At(a, {"persisted"})
  /\ act' = [act EXCEPT ![a].pc = "doneClosed", ![a].ctxDone = TRUE]
  /\ UNCHANGED <<actors, activeCount, accepting, wg, down>>

WgDone(a) ==
  /\ At(a, {"doneClosed"})
  /\ act' = [act EXCEPT ![a].pc = "exited"]
  /\ wg' = wg - 1
  /\ UNCHANGED <<actors, activeCount, accepting, down>>

MarkOnlyAttached(a) ==
  act' = [act EXCEPT ![a].cancelled = @ \/ act[a].hasCancel,
                     ![a].ctxDone = @ \/ act[a].hasCancel]

MarkRewritesState(a) ==
  act' = [act EXCEPT ![a].cancelled = TRUE, ![a].state = "cancelled",
                     ![a].ctxDone = @ \/ act[a].hasCancel]

(* markCancelled: the flag is set and a.cancel read under a.mu; a nil      *)
(* cancel function is skipped, so the run context stays live.              *)
MarkCancelled(a) ==
  act' = [act EXCEPT ![a].cancelled = TRUE,
                     ![a].ctxDone = @ \/ act[a].hasCancel]

(* SessionActor.Cancel, by whoever got the actor from Start or Lookup.     *)
Cancel(a) ==
  /\ a \in Started
  /\ MarkCancelled(a)
  /\ UNCHANGED <<actors, activeCount, accepting, wg, down>>

-----------------------------------------------------------------------------
ShutdownBegin(c) ==
  /\ down[c].pc = "idle"
  /\ accepting' = FALSE
  /\ down' = [down EXCEPT ![c].pc = "select"]
  /\ UNCHANGED <<actors, activeCount, wg, act>>

WaitOnActiveCount(c) ==
  /\ down[c].pc # "idle"
  /\ ~down[c].waitDone
  /\ activeCount = 0
  /\ down' = [down EXCEPT ![c].waitDone = TRUE]
  /\ UNCHANGED <<actors, activeCount, accepting, wg, act>>

(* The goroutine of Shutdown that is blocked in m.wg.Wait.                 *)
WaitReturns(c) ==
  /\ down[c].pc # "idle"
  /\ ~down[c].waitDone
  /\ wg = 0
  /\ down' = [down EXCEPT ![c].waitDone = TRUE]
  /\ UNCHANGED <<actors, activeCount, accepting, wg, act>>

ShutdownDrained(c) ==
  /\ down[c].pc \in {"select", "select2", "drain"}
  /\ down[c].waitDone
  /\ down' = [down EXCEPT ![c].pc = "returned",
                          ![c].ret = IF down[c].pc = "drain" THEN "ctxErr" ELSE "nil"]
  /\ UNCHANGED <<actors, activeCount, accepting, wg, act>>

(* timeout.C or ctx.Done is ready in the first select: cancelAllActive     *)
(* copies the table under the read lock and marks the copies one by one.   *)
CancelAllBegin(c, branch) ==
  /\ down[c].pc = "select"
  /\ down' = [down EXCEPT ![c].pc = "cancelling", ![c].branch = branch,
                          ![c].targets = {actors[s] : s \in Occupied}]
  /\ UNCHANGED <<actors, activeCount, accepting, wg, act>>

CancelNext(c, a) ==
  /\ down[c].pc = "cancelling"
  /\ a \in down[c].targets
  /\ MarkCancelled(a)
  /\ down' = [down EXCEPT ![c].targets = @ \ {a}]
  /\ UNCHANGED <<actors, activeCount, accepting, wg>>

CancelAllEnd(c) ==
  /\ down[c].pc = "cancelling"
  /\ down[c].targets = {}
  /\ down' = [down EXCEPT ![c].pc = IF down[c].branch = "ctx" THEN "drain" ELSE "select2"]
  /\ UNCHANGED <<actors, activeCount, accepting, wg, act>>

(* ctx.Done in the second select: Shutdown gives up waiting.               *)
ShutdownGivesUp(c) ==
  /\ down[c].pc = "select2"
  /\ down' = [down EXCEPT ![c].pc = "returned", ![c].ret = "ctxErr"]
  /\ UNCHANGED <<actors, activeCount, accepting, wg, act>>

-----------------------------------------------------------------------------
RunActor(a) ==
  \/ AttachCancel(a) \/ TransitionToRunning(a)
  \/ NewRunnerFails(a) \/ RunReturns(a)
  \/ RemoveActor(a) \/ PersistFinal(a)
  \/ CloseDone(a) \/ WgDone(a)

ShutdownStep(c) ==
  \/ ShutdownBegin(c) \/ WaitReturns(c) \/ ShutdownDrained(c)
  \/ \E branch \in {"timer", "ctx"} : CancelAllBegin(c, branch)
  \/ \E a \in Actors : CancelNext(c, a)
  \/ CancelAllEnd(c) \/ ShutdownGivesUp(c)

Next ==
  \/ \E s \in SessionIDs, a \in Actors : Start(s, a)
  \/ \E a \in Actors : RunActor(a) \/ Cancel(a)
  \/ \E c \in Callers : ShutdownStep(c)

Spec == Init /\ [][Next]_vars

(***************************************************************************)
(* Fairness.  Every goroutine is scheduled, that of Shutdown too; nobody   *)
(* has to call Shutdown or Cancel.                                         *)
(***************************************************************************)
ShutdownFairness(c) ==
  /\ WF_vars(WaitReturns(c))
  /\ WF_vars(ShutdownDrained(c))
  /\ WF_vars(\E a \in Actors : CancelNext(c, a))
  /\ WF_vars(CancelAllEnd(c))

(* Fairness for runners that only answer to their context: goroutines are  *)
(* scheduled, a runner whose context is never cancelled may run for ever,  *)
(* and a shutdown that waits meets its timer or the end of its context.    *)
CooperativeSpec ==
  /\ Spec
  /\ \A a \in Actors :
       /\ WF_vars(AttachCancel(a) \/ TransitionToRunning(a))
       /\ WF_vars(act[a].ctxDone /\ RunReturns(a))
       /\ WF_vars(~At(a, {"running"}) /\ RunActor(a))
  /\ \A c \in Callers :
       /\ ShutdownFairness(c)
       /\ WF_vars(\E branch \in {"timer", "ctx"} : CancelAllBegin(c, branch))
       /\ WF_vars(ShutdownGivesUp(c))

-----------------------------------------------------------------------------
(* Types of the manager's fields; the state of an actor is final exactly   *)
(* when finish has recorded a result.                                      *)
TypeOK ==
  /\ actors \in [SessionIDs -> Actors \cup {NoActor}]
  /\ activeCount \in Nat
  /\ accepting \in BOOLEAN
  /\ wg \in Int
  /\ act \in [Actors -> Actor]
  /\ down \in [Callers -> Call]
  /\ \A a \in Actors : act[a].finalized <=> act[a].state \in TerminalStates

(* The table, the counter and the goroutines agree: an entry is the actor  *)
(* started for that session and not yet removed, each such actor has its   *)
(* entry (so a session never has two), and activeCount, which the cap is   *)
(* compared with, is the number of entries.                                *)
TableInv ==
  /\ \A s \in Occupied : actors[s] \in InTable /\ act[actors[s]].sid = s
  /\ \A a \in InTable : act[a].sid \in SessionIDs /\ actors[act[a].sid] = a
  /\ activeCount = Cardinality(Occupied)
  /\ activeCount <= Cap

(* Shutdown that returns nil has drained the manager: no goroutine of an   *)
(* actor is left, so every result has been handed to PersistFinal, and     *)
(* none can be started afterwards.                                         *)
DrainedMeansGone ==
  \A c \in Callers : down[c].ret = "nil" => Live = {} /\ ~accepting

(* When Shutdown stops marking actors and waits, every actor still in the  *)
(* table has been marked: none slipped in behind the copy of the table     *)
(* that cancelAllActive works on.                                          *)
CancelAllReachesEveryone ==
  \A c \in Callers : down[c].pc \in {"drain", "select2"} =>
    \A a \in InTable : act[a].cancelled

(* The WaitGroup rule Go leaves to the program: the counter does not grow  *)
(* once a Wait of Shutdown may have begun.  (Start against Shutdown)       *)
WaitGroupNeverGrows ==
  [][(\E c \in Callers : down[c].pc # "idle") => wg' <= wg]_vars

(* A recorded result is final: neither a late Cancel nor a shutdown that   *)
(* marks an actor after it finished changes the state that was recorded,   *)
(* and a marked actor that finishes later is recorded as cancelled.        *)
ResultsAreFinal ==
  [][\A a \in Actors :
       /\ act[a].finalized => act'[a].state = act[a].state
       /\ ~act[a].finalized /\ act'[a].finalized /\ act[a].cancelled
            => act'[a].state = "cancelled"]_vars

(* Shutdown returns.                                                       *)
ShutdownReturns ==
  \A c \in Callers : down[c].pc = "select" ~> down[c].pc = "returned"

(* The manager implements the slots: the table is the slots, and a run is  *)
(* ending from RemoveActor until its wg.Done.                              *)
Slots == INSTANCE SessionSlots WITH
           slot <- actors,
           ending <- Live \ InTable,
           open <- accepting,
           drained <- \E c \in Callers : down[c].waitDone

(* Refinement of SessionSlots.                                             *)
ImplementsSlots == Slots!Spec
=============================================================================
