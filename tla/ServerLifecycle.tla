--------------------------- MODULE ServerLifecycle ---------------------------
(***************************************************************************)
(* The process of cmd/server/server.go around its session manager: HTTP    *)
(* handlers that start sessions and stream their events, a signal, the     *)
(* shutdown of the HTTP server and then of the manager, and the exit of    *)
(* the process, which ends every goroutine where it stands.                *)
(***************************************************************************)
EXTENDS SessionManager

CONSTANT Main  \* the goroutine of serverApp.run; the only caller of Shutdown

ASSUME MainAssumption == Callers = {Main}

VARIABLES
  srv,      \* where serverApp.run is
  exit,     \* how it returned
  posts,    \* sessions of POST handlers that have not called Start yet
  streams   \* actors followed by an open SSE handler

serverVars == <<srv, exit, posts, streams>>
allVars == <<vars, serverVars>>

Running == srv # "exited"

(* Types of the process's own state.                                       *)
ServerTypeOK ==
  /\ srv \in {"serving", "httpShutdown", "managerShutdown", "exited"}
  /\ exit \in {"none", "ok", "serveError", "httpTimeout", "managerError"}
  /\ posts \subseteq SessionIDs
  /\ streams \subseteq Actors

ServerInit ==
  /\ Init
  /\ srv = "serving"
  /\ exit = "none"
  /\ posts = {}
  /\ streams = {}

-----------------------------------------------------------------------------
(* HandleRun, HandleResume and the chat handlers: admitted while the       *)
(* listener is open, and left to finish once it is closed.                 *)
PostArrives(s) ==
  /\ srv = "serving"
  /\ posts' = posts \cup {s}
  /\ UNCHANGED <<vars, srv, exit, streams>>

PostStarts(s, a) ==
  /\ Running
  /\ s \in posts
  /\ Start(s, a)
  /\ posts' = posts \ {s}
  /\ UNCHANGED <<srv, exit, streams>>

(* The handler answers without a new actor: bad input, or Start refused.   *)
PostFails(s) ==
  /\ Running
  /\ s \in posts
  /\ posts' = posts \ {s}
  /\ UNCHANGED <<vars, srv, exit, streams>>

(* HandleStream finds the actor in the table and subscribes to it.         *)
StreamOpens(a) ==
  /\ srv = "serving"
  /\ a \in InTable
  /\ streams' = streams \cup {a}
  /\ UNCHANGED <<vars, srv, exit, posts>>

(* The handler returns when the actor's events have been closed ...        *)
StreamEnds(a) ==
  /\ Running
  /\ a \in streams
  /\ At(a, {"doneClosed", "exited"})
  /\ streams' = streams \ {a}
  /\ UNCHANGED <<vars, srv, exit, posts>>

(* ... or when the client goes away.                                       *)
ClientLeaves(a) ==
  /\ Running
  /\ a \in streams
  /\ streams' = streams \ {a}
  /\ UNCHANGED <<vars, srv, exit, posts>>

-----------------------------------------------------------------------------
ServeFails ==
  /\ srv = "serving"
  /\ srv' = "exited"
  /\ exit' = "serveError"
  /\ UNCHANGED <<vars, posts, streams>>

Signal ==
  /\ srv = "serving"
  /\ srv' = "httpShutdown"
  /\ UNCHANGED <<vars, exit, posts, streams>>

(* server.Shutdown returns nil once no handler is active.                  *)
HttpDrained ==
  /\ srv = "httpShutdown"
  /\ posts = {}
  /\ streams = {}
  /\ srv' = "managerShutdown"
  /\ UNCHANGED <<vars, exit, posts, streams>>

HttpTimeoutOfStreams ==
  /\ srv = "httpShutdown"
  /\ streams # {}
  /\ srv' = "exited"
  /\ exit' = "httpTimeout"
  /\ UNCHANGED <<vars, posts, streams>>

(* shutdownCtx ends first: run returns the error, and with it the process. *)
HttpTimeout ==
  /\ srv = "httpShutdown"
  /\ posts \cup streams # {}
  /\ srv' = "exited"
  /\ exit' = "httpTimeout"
  /\ UNCHANGED <<vars, posts, streams>>

ManagerErrorIgnored ==
  /\ srv = "managerShutdown"
  /\ down[Main].pc = "returned"
  /\ srv' = "exited"
  /\ exit' = "ok"
  /\ UNCHANGED <<vars, posts, streams>>

ManagerReturned ==
  /\ srv = "managerShutdown"
  /\ down[Main].pc = "returned"
  /\ srv' = "exited"
  /\ exit' = IF down[Main].ret = "nil" THEN "ok" ELSE "managerError"
  /\ UNCHANGED <<vars, posts, streams>>

MainStep == Signal \/ ServeFails \/ HttpDrained \/ HttpTimeout \/ ManagerReturned

-----------------------------------------------------------------------------
(* The steps of the manager's goroutines, and of Shutdown called by run.   *)
ActorStep(a) == Running /\ RunActor(a) /\ UNCHANGED serverVars

ManagerShutdownStep ==
  /\ srv = "managerShutdown"
  /\ ShutdownStep(Main)
  /\ UNCHANGED serverVars

ServerNext ==
  \/ MainStep
  \/ ManagerShutdownStep
  \/ \E s \in SessionIDs : PostArrives(s) \/ PostFails(s)
  \/ \E s \in SessionIDs, a \in Actors : PostStarts(s, a)
  \/ \E a \in Actors : StreamOpens(a) \/ StreamEnds(a) \/ ClientLeaves(a)
  \/ \E a \in Actors : ActorStep(a)

ServerSpec == ServerInit /\ [][ServerNext]_allVars

(* Fairness: goroutines are scheduled, runs return (Engine.Run has at most *)
(* MaxSteps iterations under the session deadline) and the shutdown        *)
(* context, which has a deadline, ends.  Handlers of POST requests need    *)
(* not return in time, clients need not leave, and nobody has to send a    *)
(* signal.                                                                 *)
ServerFairSpec ==
  /\ ServerSpec
  /\ \A a \in Actors : WF_allVars(ActorStep(a)) /\ WF_allVars(StreamEnds(a))
  /\ WF_allVars(HttpDrained)
  /\ WF_allVars(HttpTimeout)
  /\ WF_allVars(ManagerReturned)
  /\ WF_allVars(ManagerShutdownStep)

-----------------------------------------------------------------------------
(* The manager closes after the handlers, so a request accepted before the *)
(* signal is not turned away; and exit status zero means that every session *)
(* ended, stored its result and released its streams before the process    *)
(* went away.                                                              *)
CleanExitLosesNothing ==
  /\ ~accepting => posts = {}
  /\ exit = "ok" => Live = {} /\ posts = {} /\ streams = {}

(* After a signal the process comes to its end.                            *)
SignalLeadsToExit == srv = "httpShutdown" ~> srv = "exited"

(* Every session that was started comes to its end, its result stored and *)
(* its stream closed, unless the process goes away first.                  *)
StartedSessionsEnd ==
  \A a \in Actors : At(a, {"spawned"}) ~> At(a, {"exited"}) \/ ~Running
=============================================================================
