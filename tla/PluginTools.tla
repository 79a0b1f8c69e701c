---------------------------- MODULE PluginTools ----------------------------
(***************************************************************************)
(* Tool plugins: the PluginManager (internal/plugin/manager.go) and the    *)
(* external processes it talks to over JSON-RPC on stdin and stdout        *)
(* (internal/plugin/external.go).  Callers execute tools through the       *)
(* managed wrapper, which counts failures, reloads a dead plugin and tries *)
(* once more; administrators load, reload and close them.                  *)
(*                                                                         *)
(* A plugin process is up or gone; the two handshake requests of a load    *)
(* are one step: nobody else can reach a tool that is being loaded.        *)
(* A definition that stands right before another one and differs from it   *)
(* in one respect is a mistake the properties are tested against.          *)
(***************************************************************************)
EXTENDS Naturals, FiniteSets

CONSTANTS Callers, Admins, Names, NoOne,
          MaxProcs,  \* TLC's bound on the processes started
          MaxOps     \* TLC's bound on the operations

Actors == Callers \cup Admins
NoTool == 0
Tools == 1 .. MaxProcs     \* tool instances in the order they are started

ASSUME ActorsAssumption == Admins \cap Callers = {} /\ NoOne \notin Actors
ASSUME BoundsAssumption == MaxProcs \in Nat \ {0} /\ MaxOps \in Nat

VARIABLES
  tool,   \* the ExternalPluginTool instances with their processes
  mgr,    \* the PluginManager: its lock and, by name, its maps
  act,    \* what each actor is doing
  left,   \* operations that may still begin
  replaced, \* history: tools whose entry a second Load of their name overwrote
  crashed \* the host died of a nil pointer

vars == <<tool, mgr, act, left, replaced, crashed>>

-----------------------------------------------------------------------------
NoReply == [id |-> 0, kind |-> "none"]
Idle == [pc |-> "idle", op |-> "none", name |-> NoOne, k |-> NoTool, new |-> NoTool,
         try |-> 0, why |-> "none", ok |-> TRUE, rest |-> {}, request |-> 0]

NewTool == [proc |-> "none", name |-> NoOne, closed |-> FALSE, stdin |-> TRUE,
            rpc |-> NoOne, id |-> 0, out |-> NoReply]

(* Nothing is loaded, or buildPluginExecutor has loaded one tool.          *)
Init ==
  /\ \E loaded \in SUBSET {1}, n \in Names :
       /\ tool = [k \in Tools |-> IF k \in loaded
                                 THEN [NewTool EXCEPT !.proc = "up", !.name = n]
                                 ELSE NewTool]
       /\ mgr = [mu |-> NoOne,
                 tracked |-> [m \in Names |-> IF m = n /\ loaded # {} THEN 1 ELSE NoTool],
                 failures |-> [m \in Names |-> 0],
                 unavailable |-> [m \in Names |-> FALSE]]
  /\ act = [a \in Actors |-> Idle]
  /\ left = MaxOps
  /\ replaced = {}
  /\ crashed = FALSE

At(a, pcs) == act[a].pc \in pcs /\ ~crashed
Alive(k) == tool[k].proc = "up"
Free == mgr.mu = NoOne
Return(a) == act' = [act EXCEPT ![a] = Idle]
Goto(a, pc) == act' = [act EXCEPT ![a].pc = pc]
Killed(t) == [t EXCEPT !.proc = "gone", !.closed = TRUE, !.rpc = NoOne, !.out = NoReply]

-----------------------------------------------------------------------------
(* The plugin process.  It writes what it likes: a result or an error for  *)
(* the current request, once more a result for the one before, or, with id *)
(* 0, something that is no response at all.                                *)
Answer(k) ==
  /\ Alive(k) /\ ~crashed
  /\ tool[k].out = NoReply /\ tool[k].id > 0
  /\ \E reply \in {[id |-> tool[k].id, kind |-> "ok"], [id |-> tool[k].id, kind |-> "error"],
                  [id |-> tool[k].id - 1, kind |-> "ok"]} :
       tool' = [tool EXCEPT ![k].out = reply]
  /\ UNCHANGED <<mgr, act, left, replaced, crashed>>

Die(k) ==
  /\ Alive(k) /\ ~crashed
  /\ tool' = [tool EXCEPT ![k].proc = "gone"]
  /\ UNCHANGED <<mgr, act, left, replaced, crashed>>

(* A process whose stdin is closed by the host ends.                       *)
EndOfInput(k) ==
  /\ Alive(k) /\ ~tool[k].stdin /\ ~crashed
  /\ tool' = [tool EXCEPT ![k].proc = "gone"]
  /\ UNCHANGED <<mgr, act, left, replaced, crashed>>

-----------------------------------------------------------------------------
(* callInternal, for tool.execute ("queued", "await") and for the shutdown *)
(* of Close ("shutQueued", "shutAwait").                                   *)
Queued == {"queued", "shutQueued"}
Awaiting == {"await", "shutAwait"}

Failing(a) == IF act[a].pc \in {"queued", "await"}
              THEN act' = [act EXCEPT ![a].pc = "failed", ![a].request = 0]
              ELSE act' = [act EXCEPT ![a].pc = "closed", ![a].request = 0, ![a].ok = FALSE]

(* The request waits for rpcMu.  stdin is nil once a Close is through: the *)
(* host panics.  A write to a process that is gone breaks the tool.        *)
Send(a) ==
  LET k == act[a].k IN
  /\ At(a, Queued)
  /\ tool[k].rpc = NoOne
  /\ CASE ~tool[k].stdin ->
            crashed' = TRUE /\ UNCHANGED <<tool, act>>
       [] tool[k].stdin /\ tool[k].proc # "up" ->
            /\ tool' = [tool EXCEPT ![k].closed = TRUE]
            /\ Failing(a)
            /\ UNCHANGED crashed
       [] OTHER ->
            /\ tool' = [tool EXCEPT ![k].rpc = a, ![k].id = @ + 1]
            /\ act' = [act EXCEPT ![a].request = tool[k].id + 1,
                         ![a].pc = IF @ = "queued" THEN "await" ELSE "shutAwait"]
            /\ UNCHANGED crashed
  /\ UNCHANGED <<mgr, left, replaced>>

(* A reply with another id, garbage, or the end of stdout breaks the tool; *)
(* an error reply does not.                                                *)
Receive(a) ==
  LET k == act[a].k  reply == tool[k].out IN
  /\ At(a, Awaiting)
  /\ reply # NoReply \/ tool[k].proc = "gone"
  /\ IF reply.id = act[a].request /\ reply.kind = "ok"
     THEN /\ tool' = [tool EXCEPT ![k].rpc = NoOne, ![k].out = NoReply]
          /\ IF act[a].pc = "await"
             THEN act' = [act EXCEPT ![a].pc = "answered"]
             ELSE act' = [act EXCEPT ![a].pc = "hangup", ![a].request = 0]
     ELSE /\ IF reply.id = act[a].request /\ reply.kind = "error" /\ act[a].pc = "await"
             THEN tool' = [tool EXCEPT ![k].rpc = NoOne, ![k].out = NoReply]
             ELSE tool' = [tool EXCEPT ![k] = Killed(@)]
          /\ Failing(a)
  /\ UNCHANGED <<mgr, left, replaced, crashed>>

TimeoutLeavesProcess(a) ==
  /\ At(a, Awaiting)
  /\ tool' = [tool EXCEPT ![act[a].k].closed = TRUE, ![act[a].k].rpc = NoOne]
  /\ Failing(a)
  /\ UNCHANGED <<mgr, left, replaced, crashed>>

(* The deadline of the call, or its cancellation; the process is killed.   *)
Timeout(a) ==
  /\ At(a, Awaiting)
  /\ tool' = [tool EXCEPT ![act[a].k] = Killed(@)]
  /\ Failing(a)
  /\ UNCHANGED <<mgr, left, replaced, crashed>>

-----------------------------------------------------------------------------
(* Execute: a closed or dead tool, or a cancelled context, is refused      *)
(* before anything is sent.                                                *)
Enter(a) ==
  LET k == act[a].k IN
  /\ At(a, {"enter"})
  /\ \/ Goto(a, "failed")
     \/ ~tool[k].closed /\ tool[k].proc # "gone" /\ Goto(a, "queued")
  /\ UNCHANGED <<tool, mgr, left, replaced, crashed>>

(* Close: a tool that is closed or broken already is left as it is.        *)
Close(a) ==
  LET k == act[a].k IN
  /\ At(a, {"close"})
  /\ tool' = [tool EXCEPT ![k].closed = TRUE]
  /\ act' = [act EXCEPT ![a].ok = TRUE,
               ![a].pc = CASE tool[k].closed -> "closed"
                           [] ~tool[k].closed /\ tool[k].proc = "gone" -> "hangup"
                           [] OTHER -> "shutQueued"]
  /\ UNCHANGED <<mgr, left, replaced, crashed>>

(* closeStdin, and then wait for the process, without a deadline.          *)
CloseStdin(a) ==
  /\ At(a, {"hangup"})
  /\ tool' = [tool EXCEPT ![act[a].k].stdin = FALSE]
  /\ Goto(a, "exiting")
  /\ UNCHANGED <<mgr, left, replaced, crashed>>

WaitExit(a) ==
  /\ At(a, {"exiting"})
  /\ tool[act[a].k].proc = "gone"
  /\ Goto(a, "closed")
  /\ UNCHANGED <<tool, mgr, left, replaced, crashed>>

-----------------------------------------------------------------------------
(* executeWithRecovery.  Every access to the maps of the manager waits for *)
(* m.mu, which a reload holds from its first look to its last write.       *)
Call(a, n) ==
  /\ At(a, {"idle"}) /\ a \in Callers /\ left > 0
  /\ left' = left - 1
  /\ act' = [act EXCEPT ![a] = [Idle EXCEPT !.pc = "lookup", !.op = "execute",
                                            !.name = n, !.try = 1]]
  /\ UNCHANGED <<tool, mgr, replaced, crashed>>

Lookup(a) ==
  LET n == act[a].name IN
  /\ At(a, {"lookup"}) /\ Free
  /\ IF mgr.unavailable[n] \/ mgr.tracked[n] = NoTool
     THEN Return(a)
     ELSE act' = [act EXCEPT ![a].pc = "enter", ![a].k = mgr.tracked[n]]
  /\ UNCHANGED <<tool, mgr, left, replaced, crashed>>

Succeed(a) ==
  LET n == act[a].name IN
  /\ At(a, {"answered"}) /\ Free
  /\ mgr' = [mgr EXCEPT !.failures[n] = 0, !.unavailable[n] = FALSE]
  /\ Return(a)
  /\ UNCHANGED <<tool, left, replaced, crashed>>

(* The second failure in a row marks the tool, in a critical section of    *)
(* its own; the first one of a first try leads to the health check.        *)
Count(a) ==
  LET n == act[a].name IN
  /\ At(a, {"failed"}) /\ Free
  /\ mgr' = [mgr EXCEPT !.failures[n] = @ + 1]
  /\ CASE mgr.failures[n] + 1 >= 2 -> Goto(a, "mark")
       [] mgr.failures[n] + 1 < 2 /\ act[a].try = 1 -> Goto(a, "health")
       [] OTHER -> Return(a)
  /\ UNCHANGED <<tool, left, replaced, crashed>>

MarkUnavailable(a) ==
  /\ At(a, {"mark"}) /\ Free
  /\ mgr' = [mgr EXCEPT !.unavailable[act[a].name] = TRUE]
  /\ Return(a)
  /\ UNCHANGED <<tool, left, replaced, crashed>>

HealthCheck(a) ==
  LET k == act[a].k IN
  /\ At(a, {"health"})
  /\ IF tool[k].closed \/ tool[k].proc = "gone"
     THEN act' = [act EXCEPT ![a].pc = "reload", ![a].k = NoTool] ELSE Return(a)
  /\ UNCHANGED <<tool, mgr, left, replaced, crashed>>

-----------------------------------------------------------------------------
(* Load and ReloadTool.                                                    *)
Load(a) ==
  /\ At(a, {"idle"}) /\ a \in Admins /\ left > 0
  /\ left' = left - 1
  /\ act' = [act EXCEPT ![a] = [Idle EXCEPT !.pc = "loading", !.op = "load"]]
  /\ UNCHANGED <<tool, mgr, replaced, crashed>>

AskReload(a, n) ==
  /\ At(a, {"idle"}) /\ a \in Admins /\ left > 0
  /\ left' = left - 1
  /\ act' = [act EXCEPT ![a] = [Idle EXCEPT !.pc = "reload", !.op = "reload", !.name = n]]
  /\ UNCHANGED <<tool, mgr, replaced, crashed>>

(* The tool must be tracked, and its file still be in the plugin folder.   *)
BeginReload(a) ==
  LET n == act[a].name IN
  /\ At(a, {"reload"}) /\ Free
  /\ \/ Return(a) /\ UNCHANGED mgr
     \/ /\ mgr.tracked[n] # NoTool
        /\ mgr' = [mgr EXCEPT !.mu = a]
        /\ act' = [act EXCEPT ![a].pc = "loading", ![a].k = mgr.tracked[n]]
  /\ UNCHANGED <<tool, left, replaced, crashed>>

Unlock(a) == mgr' = [mgr EXCEPT !.mu = IF @ = a THEN NoOne ELSE @]

(* loadPlugin: the process does not start or fails its handshake; or it    *)
(* is refused for its contract or its capabilities, and closed; or it is   *)
(* accepted, under the name it gives.                                      *)
Started(k, n) == [tool EXCEPT ![k].proc = "up", ![k].name = n]
Unstarted(k) == tool[k].proc = "none" /\ \A j \in 1 .. k - 1 : tool[j].proc # "none"

LoadPlugin(a) ==
  /\ At(a, {"loading"})
  /\ \/ UNCHANGED tool /\ Unlock(a) /\ Return(a)
     \/ \E k \in Tools, n \in Names :
          /\ Unstarted(k)
          /\ tool' = Started(k, n)
          /\ UNCHANGED mgr
          /\ \/ act' = [act EXCEPT ![a].pc = "close", ![a].k = k, ![a].why = "refused"]
             \/ /\ act[a].op = "load"
                /\ act' = [act EXCEPT ![a].pc = "track", ![a].new = k]
             \/ /\ act[a].op # "load"
                /\ act' = [act EXCEPT ![a].pc = "close", ![a].new = k, ![a].why = "swap"]
  /\ UNCHANGED <<left, replaced, crashed>>

(* Load writes its tool over whatever the name had, without closing it.    *)
Track(a) ==
  LET k == act[a].new  n == tool[act[a].new].name IN
  /\ At(a, {"track"}) /\ Free
  /\ mgr' = [mgr EXCEPT !.tracked[n] = k, !.failures[n] = 0, !.unavailable[n] = FALSE]
  /\ replaced' = replaced \cup ({mgr.tracked[n]} \ {NoTool})
  /\ Return(a)
  /\ UNCHANGED <<tool, left, crashed>>

SwapKeepsOld(a) ==
  /\ At(a, {"closed"}) /\ act[a].why = "swap" /\ act[a].ok
  /\ Unlock(a) /\ Return(a)
  /\ UNCHANGED <<tool, left, replaced, crashed>>

(* ReloadTool after the close of the old tool: the new one takes over with *)
(* the failure count of the old, or is closed in its turn.                 *)
Swap(a) ==
  LET n == act[a].name  new == act[a].new  m == tool[act[a].new].name IN
  /\ At(a, {"closed"}) /\ act[a].why = "swap" /\ act[a].ok
  /\ mgr' = [mgr EXCEPT !.mu = NoOne,
               !.tracked = [[@ EXCEPT ![n] = NoTool] EXCEPT ![m] = new],
               !.failures = [[@ EXCEPT ![n] = 0] EXCEPT ![m] = mgr.failures[n]],
               !.unavailable = [@ EXCEPT ![n] = FALSE, ![m] = FALSE]]
  /\ replaced' = replaced \cup ({mgr.tracked[m]} \ {NoTool, mgr.tracked[n]})
  /\ IF act[a].op = "execute"
     THEN act' = [act EXCEPT ![a].pc = "lookup", ![a].try = 2, ![a].why = "none",
                               ![a].k = NoTool, ![a].new = NoTool]
     ELSE Return(a)
  /\ UNCHANGED <<tool, left, crashed>>

SwapFails(a) ==
  /\ At(a, {"closed"}) /\ act[a].why = "swap" /\ ~act[a].ok
  /\ act' = [act EXCEPT ![a].pc = "close", ![a].k = act[a].new, ![a].why = "undo"]
  /\ UNCHANGED <<tool, mgr, left, replaced, crashed>>

LoadRefusedKeepsLock(a) ==
  /\ At(a, {"closed"}) /\ act[a].why \in {"refused", "undo"}
  /\ Return(a)
  /\ UNCHANGED <<tool, mgr, left, replaced, crashed>>

LoadRefused(a) ==
  /\ At(a, {"closed"}) /\ act[a].why \in {"refused", "undo"}
  /\ Unlock(a)
  /\ Return(a)
  /\ UNCHANGED <<tool, left, replaced, crashed>>

-----------------------------------------------------------------------------
(* CloseAll empties the maps under the lock and then closes the tools.     *)
CloseAll(a) ==
  /\ At(a, {"idle"}) /\ a \in Admins /\ left > 0 /\ Free
  /\ left' = left - 1
  /\ mgr' = [mgr EXCEPT !.tracked = [n \in Names |-> NoTool],
                        !.failures = [n \in Names |-> 0],
                        !.unavailable = [n \in Names |-> FALSE]]
  /\ act' = [act EXCEPT ![a] = [Idle EXCEPT !.pc = "closeNext", !.op = "closeAll",
               !.rest = {mgr.tracked[n] : n \in Names} \ {NoTool}]]
  /\ UNCHANGED <<tool, replaced, crashed>>

(* An error does not keep the others from being closed.                    *)
CloseNext(a) ==
  /\ At(a, {"closeNext", "closed"}) /\ act[a].op = "closeAll"
  /\ IF act[a].rest = {} THEN Return(a)
     ELSE \E k \in act[a].rest :
            act' = [act EXCEPT ![a].pc = "close", ![a].k = k, ![a].why = "all",
                               ![a].rest = @ \ {k}]
  /\ UNCHANGED <<tool, mgr, left, replaced, crashed>>

Begin(a) == Load(a) \/ CloseAll(a) \/ \E n \in Names : Call(a, n) \/ AskReload(a, n)

Proceed(a) ==
  \/ Lookup(a) \/ Enter(a) \/ Send(a) \/ Receive(a) \/ Timeout(a)
  \/ Succeed(a) \/ Count(a) \/ MarkUnavailable(a) \/ HealthCheck(a)
  \/ BeginReload(a) \/ LoadPlugin(a) \/ Track(a)
  \/ Close(a) \/ CloseStdin(a) \/ WaitExit(a)
  \/ Swap(a) \/ SwapFails(a) \/ LoadRefused(a) \/ CloseNext(a)

Process(k) == Answer(k) \/ Die(k) \/ EndOfInput(k)

Next == (\E a \in Actors : Begin(a) \/ Proceed(a)) \/ (\E k \in Tools : Process(k))

Spec == Init /\ [][Next]_vars

(* An operation goes on: its thread is scheduled, a call meets its         *)
(* deadline, and a Go mutex is handed to each waiter in the end (SF).  And *)
(* a process that sees the end of its input exits, which nothing in the    *)
(* host enforces.                                                          *)
Fairness == /\ \A a \in Actors : SF_vars(Proceed(a))
            /\ \A k \in Tools : WF_vars(EndOfInput(k))

FairSpec == Spec /\ Fairness

-----------------------------------------------------------------------------
(* Every plugin process that still listens belongs to somebody who can     *)
(* stop it: the manager tracks it, or an operation under way holds it.     *)
(* The exception is a tool whose name a second Load took (Track).          *)
Holds(a, k) ==
  /\ act[a].pc # "idle"
  /\ k = act[a].new \/ k \in act[a].rest \/ (k = act[a].k /\ act[a].why # "none")

NoOrphan ==
  \A k \in Tools : tool[k].proc = "up" =>
    \/ \E n \in Names : mgr.tracked[n] = k
    \/ \E a \in Actors : Holds(a, k)
    \/ k \in replaced

(* Outside a reload, what the manager tracks has not been hung up on, and  *)
(* if it was closed or broke, its process is gone, so that the next call   *)
(* that fails on it finds it dead and reloads it.  Close of ReloadTool     *)
(* retires a tool while it is tracked: one that goes well takes the tool   *)
(* out of service, and one that fails has killed the process and leaves    *)
(* the entry, a dead tool, where it was: such a reload is not atomic, as   *)
(* the comment at manager.go:232 has it.  (manager.go:238-243)             *)
TrackedWorksOrIsGone ==
  Free => \A n \in Names : mgr.tracked[n] # NoTool =>
    /\ tool[mgr.tracked[n]].stdin
    /\ tool[mgr.tracked[n]].closed => tool[mgr.tracked[n]].proc = "gone"

(* Calls, reloads and closes all return (callInternal, ReloadTool,         *)
(* CloseAll), whatever plugins do short of ignoring the end of their input.*)
OperationsEnd ==
  \A a \in Actors : act[a].pc # "idle" ~> (act[a].pc = "idle" \/ crashed)
=============================================================================
