---------------------------- MODULE CommandLine -----------------------------
(***************************************************************************)
(* The command line (cmd/agent/cli.go): processes that each perform one    *)
(* run, resume or inspect command on a database they share, with the       *)
(* engine in their own thread or, when they stream, beside it; signals,    *)
(* writes that fail, output that breaks, and processes that are killed.    *)
(*                                                                         *)
(* The engine is seen from outside: what it stores and how it ends         *)
(* (EngineRun has the rest); fatal_error also stands for                   *)
(* verification_failed, the other end with an error.  A row of the         *)
(* database is a session with                                              *)
(*   status                                                                *)
(*   plan     a plan is stored for its task                                *)
(*   plugin   the provider plugin in its provenance                        *)
(*   by       the process that wrote it last (no column: a history)        *)
(* SaveSession reads the metadata of the row before it writes; no command  *)
(* gets past ResumeSession before the first plan, so no two of these       *)
(* overlap in a way that loses anything, and it is one step here.          *)
(***************************************************************************)
EXTENDS Naturals, FiniteSets

CONSTANTS
  NumProcesses,    \* commands that are given, numbered as they start
  Sessions,
  Providers,       \* plugins to choose as provider
  Nobody,          \* neither a process nor a plugin
  MaxFailures,     \* bounds the writes that fail
  MaxKills         \* bounds the processes that are killed

Processes == 1 .. NumProcesses

ASSUME NumProcessesAssumption == NumProcesses \in Nat

(* A plugin has a name, and no row is written by nobody.                   *)
ASSUME NobodyAssumption == Nobody \notin Processes \cup Providers

VARIABLES
  rows,
  pc,              \* where each process is in its command
  command,         \* its arguments
  open,            \* what it must close: "signals", "stores"
  cancelled,       \* the context of its run
  engine,          \* pc of its engine, and the status and err it returned
  seen,            \* the status that resume loaded
  shown,           \* the last status it printed
  faults,          \* what went wrong: "write", "lost", "stream", "killed"
  failures, kills

vars == <<rows, pc, command, open, cancelled, engine, seen, shown, faults,
          failures, kills>>

Terminal == {"success", "budget_exceeded", "fatal_error"}

Idle == [pc |-> "idle", status |-> "", err |-> FALSE]

Init ==
  /\ rows = [s \in Sessions |->
               [status |-> "none", plan |-> FALSE, plugin |-> Nobody,
                by |-> Nobody]]
  /\ pc = [p \in Processes |-> "idle"]
  /\ command = [p \in Processes |-> [name |-> ""]]
  /\ open = [p \in Processes |-> {}]
  /\ cancelled = [p \in Processes |-> FALSE]
  /\ engine = [p \in Processes |-> Idle]
  /\ seen = [p \in Processes |-> ""]
  /\ shown = [p \in Processes |-> ""]
  /\ faults = [p \in Processes |-> {}]
  /\ failures = 0
  /\ kills = 0

Session(p) == command[p].session
Row(p) == rows[Session(p)]

Goto(p, label) == pc' = [pc EXCEPT ![p] = label]

(* A return statement: what is left are the deferred calls.                *)
Leave(p) == Goto(p, "leaving")

(* The process ends, and with it its engine.                               *)
Exit(p) ==
  /\ Goto(p, "exited")
  /\ command' = [command EXCEPT ![p].mode = "none"]
  /\ open' = [open EXCEPT ![p] = {}]
  /\ cancelled' = [cancelled EXCEPT ![p] = FALSE]
  /\ engine' = [engine EXCEPT ![p] = Idle]
  /\ seen' = [seen EXCEPT ![p] = ""]

(* The store merges provenance: what is there stays.                       *)
Merged(stored, saved) == IF stored = Nobody THEN saved ELSE stored

SavedForgetful(row, status, plugin, p) ==
  [row EXCEPT !.status = status, !.plugin = plugin, !.by = p]

Saved(row, status, plugin, p) ==
  [row EXCEPT !.status = status, !.plugin = Merged(@, plugin), !.by = p]

SaveSession(p, status, plugin) ==
  /\ "stores" \in open[p]
  /\ rows' = [rows EXCEPT ![Session(p)] = Saved(@, status, plugin, p)]
  /\ UNCHANGED <<faults, failures>>

(* A write fails on its own, or because the store is closed.               *)
WriteFails(p, how) ==
  /\ \/ failures < MaxFailures /\ failures' = failures + 1
     \/ "stores" \notin open[p] /\ failures' = failures
  /\ faults' = [faults EXCEPT ![p] = @ \cup how]
  /\ rows' = rows

-----------------------------------------------------------------------------
(* The arguments: a run makes a session of its own; only it decomposes.    *)
Start(p) ==
  /\ pc[p] = "idle" /\ \A q \in 1 .. p - 1 : pc[q] # "idle"
  /\ \E s \in Sessions, plugin \in Providers \cup {Nobody} :
       \/ /\ rows[s].status = "none"
          /\ \A q \in Processes : pc[q] # "idle" => Session(q) # s
          /\ \E mode \in {"single", "all", "best", "stream"} :
               command' = [command EXCEPT ![p] =
                 [name |-> "run", session |-> s, mode |-> mode, plugin |-> plugin]]
       \/ \E mode \in {"single", "stream"} :
            command' = [command EXCEPT ![p] =
              [name |-> "resume", session |-> s, mode |-> mode, plugin |-> plugin]]
       \/ command' = [command EXCEPT ![p] =
            [name |-> "inspect", session |-> s, mode |-> "single", plugin |-> Nobody]]
  /\ Goto(p, "opening")
  /\ UNCHANGED <<rows, open, cancelled, engine, seen, shown, faults, failures, kills>>

(* openRuntimeDeps; a session store without a memory store is closed at    *)
(* once.                                                                   *)
OpenStores(p) ==
  /\ pc[p] = "opening"
  /\ \/ /\ open' = [open EXCEPT ![p] = {"stores"}]
        /\ Goto(p, IF command[p].name = "run" THEN "saving" ELSE "loading")
     \/ /\ Leave(p)
        /\ open' = open
  /\ UNCHANGED <<rows, command, cancelled, engine, seen, shown, faults, failures, kills>>

SaveInitialSession(p) ==
  /\ pc[p] = "saving"
  /\ \/ SaveSession(p, "running", Nobody) /\ Goto(p, "equipping")
     \/ WriteFails(p, {"write"}) /\ Leave(p)
  /\ UNCHANGED <<command, open, cancelled, engine, seen, shown, kills>>

(* ResumeSession, for resume and inspect, needs a plan.                    *)
Resumable(row) == row.status # "none" /\ row.plan

(* validateResumePluginRequirements: the provider in the provenance is the *)
(* one that is chosen.                                                     *)
ProviderKept(row, plugin) == row.plugin \in {Nobody, plugin}

(* What is over is shown and left alone.  What is not is shown at once     *)
(* unless the command streams.                                             *)
LoadSession(p) ==
  /\ pc[p] = "loading"
  /\ LET row == Row(p)
         over == command[p].name = "inspect" \/ row.status \in Terminal
     IN IF ~Resumable(row) THEN Leave(p) /\ UNCHANGED <<seen, shown>>
        ELSE /\ seen' = [seen EXCEPT ![p] = row.status]
             /\ shown' = IF over \/ command[p].mode # "stream"
                         THEN [shown EXCEPT ![p] = row.status] ELSE shown
             /\ IF ~over /\ ProviderKept(row, command[p].plugin)
                THEN Goto(p, "equipping") ELSE Leave(p)
  /\ UNCHANGED <<rows, command, open, cancelled, engine, faults, failures, kills>>

(* The executor, then the handler of signals: from here on a signal cancels*)
(* the run instead of killing the process.  Then SaveTask, which may fail, *)
(* or LoadTask, and the engine.                                            *)
StartEngine(p) ==
  /\ pc[p] = "equipping"
  /\ open' = [open EXCEPT ![p] = @ \cup {"signals"}]
  /\ \/ /\ engine' = [engine EXCEPT ![p].pc = "starting"]
        /\ Goto(p, "running")
        /\ UNCHANGED <<rows, faults, failures>>
     \/ /\ command[p].name = "run"
        /\ WriteFails(p, {"write"}) /\ Leave(p)
        /\ engine' = engine
  /\ UNCHANGED <<command, cancelled, seen, shown, kills>>

-----------------------------------------------------------------------------
EngineOver(p, status, err) ==
  engine' = [engine EXCEPT ![p].pc = "over", ![p].status = status, ![p].err = err]

(* How it may end: with or without an error.                               *)
Endings ==
  {<<"success", FALSE>>, <<"blocked_input", FALSE>>, <<"budget_exceeded", FALSE>>,
   <<"fatal_error", TRUE>>, <<"interrupted", TRUE>>}

(* The last SaveSession; a session that could not be stored is returned    *)
(* empty.                                                                  *)
EngineEnds(p, status, err) ==
  \/ SaveSession(p, status, command[p].plugin) /\ EngineOver(p, status, err)
  \/ WriteFails(p, {"write"}) /\ EngineOver(p, "", TRUE)

EngineSaves(p) ==
  /\ engine[p].pc = "starting"
  /\ \/ /\ SaveSession(p, "running", command[p].plugin)
        /\ engine' = [engine EXCEPT ![p].pc = "planning"]
     \/ WriteFails(p, {"write"}) /\ EngineOver(p, "", TRUE)

EnginePlans(p) ==
  /\ engine[p].pc = "planning"
  /\ \/ /\ "stores" \in open[p]
        /\ rows' = [rows EXCEPT ![Session(p)].plan = TRUE]
        /\ engine' = [engine EXCEPT ![p].pc = "working"]
        /\ UNCHANGED <<faults, failures>>
     \/ EngineEnds(p, "fatal_error", TRUE)

EngineWorks(p) ==
  /\ engine[p].pc = "working"
  /\ \E e \in Endings : EngineEnds(p, e[1], e[2])

EngineStep(p) ==
  /\ EngineSaves(p) \/ EnginePlans(p) \/ EngineWorks(p)
  /\ UNCHANGED <<pc, command, open, cancelled, seen, shown, kills>>

(* The worker of a decomposed run gives up before it starts the engine.    *)
WorkerSkipped(p) ==
  /\ pc[p] = "running" /\ command[p].mode \in {"all", "best"}
  /\ engine[p].pc = "starting" /\ cancelled[p]
  /\ \E err \in BOOLEAN : EngineOver(p, "", err)
  /\ UNCHANGED <<rows, pc, command, open, cancelled, seen, shown, faults, failures, kills>>

-----------------------------------------------------------------------------
(* The end of a command that does not stream.                              *)

(* The error after the aggregation: the best effort has none, and the      *)
(* result of a worker that is cancelled may not be published.              *)
RunErrors(p) ==
  LET err == engine[p].err
  IN CASE command[p].mode = "best" -> {FALSE} \cup (IF engine[p].status = "" THEN {err} ELSE {})
       [] command[p].mode = "all"  -> {err} \cup (IF cancelled[p] THEN {FALSE} ELSE {})
       [] OTHER                    -> {err}

SettledAnyway(p, err) ==
  IF cancelled[p] THEN "interrupted"
  ELSE IF engine[p].status \in {"", "running"} /\ err THEN "fatal_error"
  ELSE engine[p].status

(* The status as the command corrects it.                                  *)
Settled(p, err) ==
  IF cancelled[p] /\ engine[p].status # "success" THEN "interrupted"
  ELSE IF engine[p].status \in {"", "running"} /\ err THEN "fatal_error"
  ELSE engine[p].status

CorrectsErrors(p, err) == err /\ Settled(p, err) # engine[p].status

Corrects(p, err) ==
  \/ cancelled[p] /\ engine[p].status # "success"
  \/ Settled(p, err) # engine[p].status

(* The engine has returned; what the command corrects it stores, and does  *)
(* not look whether that worked.                                           *)
Settle(p) ==
  /\ pc[p] = "running" /\ command[p].mode # "stream" /\ engine[p].pc = "over"
  /\ \E err \in RunErrors(p) :
       LET status == Settled(p, err)
           plugin == IF engine[p].status = "" THEN Nobody ELSE command[p].plugin
       IN /\ IF Corrects(p, err) THEN SaveSession(p, status, plugin) \/ WriteFails(p, {"write", "lost"})
             ELSE UNCHANGED <<rows, faults, failures>>
          /\ shown' = [shown EXCEPT ![p] = status]
          /\ Leave(p)
  /\ UNCHANGED <<command, open, cancelled, engine, seen, kills>>

(* The consumer of the events cannot write any more, whether or not the    *)
(* engine still runs.                                                      *)
ConsumerFails(p) ==
  /\ pc[p] = "running" /\ command[p].mode = "stream"
  /\ faults' = [faults EXCEPT ![p] = @ \cup {"stream"}]
  /\ Leave(p)
  /\ UNCHANGED <<rows, command, open, cancelled, engine, seen, shown, failures, kills>>

ConsumerWaitsForSuccess(p) ==
  /\ pc[p] = "running" /\ command[p].mode = "stream"
  /\ engine[p].pc = "over" /\ engine[p].status # ""
  /\ shown' = [shown EXCEPT ![p] = engine[p].status]
  /\ Leave(p)
  /\ UNCHANGED <<rows, command, open, cancelled, engine, seen, faults, failures, kills>>

(* The channel is closed, and what was in it printed: session_complete,    *)
(* unless the channel was full when the engine emitted it, or the engine   *)
(* had none to emit.  Whether loadStreamResult then reads the row changes  *)
(* the exit status alone.                                                  *)
ConsumerEnds(p) ==
  /\ pc[p] = "running" /\ command[p].mode = "stream" /\ engine[p].pc = "over"
  /\ \E told \in {engine[p].status, ""} : shown' = [shown EXCEPT ![p] = told]
  /\ Leave(p)
  /\ UNCHANGED <<rows, command, open, cancelled, engine, seen, faults, failures, kills>>

(* The deferred calls, last in first out; an engine that still runs sees   *)
(* its context cancelled, then its store closed, then the end.             *)
Unwind(p) ==
  /\ pc[p] = "leaving"
  /\ IF open[p] = {} THEN Exit(p)
     ELSE /\ open' = [open EXCEPT ![p] = IF "signals" \in @ THEN @ \ {"signals"} ELSE {}]
          /\ cancelled' = [cancelled EXCEPT ![p] = @ \/ "signals" \in open[p]]
          /\ UNCHANGED <<pc, command, engine, seen>>
  /\ UNCHANGED <<rows, shown, faults, failures, kills>>

-----------------------------------------------------------------------------
(* The first signal while the handler is installed; another is ignored.    *)
Signal(p) ==
  /\ "signals" \in open[p] /\ pc[p] # "leaving" /\ ~cancelled[p]
  /\ cancelled' = [cancelled EXCEPT ![p] = TRUE]
  /\ UNCHANGED <<rows, pc, command, open, engine, seen, shown, faults, failures, kills>>

(* A crash, or a signal without the handler.                               *)
Kill(p) ==
  /\ pc[p] \notin {"idle", "exited"} /\ kills < MaxKills
  /\ kills' = kills + 1
  /\ faults' = [faults EXCEPT ![p] = @ \cup {"killed"}]
  /\ Exit(p)
  /\ UNCHANGED <<rows, shown, failures>>

Command(p) ==
  \/ OpenStores(p) \/ SaveInitialSession(p) \/ LoadSession(p) \/ StartEngine(p)
  \/ WorkerSkipped(p) \/ Settle(p)
  \/ ConsumerEnds(p) \/ Unwind(p)

Next ==
  \E p \in Processes :
    \/ Start(p) \/ Command(p) \/ EngineStep(p)
    \/ ConsumerFails(p) \/ Signal(p) \/ Kill(p)

Spec == Init /\ [][Next]_vars

(* The process goes on, and every call of its engine returns.              *)
FairSpec ==
  /\ Spec
  /\ \A p \in Processes : WF_vars(Command(p)) /\ WF_vars(EngineStep(p))

-----------------------------------------------------------------------------
AtWork(p, s) ==
  pc[p] \notin {"idle", "exited"} /\ command[p].name \in {"run", "resume"} /\ Session(p) = s

(* What a command shows at its end is what is stored, if it wrote last:    *)
(* through signals, engines that return nothing, and corrections, unless   *)
(* the write of the correction failed.  And a session that is stored as    *)
(* running has a process that works on it, unless one was killed, could    *)
(* not write, or lost its output while it streamed.  (runCommand,          *)
(* resumeCommand, runStreamingCommand)                                     *)
OutcomeIsStored ==
  /\ \A p \in Processes :
       pc[p] = "exited" /\ "killed" \notin faults[p] /\ shown[p] # "" =>
         (Row(p).by = p /\ "lost" \notin faults[p] => Row(p).status = shown[p])
  /\ \A s \in Sessions :
       rows[s].status = "running" /\ ~(\E p \in Processes : AtWork(p, s)) =>
         \E p \in Processes : pc[p] # "idle" /\ Session(p) = s /\ faults[p] # {}

(* A success that is stored is undone only by another process, which began *)
(* before it and never saw it: neither by a signal that comes late, nor by *)
(* a resume.  (cli.go runCommand, resumeCommand, isTerminalStatus)         *)
SuccessStands ==
  [][\A s \in Sessions :
       rows[s].status = "success" /\ rows'[s].status # "success" =>
         /\ rows'[s].by # rows[s].by
         /\ seen[rows'[s].by] # "success"]_vars

(* A session that a run began with a plugin as its provider is never       *)
(* continued without it, whatever was cancelled, lost or overwritten in    *)
(* between.  (validateResumePluginRequirements, mergeStoredProvenance;     *)
(* README.md fail-closed)                                                  *)
PluginIsKept ==
  \A p, q \in Processes :
    /\ pc[p] # "idle" /\ command[p].name = "run" /\ command[p].plugin # Nobody
    /\ engine[q].pc # "idle" /\ Session(q) = Session(p)
    => command[q].plugin = command[p].plugin

(* Every command comes to its end: nothing waits for a channel that nobody *)
(* closes or an engine that nobody cancels.  (cli.go; runtime.go RunStream)*)
CommandEnds ==
  \A p \in Processes : pc[p] = "opening" ~> pc[p] = "exited"
=============================================================================
