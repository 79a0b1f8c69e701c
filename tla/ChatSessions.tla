---------------------------- MODULE ChatSessions ----------------------------
(***************************************************************************)
(* The chat service (internal/service/chat.go) over the session store      *)
(* (internal/store/session_store.go) and the session manager, for which    *)
(* its specification SessionSlots stands: requests create sessions, chain  *)
(* them to conversations and resume them, while the runs of sessions store *)
(* their status and a finalizer stores the rest.                           *)
(*                                                                         *)
(* Every call of the store that changes the metadata of a session reads    *)
(* config_json, and then writes it back whole, in two statements without a *)
(* transaction.  Sessions are numbered in the order of creation; the ids   *)
(* they stand for are taken from the clock and assumed distinct.  The      *)
(* conversation that StartChat opens with session s has the id Chat(s).    *)
(* A definition that stands right before another one and differs from it   *)
(* in one respect is a mistake the properties are tested against.          *)
(***************************************************************************)
EXTENDS Integers, FiniteSets

CONSTANTS N,        \* TLC's bound on the number of sessions
          Requests, \* HTTP handlers, each serving one request
          Actors,   \* the runs; TLC's bound on their number
          Cap, NoActor,
          EndStatuses  \* the statuses a run may end with

ASSUME NAssumption == N \in Nat \ {0}
ASSUME CapAssumption == Cap \in Nat \ {0}
ASSUME NoActorAssumption == NoActor \notin Actors

VARIABLES
  created,   \* number of sessions created so far
  rows,      \* table sessions: status ("": no row) and metadata
  slot, ending, open, drained,  \* the manager, see SessionSlots
  run,       \* the runs with their finalizers
  req,       \* the handlers
  unsaved,   \* history: sessions of which the finalizer could not store something
  raced,     \* history: sessions started while another writer of them was at work
  outcome,   \* history: how the last run of a session to end has ended
  restarted  \* the process has crashed and started again

manager == <<slot, ending, open, drained>>
history == <<unsaved, raced, outcome>>
vars == <<created, rows, manager, run, req, history, restarted>>

Sessions == 1 .. N
Chat(s) == N + s
Conversations == 1 .. 2 * N

Manager == INSTANCE SessionSlots WITH SessionIDs <- Sessions

-----------------------------------------------------------------------------
(* Of the metadata: the conversation (0: none), the session and the number *)
(* of the turn it is chained to, and diagnostics.finalized.                *)
Metadata == [conv : {0} \cup Conversations, parent : {0} \cup Sessions, turn : Nat,
             finalized : BOOLEAN]
NoMetadata == [conv |-> 0, parent |-> 0, turn |-> 0, finalized |-> FALSE]

TerminalStatuses == {"success", "verification_failed", "budget_exceeded", "fatal_error"}
Statuses == TerminalStatuses \cup {"pending", "running", "blocked_input", "interrupted"}
(* A run that ends is neither pending nor running any more, see EngineRun. *)
ASSUME EndAssumption == EndStatuses \subseteq Statuses \ {"pending", "running"}

(* A handler: its request, the call it is about to make, whether that call *)
(* has read the metadata, and what the handler is going to store.          *)
Request == [op : {"none", "run", "chat", "reply", "resume"},
            pc : {"idle", "create", "task", "diagnostics", "conversation", "inspect",
                  "start", "done"},
            sid : {0} \cup Sessions, loaded : BOOLEAN, meta : Metadata,
            conv : {0} \cup Conversations, parent : {0} \cup Sessions, turn : Nat]
IdleRequest == [op |-> "none", pc |-> "idle", sid |-> 0, loaded |-> FALSE,
                meta |-> NoMetadata, conv |-> 0, parent |-> 0, turn |-> 0]
Answered == [IdleRequest EXCEPT !.pc = "done"]

(* A run: the engine's first and last SaveSession, the run between them,   *)
(* "finished" when the result is recorded, and the finalizer's two calls.  *)
(* status is the status of the session it returns, "" of the zero Session. *)
Run == [pc : {"free", "begin", "running", "ending", "finished", "diagnostics", "fatal",
              "over", "exited"},
        sid : {0} \cup Sessions, loaded : BOOLEAN, meta : Metadata,
        status : Statuses \cup {""}]
FreeRun == [pc |-> "free", sid |-> 0, loaded |-> FALSE, meta |-> NoMetadata, status |-> ""]
Exited == [FreeRun EXCEPT !.pc = "exited"]

Init ==
  /\ created = 0
  /\ rows = [s \in Sessions |-> [status |-> "", meta |-> NoMetadata]]
  /\ Manager!Init
  /\ run = [a \in Actors |-> FreeRun]
  /\ req = [r \in Requests |-> IdleRequest]
  /\ unsaved = {}
  /\ raced = {}
  /\ outcome = [s \in Sessions |-> ""]
  /\ restarted = FALSE

Stored == {s \in Sessions : rows[s].status # ""}
Terminal(s) == rows[s].status \in TerminalStatuses

-----------------------------------------------------------------------------
(* ListConversationSessions: a session without a stored conversation is a  *)
(* conversation of its own.                                                *)
ConversationOf(s) == IF rows[s].meta.conv = 0 THEN s ELSE rows[s].meta.conv
Records(c) == {s \in Stored : ConversationOf(s) = c}

TurnOfParent(parent) == rows[parent].meta.turn
TurnAfter(parent) == rows[parent].meta.turn + 1

(* SubmitReply reads the conversation.  It chains to the last record that  *)
(* is terminal; without one the conversation is "already running".         *)
ReadsConversation(r, c) ==
  /\ req[r].pc = "idle"
  /\ \E parent \in Records(c) :
       /\ Terminal(parent)
       /\ \A s \in Records(c) : Terminal(s) => s <= parent
       /\ req' = [req EXCEPT ![r].op = "reply", ![r].pc = "create", ![r].conv = c,
                             ![r].parent = parent, ![r].turn = TurnAfter(parent)]
  /\ UNCHANGED <<created, rows, manager, run, history, restarted>>

(* SaveSession of a pending session under a new id: the second step of     *)
(* SubmitReply, the first one of StartConversation and StartChat.          *)
CreateSession(r, op) ==
  /\ req[r].pc = IF op = "reply" THEN "create" ELSE "idle"
  /\ created < N
  /\ LET s == created + 1
     IN  /\ created' = s
         /\ rows' = [rows EXCEPT ![s].status = "pending"]
         /\ req' = [req EXCEPT ![r].op = op, ![r].pc = "task", ![r].sid = s,
                               ![r].conv = IF op = "chat" THEN Chat(s) ELSE @]
  /\ UNCHANGED <<manager, run, history, restarted>>

(* SaveTask, SaveDiagnostics and SaveConversationState, in this order; the *)
(* last is not called by StartConversation.  Task and request id stand for *)
(* themselves: no property looks at them.                                  *)
Saving(r) == req[r].pc \in {"task", "diagnostics", "conversation"}
NextCall(r) ==
  CASE req[r].pc = "task" -> "diagnostics"
    [] req[r].pc = "diagnostics" -> IF req[r].op = "run" THEN "start" ELSE "conversation"
    [] OTHER -> "start"
Updated(r) ==
  IF req[r].pc = "conversation"
  THEN [req[r].meta EXCEPT !.conv = req[r].conv, !.parent = req[r].parent, !.turn = req[r].turn]
  ELSE req[r].meta

RequestLoads(r) ==
  /\ Saving(r)
  /\ ~req[r].loaded
  /\ req' = [req EXCEPT ![r].loaded = TRUE, ![r].meta = rows[req[r].sid].meta]
  /\ UNCHANGED <<created, rows, manager, run, history, restarted>>

RequestWrites(r) ==
  /\ Saving(r)
  /\ req[r].loaded
  /\ rows' = [rows EXCEPT ![req[r].sid].meta = Updated(r)]
  /\ req' = [req EXCEPT ![r].pc = NextCall(r), ![r].loaded = FALSE, ![r].meta = NoMetadata]
  /\ UNCHANGED <<created, manager, run, history, restarted>>

(* A call of the store fails: the handler answers with the error and       *)
(* leaves what it has stored so far.                                       *)
RequestFails(r) ==
  /\ Saving(r)
  /\ req' = [req EXCEPT ![r] = Answered]
  /\ UNCHANGED <<created, rows, manager, run, history, restarted>>

-----------------------------------------------------------------------------
(* ResumeConversation: Lookup turns away a session whose actor is pending  *)
(* or running ...                                                          *)
LooksUp(r, s) ==
  /\ req[r].pc = "idle"
  /\ s \in Stored
  /\ slot[s] # NoActor => run[slot[s]].pc = "finished"
  /\ req' = [req EXCEPT ![r].op = "resume", ![r].pc = "inspect", ![r].sid = s]
  /\ UNCHANGED <<created, rows, manager, run, history, restarted>>

(* ... and InspectSession one whose stored status is terminal.             *)
Inspects(r) ==
  /\ req[r].pc = "inspect"
  /\ req' = [req EXCEPT ![r] = IF Terminal(@.sid) THEN Answered ELSE [@ EXCEPT !.pc = "start"]]
  /\ UNCHANGED <<created, rows, manager, run, history, restarted>>

BeingCreated(s) == \E r \in Requests : Saving(r) /\ req[r].sid = s
BeingFinalized(s) == \E a \in ending : run[a].sid = s

(* manager.Start; a refused session keeps the row it has.  The manager is  *)
(* not shut down here: closed, it refuses like a full one.                 *)
Starts(r, a) ==
  /\ req[r].pc = "start"
  /\ run[a].pc = "free"
  /\ Manager!Admit(req[r].sid, a)
  /\ run' = [run EXCEPT ![a].pc = "begin", ![a].sid = req[r].sid]
  /\ req' = [req EXCEPT ![r] = Answered]
  /\ LET s == req[r].sid
     IN  raced' = IF BeingCreated(s) \/ BeingFinalized(s) THEN raced \cup {s} ELSE raced
  /\ UNCHANGED <<created, rows, unsaved, outcome, restarted>>

Refused(r) ==
  /\ req[r].pc = "start"
  /\ req[r].sid \in Manager!Taken \/ Cardinality(Manager!Taken) >= Cap
  /\ req' = [req EXCEPT ![r] = Answered]
  /\ UNCHANGED <<created, rows, manager, run, history, restarted>>

-----------------------------------------------------------------------------
(* The run.  SaveSession writes the status together with the metadata that *)
(* it has read before.                                                     *)
RunLoads(a) ==
  /\ run[a].pc \in {"begin", "diagnostics", "fatal"}
  /\ ~run[a].loaded
  /\ run' = [run EXCEPT ![a].loaded = TRUE, ![a].meta = rows[run[a].sid].meta]
  /\ UNCHANGED <<created, rows, manager, req, history, restarted>>

RunGoesOn(a, pc) ==
  run' = [run EXCEPT ![a].pc = pc, ![a].loaded = FALSE, ![a].meta = NoMetadata]

SavesRunning(a) ==
  /\ run[a].pc = "begin"
  /\ run[a].loaded
  /\ rows' = [rows EXCEPT ![run[a].sid] = [status |-> "running", meta |-> run[a].meta]]
  /\ RunGoesOn(a, "running")
  /\ UNCHANGED <<created, manager, req, history, restarted>>

(* The engine decides how to end, see EngineRun, and SaveSession begins.   *)
RunEnds(a) ==
  /\ run[a].pc = "running"
  /\ \E status \in EndStatuses :
       run' = [run EXCEPT ![a].pc = "ending", ![a].status = status, ![a].loaded = TRUE,
                          ![a].meta = rows[run[a].sid].meta]
  /\ UNCHANGED <<created, rows, manager, req, history, restarted>>

SavesEnd(a) ==
  /\ run[a].pc = "ending"
  /\ rows' = [rows EXCEPT ![run[a].sid] = [status |-> run[a].status, meta |-> run[a].meta]]
  /\ RunGoesOn(a, "finished")
  /\ outcome' = [outcome EXCEPT ![run[a].sid] = run[a].status]
  /\ UNCHANGED <<created, manager, req, unsaved, raced, restarted>>

(* The factory or a SaveSession fails: the zero Session and an error.      *)
RunFails(a) ==
  /\ run[a].pc \in {"begin", "ending"}
  /\ run' = [run EXCEPT ![a].pc = "finished", ![a].status = "", ![a].loaded = FALSE,
                        ![a].meta = NoMetadata]
  /\ outcome' = [outcome EXCEPT ![run[a].sid] = "fatal_error"]
  /\ UNCHANGED <<created, rows, manager, req, unsaved, raced, restarted>>

(* completeActor gives up the slot before it calls the finalizer.          *)
LeavesSlot(a) ==
  /\ run[a].pc = "finished"
  /\ Manager!Retire(run[a].sid)
  /\ run' = [run EXCEPT ![a].pc = "diagnostics"]
  /\ UNCHANGED <<created, rows, req, history, restarted>>

NeverFatal(a) == "over"
AfterDiagnostics(a) == IF run[a].status = "" THEN "fatal" ELSE "over"

DiagnosticsOfRequest(a) == run[a].meta
Finalized(a) == [run[a].meta EXCEPT !.finalized = TRUE]

(* The finalizer, persistFatalOnRunnerError: SaveDiagnostics ...           *)
SavesDiagnostics(a) ==
  /\ run[a].pc = "diagnostics"
  /\ run[a].loaded
  /\ rows' = [rows EXCEPT ![run[a].sid].meta = Finalized(a)]
  /\ RunGoesOn(a, AfterDiagnostics(a))
  /\ UNCHANGED <<created, manager, req, history, restarted>>

(* ... and, for the zero Session, SaveSession of fatal_error.              *)
SavesFatal(a) ==
  /\ run[a].pc = "fatal"
  /\ run[a].loaded
  /\ rows' = [rows EXCEPT ![run[a].sid] = [status |-> "fatal_error", meta |-> run[a].meta]]
  /\ RunGoesOn(a, "over")
  /\ UNCHANGED <<created, manager, req, history, restarted>>

(* The finalizer ignores the errors of both.                               *)
FinalizerFails(a) ==
  /\ run[a].pc \in {"diagnostics", "fatal"}
  /\ unsaved' = unsaved \cup {run[a].sid}
  /\ RunGoesOn(a, IF run[a].pc = "fatal" THEN "over" ELSE AfterDiagnostics(a))
  /\ UNCHANGED <<created, rows, manager, req, raced, outcome, restarted>>

RunOver(a) ==
  /\ run[a].pc = "over"
  /\ Manager!End(a)
  /\ run' = [run EXCEPT ![a] = Exited]
  /\ UNCHANGED <<created, rows, req, history, restarted>>

-----------------------------------------------------------------------------
(* The process dies and starts again on the same database.                 *)
Restart ==
  /\ ~restarted
  /\ restarted' = TRUE
  /\ slot' = [s \in Sessions |-> NoActor]
  /\ ending' = {}
  /\ run' = [a \in Actors |-> IF run[a].pc = "free" THEN FreeRun ELSE Exited]
  /\ req' = [r \in Requests |-> IF req[r].pc = "idle" THEN IdleRequest ELSE Answered]
  /\ outcome' = [s \in Sessions |-> ""]
  /\ UNCHANGED <<created, rows, open, drained, unsaved, raced>>

RequestStep(r) ==
  \/ \E op \in {"run", "chat", "reply"} : CreateSession(r, op)
  \/ \E c \in Conversations : ReadsConversation(r, c)
  \/ \E s \in Sessions : LooksUp(r, s)
  \/ RequestLoads(r) \/ RequestWrites(r) \/ RequestFails(r)
  \/ Inspects(r) \/ Refused(r)
  \/ \E a \in Actors : Starts(r, a)

RunStep(a) ==
  \/ RunLoads(a) \/ SavesRunning(a) \/ RunEnds(a) \/ SavesEnd(a) \/ RunFails(a)
  \/ LeavesSlot(a) \/ SavesDiagnostics(a) \/ SavesFatal(a) \/ FinalizerFails(a) \/ RunOver(a)

Next ==
  \/ \E r \in Requests : RequestStep(r)
  \/ \E a \in Actors : RunStep(a)
  \/ Restart

Spec == Init /\ [][Next]_vars

-----------------------------------------------------------------------------
(* Types; a row is there for every session created, and for no other.      *)
TypeOK ==
  /\ created \in 0 .. N
  /\ rows \in [Sessions -> [status : Statuses \cup {""}, meta : Metadata]]
  /\ slot \in [Sessions -> Actors \cup {NoActor}]
  /\ ending \subseteq Actors
  /\ open \in BOOLEAN /\ drained \in BOOLEAN
  /\ run \in [Actors -> Run]
  /\ req \in [Requests -> Request]
  /\ unsaved \subseteq Sessions /\ raced \subseteq Sessions
  /\ outcome \in [Sessions -> Statuses \cup {""}]
  /\ restarted \in BOOLEAN
  /\ Stored = 1 .. created

(* The turns of a conversation form a tree, whatever requests and runs     *)
(* overlap, fail or are cut short: a stored turn follows a session of the  *)
(* same conversation that was created before it and has the number before. *)
(* A session that is started while another writer is at work on it is the  *)
(* one exception: the two put back each other's old metadata.              *)
TurnsFormATree ==
  \A s \in Stored : rows[s].meta.parent # 0 =>
    LET parent == rows[s].meta.parent
    IN  {s, parent} \cap raced = {} =>
          /\ parent < s
          /\ ConversationOf(parent) = ConversationOf(s)
          /\ rows[s].meta.turn = rows[parent].meta.turn + 1

AtRest(s) == slot[s] = NoActor /\ \A a \in Actors : run[a].sid # s \/ run[a].pc = "exited"

(* No zombies: once no run and no finalizer of a session is left, and the  *)
(* store did what the finalizer asked for, it is not stored as running,    *)
(* not even if runs and finalizers of it overlapped.                       *)
NoZombie ==
  \A s \in Stored \ unsaved : AtRest(s) /\ ~restarted => rows[s].status # "running"

(* The last run to end has the last word: its outcome is the stored status *)
(* and the finalizer's mark is there.  The same exception: a finalizer     *)
(* that is still at work when the session is resumed may put its own       *)
(* fatal_error over the outcome of the resumed run.                        *)
LastRunDecides ==
  \A s \in Stored \ (unsaved \cup raced) : AtRest(s) /\ outcome[s] # "" =>
    rows[s].status = outcome[s] /\ rows[s].meta.finalized

=============================================================================
