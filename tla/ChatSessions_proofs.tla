------------------------ MODULE ChatSessions_proofs ------------------------
(***************************************************************************)
(* Proofs about ChatSessions for any number of sessions, handlers and runs *)
(* and any cap: no session is left running, the last run decides, and the  *)
(* turns of a conversation form a tree.                                    *)
(*                                                                         *)
(* The argument: a session that was never started while another writer was *)
(* at work on it has one writer at a time, first its handler and then one  *)
(* run after the other, so what a writer has read is what is stored.       *)
(***************************************************************************)
EXTENDS ChatSessions, TLAPS

-----------------------------------------------------------------------------
(* The inductive invariant.                                                *)
OnSlot == {"begin", "running", "ending", "finished"}
Closing == {"diagnostics", "fatal", "over"}
SavingPcs == {"task", "diagnostics", "conversation"}
Created == 1 .. created

(* Where a run stands, with respect to the manager.                        *)
Placed(a) ==
  /\ run[a].pc \in OnSlot => run[a].sid \in Created /\ slot[run[a].sid] = a
  /\ run[a].pc \in Closing => run[a].sid \in Created
  /\ run[a].pc \in Closing <=> a \in ending
  /\ run[a].pc \in {"free", "exited"} => run[a].sid = 0
  /\ run[a].pc = "free" => run[a] = FreeRun
  /\ run[a].loaded => run[a].pc \in {"begin", "ending", "diagnostics", "fatal"}
  /\ run[a].pc \in {"begin", "fatal"} => run[a].status = ""
  /\ run[a].pc = "ending" => run[a].loaded /\ run[a].status \in EndStatuses
  /\ run[a].pc \in {"finished", "diagnostics"} => run[a].status \in EndStatuses \cup {""}

SlotsTaken ==
  \A s \in Sessions : slot[s] # NoActor => run[slot[s]].pc \in OnSlot /\ run[slot[s]].sid = s

(* What a handler is at work on.                                           *)
Asked(r) ==
  /\ req[r].pc = "idle" => req[r] = IdleRequest
  /\ Saving(r) \/ req[r].pc \in {"inspect", "start"} => req[r].sid \in Created
  /\ req[r].loaded => Saving(r)
  /\ req[r].pc = "conversation" => req[r].op # "run"
  /\ Saving(r) => req[r].op \in {"run", "chat", "reply"}
  /\ req[r].pc = "create" => req[r].op = "reply"
  /\ req[r].op = "chat" /\ Saving(r) => req[r].parent = 0

Unused ==
  \A s \in Sessions : s > created =>
    rows[s].status = "" /\ rows[s].meta = NoMetadata /\ outcome[s] = "" /\ s \notin raced

(* Of a session that was never raced: the handler that creates it, and one *)
(* run, are alone with it.                                                 *)
Fresh(s) ==
  /\ rows[s].status = "pending" /\ rows[s].meta = NoMetadata /\ outcome[s] = ""
  /\ \A a \in Actors : run[a].sid # s
Alone ==
  /\ \A r, q \in Requests : Saving(r) /\ Saving(q) /\ req[r].sid = req[q].sid => r = q
  /\ \A r \in Requests : Saving(r) /\ req[r].sid \notin raced =>
       Fresh(req[r].sid) /\ (req[r].loaded => req[r].meta = NoMetadata)
  /\ \A a, b \in Actors : run[a].sid = run[b].sid /\ run[a].sid \notin raced \cup {0} => a = b
  /\ \A a \in Actors : run[a].loaded /\ run[a].sid \notin raced =>
       run[a].meta = rows[run[a].sid].meta

(* A session that is stored as running has a run that will store more.     *)
Undecided(v) ==
  \/ v.pc \in {"running", "ending"}
  \/ v.pc \in {"finished", "diagnostics", "fatal"} /\ v.status = ""
Watched ==
  ~restarted => \A s \in Stored \ unsaved : rows[s].status = "running" =>
    \E a \in Actors : run[a].sid = s /\ Undecided(run[a])

(* How far a run that has ended has told the store.                        *)
Outcome(v) == IF v.status = "" THEN "fatal_error" ELSE v.status
Tells(v, row, out) ==
  /\ v.pc \in {"finished", "diagnostics"} =>
       out = Outcome(v) /\ (v.status # "" => row.status = v.status)
  /\ v.pc = "fatal" => out = "fatal_error" /\ row.meta.finalized
  /\ v.pc = "over" => row.status = out /\ row.meta.finalized
Telling(a) == Tells(run[a], rows[run[a].sid], outcome[run[a].sid])
Told ==
  /\ \A a \in Actors : run[a].sid \notin unsaved \cup raced => Telling(a)
  /\ LastRunDecides

(* Turns: of a handler that submits a reply, and of a session.             *)
Follows(p, c, turn) ==
  p \notin raced =>
    ~BeingCreated(p) /\ ConversationOf(p) = c /\ turn = rows[p].meta.turn + 1
Chained ==
  /\ \A r \in Requests : req[r].op = "reply" /\ (req[r].pc = "create" \/ Saving(r)) =>
       /\ req[r].parent \in Created /\ req[r].conv \in Conversations
       /\ Saving(r) => req[r].parent < req[r].sid
       /\ Follows(req[r].parent, req[r].conv, req[r].turn)
  /\ \A s \in Stored \ raced : rows[s].meta.parent # 0 =>
       /\ rows[s].meta.parent < s
       /\ Follows(rows[s].meta.parent, ConversationOf(s), rows[s].meta.turn)

IInv ==
  /\ TypeOK /\ (\A a \in Actors : Placed(a)) /\ SlotsTaken /\ (\A r \in Requests : Asked(r))
  /\ Unused /\ Alone /\ Watched /\ Told /\ Chained

-----------------------------------------------------------------------------
(* Types.                                                                  *)
LEMMA Numbers ==
  /\ Sessions \subseteq Nat /\ 0 \notin Sessions /\ N \in Nat /\ 1 \in Sessions
  /\ \A s \in Sessions : Chat(s) \in Conversations /\ s \in Conversations
  /\ 0 \notin Conversations /\ "" \notin Statuses /\ "" \notin EndStatuses
  /\ "running" \notin EndStatuses /\ EndStatuses \subseteq Statuses /\ NoActor \notin Actors
<1>1. /\ Sessions \subseteq Nat /\ 0 \notin Sessions /\ N \in Nat /\ 1 \in Sessions
      /\ \A s \in Sessions : s \in Conversations
      /\ 0 \notin Conversations
  BY NAssumption DEF Sessions, Conversations
<1>2. \A s \in Sessions : N + s \in 1 .. 2 * N
  BY NAssumption DEF Sessions
<1>3. /\ "" \notin Statuses /\ "" \notin EndStatuses
      /\ "running" \notin EndStatuses /\ EndStatuses \subseteq Statuses
  BY EndAssumption DEF Statuses, TerminalStatuses
<1> QED BY <1>1, <1>2, <1>3, NoActorAssumption DEF Chat, Conversations

LEMMA Points ==
  /\ {"begin", "running", "ending", "finished"} \subseteq OnSlot
  /\ {"diagnostics", "fatal", "over"} \subseteq Closing
  /\ OnSlot \cap Closing = {} /\ (OnSlot \cup Closing) \cap {"free", "exited"} = {}
  /\ {"task", "diagnostics", "conversation"} \subseteq SavingPcs
  /\ SavingPcs \cap {"idle", "create", "inspect", "start", "done"} = {}
  /\ \A r : Saving(r) <=> req[r].pc \in SavingPcs
BY DEF OnSlot, Closing, SavingPcs, Saving

LEMMA RunType ==
  ASSUME TypeOK, NEW a \in Actors
  PROVE  /\ run[a] \in Run
         /\ run[a].pc \in OnSlot \cup Closing \cup {"free", "exited"}
         /\ run[a].sid \in {0} \cup Sessions /\ run[a].loaded \in BOOLEAN
         /\ run[a].meta \in Metadata /\ run[a].status \in Statuses \cup {""}
BY DEF TypeOK, Run, OnSlot, Closing

LEMMA ReqType ==
  ASSUME TypeOK, NEW r \in Requests
  PROVE  /\ req[r] \in Request
         /\ req[r].op \in {"none", "run", "chat", "reply", "resume"}
         /\ req[r].pc \in SavingPcs \cup {"idle", "create", "inspect", "start", "done"}
         /\ req[r].sid \in {0} \cup Sessions /\ req[r].loaded \in BOOLEAN
         /\ req[r].meta \in Metadata /\ req[r].conv \in {0} \cup Conversations
         /\ req[r].parent \in {0} \cup Sessions /\ req[r].turn \in Nat
BY DEF TypeOK, Request, SavingPcs

LEMMA RowType ==
  ASSUME TypeOK, NEW s \in Sessions
  PROVE  /\ rows[s].status \in Statuses \cup {""} /\ rows[s].meta \in Metadata
         /\ rows[s].meta.conv \in {0} \cup Conversations
         /\ rows[s].meta.parent \in {0} \cup Sessions /\ rows[s].meta.turn \in Nat
         /\ rows[s].meta.finalized \in BOOLEAN
         /\ rows[s] \in [status : Statuses \cup {""}, meta : Metadata]
         /\ rows[s] = [status |-> rows[s].status, meta |-> rows[s].meta]
         /\ s \in Stored <=> rows[s].status # ""
         /\ s \in Created <=> rows[s].status # ""
         /\ s \in Created <=> s <= created
<1>1. rows[s] \in [status : Statuses \cup {""}, meta : Metadata]
  BY DEF TypeOK
<1>2. rows[s].status \in Statuses \cup {""} /\ rows[s].meta \in Metadata
      /\ rows[s] = [status |-> rows[s].status, meta |-> rows[s].meta]
  BY <1>1
<1>3. (s \in Stored <=> rows[s].status # "") /\ (s \in Created <=> rows[s].status # "")
  BY DEF TypeOK, Stored, Created
<1>4. s \in Created <=> s <= created
  <2>1. created \in 0 .. N
    BY DEF TypeOK
  <2> QED BY <2>1, NAssumption DEF Created, Sessions
<1>5. ASSUME NEW m \in Metadata
      PROVE  /\ m.conv \in {0} \cup Conversations /\ m.parent \in {0} \cup Sessions
             /\ m.turn \in Nat /\ m.finalized \in BOOLEAN
  BY DEF Metadata
<1> QED BY <1>1, <1>2, <1>3, <1>4, <1>5

LEMMA CreatedFacts ==
  ASSUME TypeOK
  PROVE  /\ Created \subseteq Sessions /\ created \in Nat /\ Created = Stored
         /\ created < N => created + 1 \in Sessions /\ created + 1 \notin Created
<1>1. created \in 0 .. N /\ Stored = 1 .. created
  BY DEF TypeOK
<1> QED BY <1>1, NAssumption DEF Created, Sessions

LEMMA RunChanges ==
  ASSUME TypeOK, NEW a \in Actors, NEW v \in Run, run' = [run EXCEPT ![a] = v]
  PROVE  /\ run' \in [Actors -> Run] /\ run'[a] = v
         /\ \A b \in Actors \ {a} : run'[b] = run[b]
BY DEF TypeOK

LEMMA ReqChanges ==
  ASSUME TypeOK, NEW r \in Requests, NEW v \in Request, req' = [req EXCEPT ![r] = v]
  PROVE  /\ req' \in [Requests -> Request] /\ req'[r] = v
         /\ \A q \in Requests \ {r} : req'[q] = req[q]
BY DEF TypeOK

LEMMA RowChanges ==
  ASSUME TypeOK, NEW s \in Sessions, NEW st \in Statuses, NEW m \in Metadata, s \in Created,
         rows' = [rows EXCEPT ![s] = [status |-> st, meta |-> m]], created' = created
  PROVE  /\ rows' \in [Sessions -> [status : Statuses \cup {""}, meta : Metadata]]
         /\ rows'[s].status = st /\ rows'[s].meta = m /\ Stored' = 1 .. created'
         /\ rows'[s] = [status |-> st, meta |-> m]
         /\ \A t \in Sessions \ {s} : rows'[t] = rows[t]
<1>1. /\ rows' \in [Sessions -> [status : Statuses \cup {""}, meta : Metadata]]
      /\ rows'[s].status = st /\ rows'[s].meta = m
      /\ rows'[s] = [status |-> st, meta |-> m]
      /\ \A t \in Sessions \ {s} : rows'[t] = rows[t]
  BY DEF TypeOK
<1>2. Stored' = Stored
  <2>1. rows[s].status # "" /\ st # ""
    BY RowType, Numbers
  <2>2. \A t \in Sessions : rows'[t].status # "" <=> rows[t].status # ""
    BY <1>1, <2>1
  <2> QED BY <2>2 DEF Stored
<1> QED BY <1>1, <1>2 DEF TypeOK

LEMMA Blank ==
  /\ NoMetadata \in Metadata /\ NoMetadata.parent = 0 /\ NoMetadata.conv = 0 /\ NoMetadata.turn = 0
  /\ FreeRun \in Run /\ FreeRun.pc = "free" /\ FreeRun.sid = 0 /\ ~FreeRun.loaded
  /\ FreeRun.meta = NoMetadata /\ FreeRun.status = ""
  /\ Exited \in Run /\ Exited.pc = "exited" /\ Exited.sid = 0 /\ ~Exited.loaded
  /\ IdleRequest \in Request /\ IdleRequest.pc = "idle" /\ IdleRequest.op = "none"
  /\ ~IdleRequest.loaded /\ IdleRequest.parent = 0 /\ IdleRequest.sid = 0
  /\ IdleRequest.meta = NoMetadata /\ IdleRequest.conv = 0 /\ IdleRequest.turn = 0
  /\ Answered \in Request /\ Answered.pc = "done" /\ Answered.op = "none"
  /\ ~Answered.loaded /\ Answered.parent = 0
<1>1. NoMetadata \in Metadata /\ NoMetadata.parent = 0 /\ NoMetadata.conv = 0 /\ NoMetadata.turn = 0
  BY DEF NoMetadata, Metadata
<1>2. /\ FreeRun \in Run /\ FreeRun.pc = "free" /\ FreeRun.sid = 0 /\ ~FreeRun.loaded
      /\ FreeRun.meta = NoMetadata /\ FreeRun.status = ""
  BY <1>1 DEF FreeRun, Run
<1>3. /\ Exited \in Run /\ Exited.pc = "exited" /\ Exited.sid = 0 /\ ~Exited.loaded
  BY <1>1 DEF FreeRun, Run, Exited
<1>4. /\ IdleRequest \in Request /\ IdleRequest.pc = "idle" /\ IdleRequest.op = "none"
      /\ ~IdleRequest.loaded /\ IdleRequest.parent = 0 /\ IdleRequest.sid = 0
      /\ IdleRequest.meta = NoMetadata /\ IdleRequest.conv = 0 /\ IdleRequest.turn = 0
  BY <1>1 DEF IdleRequest, Request
<1>5. /\ Answered \in Request /\ Answered.pc = "done" /\ Answered.op = "none"
      /\ ~Answered.loaded /\ Answered.parent = 0
  BY <1>1, <1>4 DEF Answered, Request
<1> QED BY <1>1, <1>2, <1>3, <1>4, <1>5

(* A run in progress has a session, which is stored.                       *)
LEMMA RunSession ==
  ASSUME TypeOK, NEW a \in Actors, Placed(a), run[a].pc \notin {"free", "exited"}
  PROVE  /\ run[a].sid \in Created /\ run[a].sid \in Sessions /\ run[a].sid # 0
         /\ run[a].sid \in Stored
BY RunType, CreatedFacts, Numbers DEF Placed

-----------------------------------------------------------------------------
(* A step of a run other than its first and its last: whatever it stores,  *)
(* it stores of its own session.                                           *)
LEMMA RunKeepsRequests ==
  ASSUME IInv, TypeOK', NEW a \in Actors, NEW s \in Sessions, s = run[a].sid, s \in Created,
         run'[a].sid = s, \A b \in Actors \ {a} : run'[b] = run[b],
         created' = created, req' = req, raced' = raced,
         \A t \in Sessions \ {s} : rows'[t] = rows[t] /\ outcome'[t] = outcome[t],
         s \notin raced => /\ rows'[s].meta.conv = rows[s].meta.conv
                           /\ rows'[s].meta.parent = rows[s].meta.parent
                           /\ rows'[s].meta.turn = rows[s].meta.turn,
         run'[a].loaded /\ s \notin raced => run'[a].meta = rows'[s].meta
  PROVE  (\A r \in Requests : Asked(r)') /\ Unused' /\ Alone' /\ Chained'
<1>0. /\ TypeOK /\ (\A r \in Requests : Asked(r)) /\ Unused /\ Alone /\ Chained
      /\ (\A b \in Actors : Placed(b))
  BY DEF IInv
<1>c. Created' = Created /\ s # 0 /\ Created \subseteq Sessions /\ s <= created
      /\ Stored' = Stored /\ Stored = Created
  BY <1>0, RowType, CreatedFacts, Numbers DEF Created, TypeOK
<1>r. \A r \in Requests : Saving(r)' = Saving(r)
  BY DEF Saving
<1>1. \A r \in Requests : Asked(r)'
  BY <1>0, <1>c, <1>r DEF Asked
<1>2. Unused'
  <2> SUFFICES ASSUME NEW t \in Sessions, t > created
               PROVE  /\ rows'[t].status = "" /\ rows'[t].meta = NoMetadata
                      /\ outcome'[t] = "" /\ t \notin raced
    BY DEF Unused
  <2>1. t # s
    <3>1. t \in Nat /\ s \in Nat /\ created \in Nat
      BY <1>0, CreatedFacts, Numbers
    <3> QED BY <1>c, <3>1
  <2> QED BY <1>0, <2>1 DEF Unused
<1>3. Alone'
  <2>1. ASSUME NEW r \in Requests, Saving(r), req[r].sid \notin raced
        PROVE  /\ Fresh(req[r].sid)'
               /\ req[r].loaded => req[r].meta = NoMetadata
    <3>1. Fresh(req[r].sid) /\ (req[r].loaded => req[r].meta = NoMetadata)
      BY <1>0, <2>1 DEF Alone
    <3>2. req[r].sid # s /\ req[r].sid \in Sessions
      BY <1>0, <1>c, <2>1, <3>1 DEF Fresh, Asked
    <3>3. \A b \in Actors : run'[b].sid = run[b].sid
      OBVIOUS
    <3> QED BY <3>1, <3>2, <3>3 DEF Fresh
  <2>2. ASSUME NEW b \in Actors, NEW c \in Actors, run'[b].sid = run'[c].sid,
               run'[b].sid \notin raced \cup {0}
        PROVE  b = c
    <3>1. run'[b].sid = run[b].sid /\ run'[c].sid = run[c].sid
      OBVIOUS
    <3> QED BY <1>0, <2>2, <3>1, ZenonT(40) DEF Alone
  <2>3. ASSUME NEW b \in Actors, run'[b].loaded, run'[b].sid \notin raced
        PROVE  run'[b].meta = rows'[run'[b].sid].meta
    <3>1. CASE b = a
      BY <2>3, <3>1
    <3>2. CASE b # a
      <4>1. run'[b] = run[b]
        BY <3>2
      <4>2. run[b].pc \notin {"free", "exited"}
        BY <1>0, <2>3, <4>1, Points DEF Placed
      <4>3. run[b].sid \in Sessions /\ run[b].sid # 0
        BY <1>0, <4>2, RunSession
      <4>4. run[b].sid # s
        BY <1>0, <2>3, <3>2, <4>1, <4>3 DEF Alone
      <4> QED BY <1>0, <2>3, <4>1, <4>3, <4>4 DEF Alone
    <3> QED BY <3>1, <3>2
  <2>4. \A r, q \in Requests : Saving(r)' /\ Saving(q)' /\ req'[r].sid = req'[q].sid => r = q
    BY <1>0, <1>r DEF Alone
  <2> QED BY <1>r, <2>1, <2>2, <2>3, <2>4 DEF Alone
<1>4. Chained'
  <2>1. ASSUME NEW p \in Sessions, NEW c, NEW turn, Follows(p, c, turn)
        PROVE  p \notin raced => ~BeingCreated(p)' /\ ConversationOf(p)' = c /\ turn = rows'[p].meta.turn + 1
    <3> SUFFICES ASSUME p \notin raced
                 PROVE  ~BeingCreated(p)' /\ ConversationOf(p)' = c /\ turn = rows'[p].meta.turn + 1
      OBVIOUS
    <3>1. ~BeingCreated(p)'
      BY <2>1, <1>r DEF Follows, BeingCreated
    <3>2. rows'[p].meta.conv = rows[p].meta.conv /\ rows'[p].meta.turn = rows[p].meta.turn
      BY DEF Follows
    <3> QED BY <2>1, <3>1, <3>2 DEF Follows, ConversationOf
  <2>2. ASSUME NEW t \in Stored \ raced
        PROVE  rows'[t].meta.parent = rows[t].meta.parent /\ ConversationOf(t)' = ConversationOf(t)
               /\ rows'[t].meta.turn = rows[t].meta.turn
    BY <1>c DEF ConversationOf
  <2>3. ASSUME NEW r \in Requests, req[r].op = "reply", req[r].pc = "create" \/ Saving(r)
        PROVE  /\ req[r].parent \in Created /\ req[r].conv \in Conversations
               /\ Saving(r) => req[r].parent < req[r].sid
               /\ Follows(req[r].parent, req[r].conv, req[r].turn)'
    <3>1. /\ req[r].parent \in Created /\ req[r].conv \in Conversations
          /\ Saving(r) => req[r].parent < req[r].sid
          /\ Follows(req[r].parent, req[r].conv, req[r].turn)
      BY <1>0, <2>3 DEF Chained
    <3> QED BY <1>c, <2>1, <3>1 DEF Follows
  <2>4. ASSUME NEW t \in Stored \ raced, rows[t].meta.parent # 0
        PROVE  /\ rows[t].meta.parent < t
               /\ Follows(rows[t].meta.parent, ConversationOf(t), rows[t].meta.turn)'
    <3>1. /\ rows[t].meta.parent < t
          /\ Follows(rows[t].meta.parent, ConversationOf(t), rows[t].meta.turn)
      BY <1>0, <2>4 DEF Chained
    <3>2. rows[t].meta.parent \in Sessions
      BY <1>0, <1>c, <2>4, RowType
    <3> QED BY <2>1, <2>2, <3>1, <3>2 DEF Follows
  <2> QED BY <1>c, <1>r, <2>2, <2>3, <2>4 DEF Chained
<1> QED BY <1>1, <1>2, <1>3, <1>4

LEMMA RunStepKeeps ==
  ASSUME IInv, TypeOK', NEW a \in Actors, NEW s \in Sessions, s = run[a].sid, s \in Created,
         run'[a].sid = s, \A b \in Actors \ {a} : run'[b] = run[b],
         created' = created, req' = req, raced' = raced, restarted' = restarted,
         unsaved \subseteq unsaved',
         \A t \in Sessions \ {s} : rows'[t] = rows[t] /\ outcome'[t] = outcome[t],
         s \notin raced => /\ rows'[s].meta.conv = rows[s].meta.conv
                           /\ rows'[s].meta.parent = rows[s].meta.parent
                           /\ rows'[s].meta.turn = rows[s].meta.turn,
         run'[a].loaded /\ s \notin raced => run'[a].meta = rows'[s].meta,
         \/ slot' = slot /\ ending' = ending
              /\ (run[a].pc \in OnSlot => run'[a].pc \in OnSlot)
         \/ run[a].pc \in OnSlot /\ run'[a].pc \in Closing
              /\ slot' = [slot EXCEPT ![s] = NoActor] /\ ending' = ending \cup {a},
         Placed(a)', run'[a].pc \notin {"free", "exited"},
         \/ rows'[s].status # "running" \/ s \in unsaved' \/ Undecided(run'[a])
         \/ rows'[s].status = rows[s].status /\ ~Undecided(run[a]),
         s \notin unsaved' \cup raced => Telling(a)'
  PROVE  IInv'
<1>0. /\ TypeOK /\ (\A b \in Actors : Placed(b)) /\ SlotsTaken /\ Watched /\ Told /\ Alone
  BY DEF IInv
<1>1. (\A r \in Requests : Asked(r)') /\ Unused' /\ Alone' /\ Chained'
  BY RunKeepsRequests
<1>c. Created' = Created /\ Stored' = Stored /\ Stored = Created /\ Stored \subseteq Sessions
  BY <1>0, CreatedFacts DEF Created, TypeOK
<1>s. \A t \in Sessions \ {s} : slot'[t] = slot[t]
  BY <1>0 DEF TypeOK
<1>2. ASSUME NEW b \in Actors PROVE Placed(b)'
  <2>1. CASE b = a
    BY <2>1
  <2>2. CASE b # a
    <3>1. run'[b] = run[b] /\ (b \in ending' <=> b \in ending) /\ Placed(b)
      BY <1>0, <2>2
    <3>2. run[b].pc \in OnSlot => slot'[run[b].sid] = b
      <4>1. CASE run[b].sid # s
        <5>1. run[b].pc \in OnSlot => run[b].sid \in Sessions /\ slot[run[b].sid] = b
          BY <1>c, <3>1 DEF Placed
        <5> QED BY <1>s, <4>1, <5>1
      <4>2. CASE run[b].sid = s /\ slot' = slot
        BY <3>1, <4>2 DEF Placed
      <4>3. CASE run[b].sid = s /\ run[a].pc \in OnSlot
        <5>1. slot[s] = a
          BY <1>0, <4>3 DEF Placed
        <5> QED BY <2>2, <3>1, <4>3, <5>1 DEF Placed
      <4> QED BY <4>1, <4>2, <4>3
    <3> QED BY <3>1, <3>2, <1>c DEF Placed
  <2> QED BY <2>1, <2>2
<1>3. SlotsTaken'
  <2> SUFFICES ASSUME NEW t \in Sessions, slot'[t] # NoActor
               PROVE  run'[slot'[t]].pc \in OnSlot /\ run'[slot'[t]].sid = t
    BY DEF SlotsTaken
  <2>1. slot'[t] = slot[t]
    BY <1>s, <1>0 DEF TypeOK
  <2>2. slot[t] \in Actors /\ run[slot[t]].pc \in OnSlot /\ run[slot[t]].sid = t
    BY <2>1, <1>0, ZenonT(40) DEF SlotsTaken, TypeOK
  <2>3. CASE slot[t] # a
    BY <2>1, <2>2, <2>3
  <2>4. CASE slot[t] = a
    <3>1. t = s
      BY <2>2, <2>4
    <3>2. slot' = slot
      BY <2>1, <3>1, <1>0 DEF TypeOK
    <3>3. run'[a].pc \in OnSlot
      BY <2>1, <2>2, <2>4, <3>1, <3>2, <1>0 DEF TypeOK
    <3> QED BY <2>1, <2>4, <3>1, <3>3
  <2> QED BY <2>3, <2>4
<1>4. Watched'
  <2> SUFFICES ASSUME ~restarted, NEW t \in Stored, t \notin unsaved', rows'[t].status = "running"
               PROVE  \E b \in Actors : run'[b].sid = t /\ Undecided(run'[b])
    BY <1>c DEF Watched
  <2>1. CASE t = s /\ Undecided(run'[a])
    BY <2>1
  <2>2. CASE ~(t = s /\ Undecided(run'[a]))
    <3>1. rows[t].status = "running" /\ t \notin unsaved /\ (t = s => ~Undecided(run[a]))
      BY <2>2, <1>c
    <3>2. PICK b \in Actors : run[b].sid = t /\ Undecided(run[b])
      BY <3>1, <1>0 DEF Watched
    <3>3. b # a
      BY <3>1, <3>2
    <3> QED BY <3>2, <3>3
  <2> QED BY <2>1, <2>2
<1>5. Told'
  <2>1. ASSUME NEW b \in Actors, run'[b].sid \notin unsaved' \cup raced
        PROVE  Telling(b)'
    <3>1. CASE b = a
      BY <2>1, <3>1
    <3>2. CASE b # a
      <4>1. run'[b] = run[b] /\ Telling(b)
        BY <1>0, <2>1, <3>2 DEF Told
      <4>2. CASE run[b].pc \in {"free", "exited"}
        <5>1. run[b].pc \notin {"finished", "diagnostics", "fatal", "over"}
          BY <4>2
        <5> QED BY <4>1, <5>1 DEF Telling, Tells
      <4>3. CASE run[b].pc \notin {"free", "exited"}
        <5>1. run[b].sid \in Sessions /\ run[b].sid # 0
          BY <1>0, <4>3, RunSession
        <5>2. run[b].sid # s
          BY <1>0, <2>1, <3>2, <4>1, <5>1 DEF Alone
        <5>3. PICK t \in Sessions : t = run[b].sid
          BY <5>1
        <5>4. rows'[t] = rows[t] /\ outcome'[t] = outcome[t]
          BY <5>2, <5>3
        <5> QED BY <4>1, <5>3, <5>4 DEF Telling
      <4> QED BY <4>2, <4>3
    <3> QED BY <3>1, <3>2
  <2>2. ASSUME NEW t \in Stored, t \notin unsaved' \cup raced, AtRest(t)', outcome'[t] # ""
        PROVE  rows'[t].status = outcome'[t] /\ rows'[t].meta.finalized
    <3>1. t # s
      BY <2>2 DEF AtRest
    <3>2. AtRest(t)
      <4>1. slot[t] = NoActor
        BY <1>c, <1>s, <2>2, <3>1 DEF AtRest
      <4>2. ASSUME NEW b \in Actors PROVE run[b].sid # t \/ run[b].pc = "exited"
        BY <2>2, <3>1 DEF AtRest
      <4> QED BY <4>1, <4>2 DEF AtRest
    <3>3. rows[t].status = outcome[t] /\ rows[t].meta.finalized
      BY <1>0, <1>c, <2>2, <3>1, <3>2 DEF Told, LastRunDecides
    <3> QED BY <3>1, <3>3, <1>c
  <2> QED BY <1>c, <2>1, <2>2 DEF Told, LastRunDecides
<1> QED BY <1>1, <1>2, <1>3, <1>4, <1>5 DEF IInv

(* The run of actor a, on session s, becomes v: the slot, the row and the  *)
(* bookkeeping move with it, and what a caller is told stays true.         *)
RunMove(a, s, v) ==
  /\ s = run[a].sid /\ run[a].pc \notin {"free", "exited"}
  /\ run' = [run EXCEPT ![a] = v] /\ v.sid = s /\ v.pc \in OnSlot \cup Closing
  /\ rows' \in [Sessions -> [status : Statuses \cup {""}, meta : Metadata]]
  /\ Stored' = Stored /\ \A t \in Sessions \ {s} : rows'[t] = rows[t]
  /\ s \notin raced => /\ rows'[s].meta.conv = rows[s].meta.conv
                      /\ rows'[s].meta.parent = rows[s].meta.parent
                      /\ rows'[s].meta.turn = rows[s].meta.turn
  /\ outcome' = [outcome EXCEPT ![s] = outcome'[s]] /\ outcome'[s] \in Statuses \cup {""}
  /\ UNCHANGED <<created, open, drained, req, raced, restarted>>
  /\ unsaved' = unsaved \/ unsaved' = unsaved \cup {s}
  /\ v.loaded /\ s \notin raced => v.meta = rows'[s].meta
  /\ \/ slot' = slot /\ ending' = ending
          /\ (run[a].pc \in OnSlot <=> v.pc \in OnSlot)
     \/ run[a].pc \in OnSlot /\ v.pc \in Closing
          /\ slot' = [slot EXCEPT ![s] = NoActor] /\ ending' = ending \cup {a}
  /\ v.loaded => v.pc \in {"begin", "ending", "diagnostics", "fatal"}
  /\ v.pc \in {"begin", "fatal"} => v.status = ""
  /\ v.pc = "ending" => v.loaded /\ v.status \in EndStatuses
  /\ v.pc \in {"finished", "diagnostics"} => v.status \in EndStatuses \cup {""}
  /\ \/ rows'[s].status # "running" \/ s \in unsaved' \/ Undecided(v)
     \/ rows'[s].status = rows[s].status /\ ~Undecided(run[a])
  /\ s \notin unsaved' \cup raced => Tells(v, rows'[s], outcome'[s])

(* A run that moves so keeps the invariant.                                *)
LEMMA RunMoves ==
  ASSUME IInv, NEW a \in Actors, NEW s \in Sessions, NEW v \in Run, RunMove(a, s, v)
  PROVE  IInv'
<1> USE DEF RunMove
<1>0. TypeOK /\ Placed(a) /\ s \in Created
  BY RunSession DEF IInv
<1>1. /\ run' \in [Actors -> Run] /\ run'[a] = v /\ \A b \in Actors \ {a} : run'[b] = run[b]
  BY <1>0, RunChanges
<1>3. /\ outcome' \in [Sessions -> Statuses \cup {""}]
      /\ \A t \in Sessions \ {s} : outcome'[t] = outcome[t]
  BY <1>0 DEF TypeOK
<1>4. slot' \in [Sessions -> Actors \cup {NoActor}] /\ ending' \subseteq Actors
  BY <1>0 DEF TypeOK
<1>5. unsaved' \subseteq Sessions
  BY <1>0, ZenonT(40) DEF TypeOK
<1>6. TypeOK'
  BY <1>0, <1>1, <1>3, <1>4, <1>5 DEF TypeOK
<1>7. Placed(a)'
  <2>1. v.pc \notin {"free", "exited"} /\ (v.pc \in Closing <=> v.pc \notin OnSlot)
        /\ (run[a].pc \in Closing <=> run[a].pc \notin OnSlot)
    BY <1>0, Points, RunType
  <2>2. v.pc \in OnSlot => slot'[s] = a
    BY <1>0, <2>1 DEF Placed
  <2>3. v.pc \in Closing <=> a \in ending'
    BY <1>0, <2>1 DEF Placed
  <2>4. s \in Created'
    BY <1>0 DEF Created
  <2> QED BY <1>1, <2>1, <2>2, <2>3, <2>4, ZenonT(40) DEF Placed
<1>8. s \notin unsaved' \cup raced => Telling(a)'
  <2>1. run'[a] = v /\ run'[a].sid = s
    BY <1>1
  <2> QED BY <2>1 DEF Telling
<1>9. run'[a].pc \notin {"free", "exited"}
  BY <1>1, Points
<1>10. \/ slot' = slot /\ ending' = ending
            /\ (run[a].pc \in OnSlot => run'[a].pc \in OnSlot)
       \/ run[a].pc \in OnSlot /\ run'[a].pc \in Closing
            /\ slot' = [slot EXCEPT ![s] = NoActor] /\ ending' = ending \cup {a}
  BY <1>1
<1>11. /\ run'[a].sid = s /\ unsaved \subseteq unsaved'
       /\ (run'[a].loaded /\ s \notin raced => run'[a].meta = rows'[s].meta)
       /\ \/ rows'[s].status # "running" \/ s \in unsaved' \/ Undecided(run'[a])
          \/ rows'[s].status = rows[s].status /\ ~Undecided(run[a])
  BY <1>1
<1>12. \A t \in Sessions \ {s} : rows'[t] = rows[t] /\ outcome'[t] = outcome[t]
  BY <1>3
<1> QED BY <1>0, <1>1, <1>6, <1>7, <1>8, <1>9, <1>10, <1>11, <1>12, RunStepKeeps

LEMMA SameRow ==
  ASSUME TypeOK, NEW s \in Sessions
  PROVE  /\ rows = [rows EXCEPT ![s] = [status |-> rows[s].status, meta |-> rows[s].meta]]
         /\ outcome = [outcome EXCEPT ![s] = outcome[s]] /\ outcome[s] \in Statuses \cup {""}
         /\ rows[s].meta \in Metadata /\ (s \in Created => rows[s].status \in Statuses)
<1>1. rows[s] = [status |-> rows[s].status, meta |-> rows[s].meta]
  BY RowType
<1>2. rows = [rows EXCEPT ![s] = rows[s]]
  BY DEF TypeOK
<1>3. outcome = [outcome EXCEPT ![s] = outcome[s]] /\ outcome[s] \in Statuses \cup {""}
  BY DEF TypeOK
<1> QED BY <1>1, <1>2, <1>3, RowType

LEMMA GoesOn ==
  ASSUME TypeOK, NEW a \in Actors, NEW p \in OnSlot \cup Closing, RunGoesOn(a, p)
  PROVE  \E v \in Run : /\ run' = [run EXCEPT ![a] = v] /\ v.pc = p /\ v.sid = run[a].sid
                        /\ ~v.loaded /\ v.status = run[a].status
<1> DEFINE v == [run[a] EXCEPT !.pc = p, !.loaded = FALSE, !.meta = NoMetadata]
<1>1. run' = [run EXCEPT ![a] = v]
  BY DEF RunGoesOn, TypeOK
<1>2. v \in Run /\ v.pc = p /\ v.sid = run[a].sid /\ ~v.loaded /\ v.status = run[a].status
  BY RunType, Blank DEF Run, OnSlot, Closing
<1> HIDE DEF v
<1> QED BY <1>1, <1>2

(* What a run that is under way may rely on.                               *)
LEMMA RunFacts ==
  ASSUME IInv, NEW a \in Actors, run[a].pc \in OnSlot \cup Closing
  PROVE  /\ TypeOK /\ Placed(a) /\ run[a] \in Run /\ run[a].pc \notin {"free", "exited"}
         /\ run[a].sid \in Sessions /\ run[a].sid \in Created
         /\ rows[run[a].sid].status \in Statuses /\ run[a].meta \in Metadata
         /\ run[a].loaded /\ run[a].sid \notin raced => run[a].meta = rows[run[a].sid].meta
         /\ run[a].sid \notin unsaved \cup raced =>
              Tells(run[a], rows[run[a].sid], outcome[run[a].sid])
<1>1. TypeOK /\ Placed(a) /\ Alone /\ Told
  BY DEF IInv
<1>2. run[a].pc \notin {"free", "exited"}
  BY Points
<1>3. run[a].sid \in Sessions /\ run[a].sid \in Created
  BY <1>1, <1>2, RunSession
<1>4. rows[run[a].sid].status \in Statuses
  BY <1>1, <1>3, SameRow
<1>5. run[a].sid \notin unsaved \cup raced =>
        Tells(run[a], rows[run[a].sid], outcome[run[a].sid])
  BY <1>1 DEF Told, Telling
<1>6. run[a].loaded /\ run[a].sid \notin raced => run[a].meta = rows[run[a].sid].meta
  BY <1>1 DEF Alone
<1> QED BY <1>1, <1>2, <1>3, <1>4, <1>5, <1>6, RunType

LEMMA QuietRunSteps ==
  ASSUME IInv, NEW a \in Actors, RunLoads(a) \/ RunEnds(a) \/ RunFails(a) \/ LeavesSlot(a)
  PROVE  IInv'
<1>0. run[a].pc \in OnSlot \cup Closing
  BY Points DEF RunLoads, RunEnds, RunFails, LeavesSlot
<1>1. PICK s \in Sessions : s = run[a].sid
  BY <1>0, RunFacts
<1>2. /\ TypeOK /\ Placed(a) /\ run[a] \in Run /\ run[a].pc \notin {"free", "exited"}
      /\ s \in Created /\ rows[s].status \in Statuses /\ rows[s].meta \in Metadata
      /\ outcome[s] \in Statuses \cup {""}
      /\ s \notin unsaved \cup raced => Tells(run[a], rows[s], outcome[s])
  BY <1>0, <1>1, RunFacts, SameRow
<1>3. UNCHANGED <<created, rows, open, drained, req, unsaved, raced, restarted>>
  BY DEF RunLoads, RunEnds, RunFails, LeavesSlot, history, manager, Manager!Retire
<1>4. /\ rows' \in [Sessions -> [status : Statuses \cup {""}, meta : Metadata]]
      /\ Stored' = Stored /\ rows' = rows
  BY <1>2, <1>3 DEF TypeOK, Stored
<1>5. /\ s = run[a].sid /\ run[a].pc \notin {"free", "exited"}
      /\ \A t \in Sessions \ {s} : rows'[t] = rows[t]
      /\ s \notin raced => /\ rows'[s].meta.conv = rows[s].meta.conv
                          /\ rows'[s].meta.parent = rows[s].meta.parent
                          /\ rows'[s].meta.turn = rows[s].meta.turn
      /\ UNCHANGED <<created, open, drained, req, raced, restarted>>
      /\ unsaved' = unsaved \/ unsaved' = unsaved \cup {s}
  BY <1>1, <1>2, <1>3
<1>6. CASE RunLoads(a)
  <2> DEFINE v == [run[a] EXCEPT !.loaded = TRUE, !.meta = rows[s].meta]
  <2>1. /\ run' = [run EXCEPT ![a] = v] /\ slot' = slot /\ ending' = ending
        /\ outcome' = [outcome EXCEPT ![s] = outcome'[s]] /\ outcome'[s] = outcome[s]
        /\ run[a].pc \in {"begin", "diagnostics", "fatal"}
    BY <1>1, <1>2, <1>6, SameRow DEF RunLoads, TypeOK, manager, history
  <2>2. /\ v \in Run /\ v.pc = run[a].pc /\ v.sid = s /\ v.loaded /\ v.meta = rows[s].meta
        /\ v.status = run[a].status
    BY <1>1, <1>2 DEF Run
  <2> HIDE DEF v
  <2>3. (s \notin unsaved \cup raced => Tells(v, rows'[s], outcome'[s])) /\ v.meta = rows'[s].meta
    BY <1>2, <1>4, <2>1, <2>2 DEF Tells, Outcome
  <2>4. Undecided(v) \/ ~Undecided(run[a])
    BY <2>2 DEF Undecided
  <2>5. (v.pc \in {"begin", "fatal"} => v.status = "")
        /\ (v.pc \in {"finished", "diagnostics"} => v.status \in EndStatuses \cup {""})
        /\ v.pc # "ending" /\ v.pc \in {"begin", "ending", "diagnostics", "fatal"}
        /\ v.pc \in OnSlot \cup Closing /\ (run[a].pc \in OnSlot <=> v.pc \in OnSlot)
    BY <1>0, <1>2, <2>1, <2>2 DEF Placed
  <2>6. outcome'[s] \in Statuses \cup {""}
    BY <1>2, <2>1
  <2>7. \/ slot' = slot /\ ending' = ending
             /\ (run[a].pc \in OnSlot <=> v.pc \in OnSlot)
        \/ run[a].pc \in OnSlot /\ v.pc \in Closing
             /\ slot' = [slot EXCEPT ![s] = NoActor] /\ ending' = ending \cup {a}
    BY <2>1, <2>2, <2>3, <2>4, <2>5, <2>6
  <2>8. /\ \/ rows'[s].status # "running" \/ s \in unsaved' \/ Undecided(v)
           \/ rows'[s].status = rows[s].status /\ ~Undecided(run[a])
        /\ s \notin unsaved' \cup raced => Tells(v, rows'[s], outcome'[s])
        /\ v.loaded /\ s \notin raced => v.meta = rows'[s].meta
    BY <1>3, <1>4, <2>1, <2>2, <2>3, <2>4, <2>5, <2>6
  <2>9. /\ v.loaded => v.pc \in {"begin", "ending", "diagnostics", "fatal"}
        /\ v.pc \in {"begin", "fatal"} => v.status = ""
        /\ v.pc = "ending" => v.loaded /\ v.status \in EndStatuses
        /\ v.pc \in {"finished", "diagnostics"} => v.status \in EndStatuses \cup {""}
    BY <2>1, <2>2, <2>3, <2>4, <2>5, <2>6
  <2>10. /\ run' = [run EXCEPT ![a] = v] /\ v \in Run /\ v.sid = s /\ v.pc \in OnSlot \cup Closing
         /\ outcome' = [outcome EXCEPT ![s] = outcome'[s]] /\ outcome'[s] \in Statuses \cup {""}
    BY <2>1, <2>2, <2>3, <2>4, <2>5, <2>6
  <2>11. RunMove(a, s, v)
    BY <1>4, <1>5, <2>7, <2>8, <2>9, <2>10 DEF RunMove
  <2> QED BY <2>11, <2>10, RunMoves
<1>7. CASE RunEnds(a)
  <2>1. PICK status \in EndStatuses :
          run' = [run EXCEPT ![a].pc = "ending", ![a].status = status, ![a].loaded = TRUE,
                             ![a].meta = rows[run[a].sid].meta]
    BY <1>7 DEF RunEnds
  <2> DEFINE v == [run[a] EXCEPT !.pc = "ending", !.status = status, !.loaded = TRUE,
                                 !.meta = rows[s].meta]
  <2>2. /\ run' = [run EXCEPT ![a] = v] /\ slot' = slot /\ ending' = ending
        /\ outcome' = [outcome EXCEPT ![s] = outcome'[s]] /\ outcome'[s] = outcome[s] /\ run[a].pc = "running"
    BY <1>1, <1>2, <1>7, <2>1, SameRow DEF RunEnds, TypeOK, manager, history
  <2>3. /\ v \in Run /\ v.pc = "ending" /\ v.sid = s /\ v.loaded /\ v.meta = rows[s].meta
        /\ v.status \in EndStatuses
    BY <1>1, <1>2, <2>1, Numbers DEF Run
  <2> HIDE DEF v
  <2>4. Tells(v, rows'[s], outcome'[s]) /\ v.meta = rows'[s].meta
    BY <1>4, <2>3 DEF Tells
  <2>5. Undecided(v) /\ v.pc \in OnSlot /\ run[a].pc \in OnSlot
    BY <2>2, <2>3, Points DEF Undecided
  <2>6. outcome'[s] \in Statuses \cup {""} /\ v.pc \notin {"begin", "fatal", "finished", "diagnostics"}
    BY <1>2, <2>2, <2>3
  <2>7. \/ slot' = slot /\ ending' = ending
             /\ (run[a].pc \in OnSlot <=> v.pc \in OnSlot)
        \/ run[a].pc \in OnSlot /\ v.pc \in Closing
             /\ slot' = [slot EXCEPT ![s] = NoActor] /\ ending' = ending \cup {a}
    BY <2>2, <2>3, <2>4, <2>5, <2>6
  <2>8. /\ \/ rows'[s].status # "running" \/ s \in unsaved' \/ Undecided(v)
           \/ rows'[s].status = rows[s].status /\ ~Undecided(run[a])
        /\ s \notin unsaved' \cup raced => Tells(v, rows'[s], outcome'[s])
        /\ v.loaded /\ s \notin raced => v.meta = rows'[s].meta
    BY <1>3, <1>4, <2>2, <2>3, <2>4, <2>5, <2>6
  <2>9. /\ v.loaded => v.pc \in {"begin", "ending", "diagnostics", "fatal"}
        /\ v.pc \in {"begin", "fatal"} => v.status = ""
        /\ v.pc = "ending" => v.loaded /\ v.status \in EndStatuses
        /\ v.pc \in {"finished", "diagnostics"} => v.status \in EndStatuses \cup {""}
    BY <2>2, <2>3, <2>4, <2>5, <2>6
  <2>10. /\ run' = [run EXCEPT ![a] = v] /\ v \in Run /\ v.sid = s /\ v.pc \in OnSlot \cup Closing
         /\ outcome' = [outcome EXCEPT ![s] = outcome'[s]] /\ outcome'[s] \in Statuses \cup {""}
    BY <2>2, <2>3, <2>4, <2>5, <2>6
  <2>11. RunMove(a, s, v)
    BY <1>4, <1>5, <2>7, <2>8, <2>9, <2>10 DEF RunMove
  <2> QED BY <2>11, <2>10, RunMoves
<1>8. CASE RunFails(a)
  <2> DEFINE v == [run[a] EXCEPT !.pc = "finished", !.status = "", !.loaded = FALSE,
                                 !.meta = NoMetadata]
  <2>1. /\ run' = [run EXCEPT ![a] = v] /\ slot' = slot /\ ending' = ending
        /\ outcome' = [outcome EXCEPT ![s] = outcome'[s]] /\ outcome'[s] = "fatal_error" /\ run[a].pc \in {"begin", "ending"}
    BY <1>1, <1>2, <1>8 DEF RunFails, TypeOK, manager, history
  <2>2. v \in Run /\ v.pc = "finished" /\ v.sid = s /\ ~v.loaded /\ v.status = ""
    BY <1>1, <1>2, Blank DEF Run
  <2> HIDE DEF v
  <2>3. Tells(v, rows'[s], outcome'[s]) /\ v.status \in EndStatuses \cup {""}
    BY <2>1, <2>2 DEF Tells, Outcome
  <2>4. Undecided(v) /\ v.pc \in OnSlot /\ run[a].pc \in OnSlot
    BY <2>1, <2>2, Points DEF Undecided
  <2>5. outcome'[s] \in Statuses \cup {""}
    BY <2>1 DEF Statuses, TerminalStatuses
  <2>6. \/ slot' = slot /\ ending' = ending
             /\ (run[a].pc \in OnSlot <=> v.pc \in OnSlot)
        \/ run[a].pc \in OnSlot /\ v.pc \in Closing
             /\ slot' = [slot EXCEPT ![s] = NoActor] /\ ending' = ending \cup {a}
    BY <2>1, <2>2, <2>3, <2>4, <2>5
  <2>7. /\ \/ rows'[s].status # "running" \/ s \in unsaved' \/ Undecided(v)
           \/ rows'[s].status = rows[s].status /\ ~Undecided(run[a])
        /\ s \notin unsaved' \cup raced => Tells(v, rows'[s], outcome'[s])
        /\ v.loaded /\ s \notin raced => v.meta = rows'[s].meta
    BY <1>3, <1>4, <2>1, <2>2, <2>3, <2>4, <2>5
  <2>8. /\ v.loaded => v.pc \in {"begin", "ending", "diagnostics", "fatal"}
        /\ v.pc \in {"begin", "fatal"} => v.status = ""
        /\ v.pc = "ending" => v.loaded /\ v.status \in EndStatuses
        /\ v.pc \in {"finished", "diagnostics"} => v.status \in EndStatuses \cup {""}
    BY <2>1, <2>2, <2>3, <2>4, <2>5
  <2>9. /\ run' = [run EXCEPT ![a] = v] /\ v \in Run /\ v.sid = s /\ v.pc \in OnSlot \cup Closing
        /\ outcome' = [outcome EXCEPT ![s] = outcome'[s]] /\ outcome'[s] \in Statuses \cup {""}
    BY <2>1, <2>2, <2>3, <2>4, <2>5
  <2>10. RunMove(a, s, v)
    BY <1>4, <1>5, <2>6, <2>7, <2>8, <2>9 DEF RunMove
  <2> QED BY <2>10, <2>9, RunMoves
<1>9. CASE LeavesSlot(a)
  <2> DEFINE v == [run[a] EXCEPT !.pc = "diagnostics"]
  <2>1. /\ run' = [run EXCEPT ![a] = v] /\ run[a].pc = "finished" /\ run[a].pc \in OnSlot
        /\ outcome' = [outcome EXCEPT ![s] = outcome'[s]] /\ outcome'[s] = outcome[s]
    BY <1>1, <1>2, <1>9, SameRow, Points DEF LeavesSlot, TypeOK, history
  <2>2. slot[s] = a
    BY <1>1, <1>2, <2>1 DEF Placed
  <2>3. slot' = [slot EXCEPT ![s] = NoActor] /\ ending' = ending \cup {a}
    BY <1>1, <1>9, <2>2 DEF LeavesSlot, Manager!Retire
  <2>4. /\ v \in Run /\ v.pc = "diagnostics" /\ v.sid = s /\ v.loaded = run[a].loaded
        /\ v.status = run[a].status
    BY <1>1, <1>2 DEF Run
  <2>5. ~v.loaded /\ v.status \in EndStatuses \cup {""}
    BY <1>2, <2>1, <2>4 DEF Placed
  <2> HIDE DEF v
  <2>6. s \notin unsaved \cup raced => Tells(v, rows[s], outcome[s])
    BY <1>2, <2>1, <2>4 DEF Tells, Outcome
  <2>7. (Undecided(v) \/ ~Undecided(run[a])) /\ v.pc \in Closing
    BY <2>1, <2>4, Points DEF Undecided
  <2>8. \/ slot' = slot /\ ending' = ending
             /\ (run[a].pc \in OnSlot <=> v.pc \in OnSlot)
        \/ run[a].pc \in OnSlot /\ v.pc \in Closing
             /\ slot' = [slot EXCEPT ![s] = NoActor] /\ ending' = ending \cup {a}
    BY <1>2, <2>1, <2>3, <2>4, <2>5, <2>6, <2>7
  <2>9. /\ \/ rows'[s].status # "running" \/ s \in unsaved' \/ Undecided(v)
           \/ rows'[s].status = rows[s].status /\ ~Undecided(run[a])
        /\ s \notin unsaved' \cup raced => Tells(v, rows'[s], outcome'[s])
        /\ v.loaded /\ s \notin raced => v.meta = rows'[s].meta
    BY <1>3, <1>4, <1>2, <2>1, <2>3, <2>4, <2>5, <2>6, <2>7
  <2>10. /\ v.loaded => v.pc \in {"begin", "ending", "diagnostics", "fatal"}
         /\ v.pc \in {"begin", "fatal"} => v.status = ""
         /\ v.pc = "ending" => v.loaded /\ v.status \in EndStatuses
         /\ v.pc \in {"finished", "diagnostics"} => v.status \in EndStatuses \cup {""}
    BY <1>2, <2>1, <2>3, <2>4, <2>5, <2>6, <2>7
  <2>11. /\ run' = [run EXCEPT ![a] = v] /\ v \in Run /\ v.sid = s /\ v.pc \in OnSlot \cup Closing
         /\ outcome' = [outcome EXCEPT ![s] = outcome'[s]] /\ outcome'[s] \in Statuses \cup {""}
    BY <1>2, <2>1, <2>3, <2>4, <2>5, <2>6, <2>7
  <2>12. RunMove(a, s, v)
    BY <1>4, <1>5, <2>8, <2>9, <2>10, <2>11 DEF RunMove
  <2> QED BY <2>12, <2>11, RunMoves
<1> QED BY <1>6, <1>7, <1>8, <1>9

(* A run that stores its status or its diagnostics.                        *)
LEMMA StoringRunSteps ==
  ASSUME IInv, NEW a \in Actors, SavesRunning(a) \/ SavesEnd(a) \/ SavesDiagnostics(a) \/ SavesFatal(a)
  PROVE  IInv'
<1>0. run[a].pc \in OnSlot \cup Closing /\ run[a].loaded
  <2>1. run[a].pc \in OnSlot \cup Closing /\ (run[a].pc = "ending" \/ run[a].loaded)
    BY Points DEF SavesRunning, SavesEnd, SavesDiagnostics, SavesFatal
  <2>2. Placed(a)
    BY DEF IInv
  <2> QED BY <2>1, <2>2 DEF Placed
<1>1. PICK s \in Sessions : s = run[a].sid
  BY <1>0, RunFacts
<1>2. /\ TypeOK /\ Placed(a) /\ run[a] \in Run /\ run[a].pc \notin {"free", "exited"}
      /\ s \in Created /\ rows[s].status \in Statuses /\ rows[s].meta \in Metadata
      /\ outcome[s] \in Statuses \cup {""} /\ run[a].meta \in Metadata
      /\ s \notin raced => run[a].meta = rows[s].meta
      /\ s \notin unsaved \cup raced => Tells(run[a], rows[s], outcome[s])
  BY <1>0, <1>1, RunFacts, SameRow
<1>3. UNCHANGED <<created, slot, ending, open, drained, req, unsaved, raced, restarted>>
  BY DEF SavesRunning, SavesEnd, SavesDiagnostics, SavesFatal, history, manager
<1>4. \E st \in Statuses, m \in Metadata, p \in OnSlot \cup Closing :
        /\ rows' = [rows EXCEPT ![s] = [status |-> st, meta |-> m]] /\ RunGoesOn(a, p)
        /\ s \notin raced => /\ m.conv = rows[s].meta.conv /\ m.parent = rows[s].meta.parent
                             /\ m.turn = rows[s].meta.turn
        /\ outcome' = [outcome EXCEPT ![s] = outcome'[s]] /\ outcome'[s] \in Statuses \cup {""}
        /\ run[a].pc \in OnSlot <=> p \in OnSlot
        /\ p \in {"running", "finished", "fatal", "over"}
        /\ p = "fatal" => run[a].status = ""
        /\ p = "finished" => run[a].status \in EndStatuses
        /\ \/ st # "running" \/ p = "running"
           \/ st = rows[s].status /\ (Undecided(run[a]) => p = "fatal" /\ run[a].status = "")
        /\ s \notin unsaved \cup raced =>
             /\ p = "finished" => outcome'[s] = run[a].status /\ st = run[a].status
             /\ p = "fatal" => outcome'[s] = "fatal_error" /\ m.finalized
             /\ p = "over" => st = outcome'[s] /\ m.finalized
  <2>1. CASE SavesRunning(a)
    <3>1. /\ rows' = [rows EXCEPT ![s] = [status |-> "running", meta |-> run[a].meta]]
          /\ RunGoesOn(a, "running") /\ run[a].pc = "begin"
      BY <1>1, <2>1 DEF SavesRunning
    <3>2. outcome' = [outcome EXCEPT ![s] = outcome'[s]] /\ outcome'[s] = outcome[s]
      BY <1>2, <2>1, SameRow DEF SavesRunning, history
    <3>3. "running" \in OnSlot /\ "begin" \in OnSlot /\ "running" \in Statuses
      BY Points DEF Statuses
    <3>4. PICK st \in Statuses, m \in Metadata, p \in OnSlot \cup Closing :
            st = "running" /\ m = run[a].meta /\ p = "running"
      BY <1>2, <3>3
    <3> QED BY <1>2, <3>1, <3>2, <3>3, <3>4
  <2>2. CASE SavesEnd(a)
    <3>1. /\ rows' = [rows EXCEPT ![s] = [status |-> run[a].status, meta |-> run[a].meta]]
          /\ RunGoesOn(a, "finished") /\ run[a].pc = "ending"
      BY <1>1, <2>2 DEF SavesEnd
    <3>2. outcome' = [outcome EXCEPT ![s] = outcome'[s]] /\ outcome'[s] = run[a].status
      BY <1>1, <1>2, <2>2 DEF SavesEnd, TypeOK
    <3>3. "finished" \in OnSlot /\ "ending" \in OnSlot
      BY Points
    <3>5. run[a].status \in EndStatuses /\ run[a].status \in Statuses /\ run[a].status # "running"
      BY <1>2, <3>1, Numbers DEF Placed
    <3>4. PICK st \in Statuses, m \in Metadata, p \in OnSlot \cup Closing :
            st = run[a].status /\ m = run[a].meta /\ p = "finished"
      BY <1>2, <3>3, <3>5
    <3>6. /\ rows' = [rows EXCEPT ![s] = [status |-> st, meta |-> m]] /\ RunGoesOn(a, p)
          /\ outcome'[s] = st /\ run[a].status = st /\ st # "running"
      BY <3>1, <3>2, <3>4, <3>5
    <3>7. /\ outcome'[s] \in Statuses \cup {""} /\ run[a].pc \in OnSlot /\ p \in OnSlot
          /\ p = "finished" /\ run[a].status \in EndStatuses
          /\ (s \notin raced => /\ m.conv = rows[s].meta.conv /\ m.parent = rows[s].meta.parent
                                /\ m.turn = rows[s].meta.turn)
      BY <1>2, <3>1, <3>2, <3>3, <3>4, <3>5
    <3> QED BY <3>2, <3>6, <3>7
  <2>3. CASE SavesDiagnostics(a)
    <3>1. /\ rows' = [rows EXCEPT ![s].meta = Finalized(a)]
          /\ RunGoesOn(a, AfterDiagnostics(a)) /\ run[a].pc = "diagnostics"
      BY <1>1, <2>3 DEF SavesDiagnostics
    <3>2. outcome' = [outcome EXCEPT ![s] = outcome'[s]] /\ outcome'[s] = outcome[s]
      BY <1>2, <2>3, SameRow DEF SavesDiagnostics, history
    <3>3. /\ Finalized(a) \in Metadata /\ Finalized(a).finalized
          /\ Finalized(a).conv = run[a].meta.conv /\ Finalized(a).parent = run[a].meta.parent
          /\ Finalized(a).turn = run[a].meta.turn
      BY <1>2 DEF Finalized, Metadata
    <3>4. PICK st \in Statuses, m \in Metadata : st = rows[s].status /\ m = Finalized(a)
      BY <1>2, <3>3
    <3>5. rows' = [rows EXCEPT ![s] = [status |-> st, meta |-> m]]
      <4>1. rows[s] = [status |-> rows[s].status, meta |-> rows[s].meta]
        BY <1>2, RowType
      <4>2. [rows[s] EXCEPT !.meta = m] = [status |-> st, meta |-> m]
        BY <3>4, <4>1
      <4>3. rows' = [rows EXCEPT ![s] = [rows[s] EXCEPT !.meta = m]]
        BY <1>2, <3>1, <3>4 DEF TypeOK
      <4> QED BY <4>2, <4>3
    <3>6. /\ AfterDiagnostics(a) \in {"fatal", "over"} /\ AfterDiagnostics(a) \in OnSlot \cup Closing
          /\ AfterDiagnostics(a) \notin OnSlot /\ run[a].pc \notin OnSlot
          /\ AfterDiagnostics(a) = "fatal" <=> run[a].status = ""
      BY <3>1, Points DEF AfterDiagnostics
    <3>7. Undecided(run[a]) => run[a].status = ""
      BY <3>1 DEF Undecided
    <3>8. s \notin unsaved \cup raced =>
            /\ AfterDiagnostics(a) = "fatal" => outcome'[s] = "fatal_error"
            /\ AfterDiagnostics(a) = "over" => st = outcome'[s]
      BY <1>2, <3>1, <3>2, <3>4, <3>6 DEF Tells, Outcome
    <3>9. PICK p \in OnSlot \cup Closing : p = AfterDiagnostics(a)
      BY <3>6
    <3>10. RunGoesOn(a, p)
      BY <3>1, <3>9
    <3>11. /\ p \in {"fatal", "over"} /\ p \notin OnSlot /\ run[a].pc \notin OnSlot
           /\ (p = "fatal" <=> run[a].status = "") /\ m.finalized
           /\ (s \notin raced => /\ m.conv = rows[s].meta.conv /\ m.parent = rows[s].meta.parent
                                 /\ m.turn = rows[s].meta.turn)
           /\ outcome'[s] \in Statuses \cup {""}
           /\ (s \notin unsaved \cup raced =>
                /\ p = "fatal" => outcome'[s] = "fatal_error"
                /\ p = "over" => st = outcome'[s])
      BY <1>2, <3>2, <3>3, <3>4, <3>6, <3>8, <3>9
    <3> QED BY <3>2, <3>4, <3>5, <3>7, <3>10, <3>11
  <2>4. CASE SavesFatal(a)
    <3>1. /\ rows' = [rows EXCEPT ![s] = [status |-> "fatal_error", meta |-> run[a].meta]]
          /\ RunGoesOn(a, "over") /\ run[a].pc = "fatal"
      BY <1>1, <2>4 DEF SavesFatal
    <3>2. outcome' = [outcome EXCEPT ![s] = outcome'[s]] /\ outcome'[s] = outcome[s]
      BY <1>2, <2>4, SameRow DEF SavesFatal, history
    <3>3. "over" \in Closing /\ "over" \notin OnSlot /\ "fatal" \notin OnSlot /\ "fatal_error" \in Statuses
      BY Points DEF Statuses, TerminalStatuses
    <3>5. s \notin unsaved \cup raced => outcome'[s] = "fatal_error" /\ run[a].meta.finalized
      BY <1>2, <3>1, <3>2 DEF Tells
    <3>4. PICK st \in Statuses, m \in Metadata, p \in OnSlot \cup Closing :
            st = "fatal_error" /\ m = run[a].meta /\ p = "over"
      BY <1>2, <3>3
    <3>6. /\ rows' = [rows EXCEPT ![s] = [status |-> st, meta |-> m]] /\ RunGoesOn(a, p)
          /\ st = "fatal_error" /\ p = "over" /\ p \notin OnSlot /\ run[a].pc \notin OnSlot
      BY <3>1, <3>3, <3>4
    <3>7. /\ outcome'[s] \in Statuses \cup {""}
          /\ (s \notin raced => /\ m.conv = rows[s].meta.conv /\ m.parent = rows[s].meta.parent
                                /\ m.turn = rows[s].meta.turn)
          /\ (s \notin unsaved \cup raced => outcome'[s] = st /\ m.finalized)
      BY <1>2, <3>2, <3>4, <3>5
    <3> QED BY <3>2, <3>6, <3>7
  <2> QED BY <2>1, <2>2, <2>3, <2>4
<1>5. PICK st \in Statuses, m \in Metadata, p \in OnSlot \cup Closing :
        /\ rows' = [rows EXCEPT ![s] = [status |-> st, meta |-> m]] /\ RunGoesOn(a, p)
        /\ s \notin raced => /\ m.conv = rows[s].meta.conv /\ m.parent = rows[s].meta.parent
                             /\ m.turn = rows[s].meta.turn
        /\ outcome' = [outcome EXCEPT ![s] = outcome'[s]] /\ outcome'[s] \in Statuses \cup {""}
        /\ run[a].pc \in OnSlot <=> p \in OnSlot
        /\ p \in {"running", "finished", "fatal", "over"}
        /\ p = "fatal" => run[a].status = ""
        /\ p = "finished" => run[a].status \in EndStatuses
        /\ \/ st # "running" \/ p = "running"
           \/ st = rows[s].status /\ (Undecided(run[a]) => p = "fatal" /\ run[a].status = "")
        /\ s \notin unsaved \cup raced =>
             /\ p = "finished" => outcome'[s] = run[a].status /\ st = run[a].status
             /\ p = "fatal" => outcome'[s] = "fatal_error" /\ m.finalized
             /\ p = "over" => st = outcome'[s] /\ m.finalized
  BY <1>4
<1>6. /\ rows' \in [Sessions -> [status : Statuses \cup {""}, meta : Metadata]]
      /\ rows'[s].status = st /\ rows'[s].meta = m /\ Stored' = Stored
      /\ \A t \in Sessions \ {s} : rows'[t] = rows[t]
  <2>1. Stored = 1 .. created
    BY <1>2 DEF TypeOK
  <2> QED BY <1>2, <1>3, <1>5, <2>1, RowChanges
<1>7. PICK v \in Run : /\ run' = [run EXCEPT ![a] = v] /\ v.pc = p /\ v.sid = s
                        /\ ~v.loaded /\ v.status = run[a].status
  BY <1>1, <1>2, <1>5, GoesOn
<1>8. s \notin unsaved \cup raced => Tells(v, rows'[s], outcome'[s])
  <2>1. v.status \in EndStatuses => v.status # ""
    BY Numbers
  <2> QED BY <1>5, <1>6, <1>7, <2>1 DEF Tells, Outcome
<1>9. \/ rows'[s].status # "running" \/ Undecided(v)
      \/ rows'[s].status = rows[s].status /\ ~Undecided(run[a])
  BY <1>5, <1>6, <1>7 DEF Undecided
<1>10. /\ v.pc # "begin" /\ (v.pc = "fatal" => v.status = "") /\ v.pc # "ending"
       /\ (v.pc \in {"finished", "diagnostics"} => v.status \in EndStatuses \cup {""})
       /\ v.pc \in OnSlot \cup Closing /\ (run[a].pc \in OnSlot <=> v.pc \in OnSlot)
  BY <1>5, <1>7
<1>11. s \notin raced => /\ rows'[s].meta.conv = rows[s].meta.conv
                         /\ rows'[s].meta.parent = rows[s].meta.parent
                         /\ rows'[s].meta.turn = rows[s].meta.turn
  BY <1>5, <1>6
<1>12. outcome' = [outcome EXCEPT ![s] = outcome'[s]] /\ outcome'[s] \in Statuses \cup {""}
  BY <1>5
<1>13. slot' = slot /\ ending' = ending /\ unsaved' = unsaved /\ ~v.loaded
       /\ UNCHANGED <<created, open, drained, req, raced, restarted>>
       /\ (s \notin unsaved' \cup raced => Tells(v, rows'[s], outcome'[s]))
       /\ (v.pc \in {"begin", "fatal"} => v.status = "")
  BY <1>3, <1>7, <1>8, <1>10
<1>14. /\ s = run[a].sid /\ run[a].pc \notin {"free", "exited"}
       /\ run' = [run EXCEPT ![a] = v] /\ v.sid = s /\ v.pc \in OnSlot \cup Closing
       /\ \A t \in Sessions \ {s} : rows'[t] = rows[t]
       /\ Stored' = Stored
  BY <1>1, <1>2, <1>6, <1>7, <1>10
<1>15. /\ v.loaded => v.pc \in {"begin", "ending", "diagnostics", "fatal"}
       /\ v.pc = "ending" => v.loaded /\ v.status \in EndStatuses
       /\ v.pc \in {"finished", "diagnostics"} => v.status \in EndStatuses \cup {""}
       /\ v.loaded /\ s \notin raced => v.meta = rows'[s].meta
       /\ slot' = slot /\ ending' = ending /\ (run[a].pc \in OnSlot <=> v.pc \in OnSlot)
  BY <1>10, <1>13
<1>16. RunMove(a, s, v)
  BY <1>6, <1>9, <1>11, <1>12, <1>13, <1>14, <1>15 DEF RunMove
<1> QED BY <1>16, <1>7, RunMoves

(* What the finalizer does not store it need not keep.                     *)
LEMMA FinalizerGivesUp ==
  ASSUME IInv, NEW a \in Actors, FinalizerFails(a)
  PROVE  IInv'
<1>0. run[a].pc \in OnSlot \cup Closing /\ run[a].pc \in {"diagnostics", "fatal"}
      /\ run[a].pc \in Closing /\ run[a].pc \notin OnSlot
  BY Points DEF FinalizerFails
<1>1. PICK s \in Sessions : s = run[a].sid
  BY <1>0, RunFacts
<1>2. /\ TypeOK /\ run[a].pc \notin {"free", "exited"} /\ s \in Created
  BY <1>0, <1>1, RunFacts
<1>3. PICK p \in OnSlot \cup Closing :
        /\ RunGoesOn(a, p) /\ p \in {"fatal", "over"} /\ p \in Closing /\ p \notin OnSlot
        /\ p = "fatal" => run[a].status = ""
  <2> DEFINE q == IF run[a].pc = "fatal" THEN "over" ELSE AfterDiagnostics(a)
  <2>1. q \in {"fatal", "over"} /\ (q = "fatal" => run[a].status = "")
    BY DEF AfterDiagnostics
  <2>2. RunGoesOn(a, q)
    BY DEF FinalizerFails
  <2> HIDE DEF q
  <2> QED BY <2>1, <2>2, Points
<1>4. PICK v \in Run : /\ run' = [run EXCEPT ![a] = v] /\ v.pc = p /\ v.sid = s
                        /\ ~v.loaded /\ v.status = run[a].status
  BY <1>1, <1>2, <1>3, GoesOn, ZenonT(40)
<1>5. /\ UNCHANGED <<created, open, drained, req, raced, restarted>>
      /\ rows' = rows /\ outcome' = outcome /\ slot' = slot /\ ending' = ending
      /\ unsaved' = unsaved \cup {s}
  BY <1>1 DEF FinalizerFails, manager
<1>6. /\ rows' \in [Sessions -> [status : Statuses \cup {""}, meta : Metadata]]
      /\ Stored' = Stored /\ \A t \in Sessions \ {s} : rows'[t] = rows[t]
      /\ outcome' = [outcome EXCEPT ![s] = outcome'[s]] /\ outcome'[s] \in Statuses \cup {""}
      /\ rows'[s].meta.conv = rows[s].meta.conv
      /\ rows'[s].meta.parent = rows[s].meta.parent
      /\ rows'[s].meta.turn = rows[s].meta.turn
  BY <1>2, <1>5, SameRow DEF TypeOK, Stored
<1>7. /\ s = run[a].sid /\ run[a].pc \notin {"free", "exited"}
      /\ run' = [run EXCEPT ![a] = v] /\ v.sid = s /\ v.pc \in OnSlot \cup Closing
      /\ s \in unsaved' /\ s \in unsaved' \cup raced
  BY <1>1, <1>2, <1>4, <1>5
<1>8. /\ v.loaded => v.pc \in {"begin", "ending", "diagnostics", "fatal"}
      /\ v.pc \in {"begin", "fatal"} => v.status = ""
      /\ v.pc = "ending" => v.loaded /\ v.status \in EndStatuses
      /\ v.pc \in {"finished", "diagnostics"} => v.status \in EndStatuses \cup {""}
      /\ v.loaded /\ s \notin raced => v.meta = rows'[s].meta
      /\ slot' = slot /\ ending' = ending /\ (run[a].pc \in OnSlot <=> v.pc \in OnSlot)
  BY <1>0, <1>3, <1>4, <1>5
<1>9. RunMove(a, s, v)
  BY <1>5, <1>6, <1>7, <1>8 DEF RunMove
<1> QED BY <1>9, <1>4, RunMoves

-----------------------------------------------------------------------------
(* The last step of a run: now its outcome is what is stored.              *)
LEMMA RunIsOver ==
  ASSUME IInv, NEW a \in Actors, RunOver(a)
  PROVE  IInv'
<1>0. /\ TypeOK /\ (\A b \in Actors : Placed(b)) /\ SlotsTaken /\ Unused /\ Alone /\ Watched
      /\ Told /\ Chained /\ (\A r \in Requests : Asked(r))
  BY DEF IInv
<1>1. /\ run' = [run EXCEPT ![a] = Exited] /\ ending' = ending \ {a} /\ run[a].pc = "over"
      /\ UNCHANGED <<created, rows, slot, open, drained, req, unsaved, raced, outcome, restarted>>
  BY DEF RunOver, Manager!End, history
<1>2. /\ run' \in [Actors -> Run] /\ run'[a] = Exited /\ \A b \in Actors \ {a} : run'[b] = run[b]
  BY <1>0, <1>1, Blank, RunChanges
<1>3. TypeOK'
  <2>1. ending' \subseteq Actors
    BY <1>0, <1>1 DEF TypeOK
  <2> QED BY <1>0, <1>1, <1>2, <2>1 DEF TypeOK, Stored
<1>c. Created' = Created /\ Stored' = Stored /\ Created = Stored /\ Created \subseteq Sessions
  BY <1>0, <1>1, CreatedFacts DEF Created, Stored
<1>4. \A b \in Actors : Placed(b)'
  <2>1. Placed(a)'
    <3>1. run'[a].pc = "exited" /\ run'[a].sid = 0 /\ ~run'[a].loaded /\ a \notin ending'
      BY <1>1, <1>2, Blank
    <3>2. run'[a].pc \notin OnSlot /\ run'[a].pc \notin Closing
      BY <3>1, Points
    <3> QED BY <3>1, <3>2 DEF Placed
  <2>2. ASSUME NEW b \in Actors, b # a PROVE Placed(b)'
    <3>1. run'[b] = run[b] /\ (b \in ending' <=> b \in ending) /\ slot' = slot /\ Placed(b)
      BY <1>0, <1>1, <1>2, <2>2
    <3> QED BY <3>1, <1>c DEF Placed
  <2> QED BY <2>1, <2>2
<1>5. SlotsTaken'
  <2>1. run[a].pc \notin OnSlot
    BY <1>1, Points
  <2>2. \A t \in Sessions : slot[t] \in Actors \cup {NoActor}
    BY <1>0 DEF TypeOK
  <2> QED BY <1>0, <1>1, <1>2, <2>1, <2>2 DEF SlotsTaken
<1>6. (\A r \in Requests : Asked(r)') /\ Unused' /\ Chained'
  <2>1. \A r \in Requests : Asked(r)'
    BY <1>0, <1>1, <1>c DEF Asked, Saving
  <2>2. Unused'
    BY <1>0, <1>1 DEF Unused
  <2>3. Chained'
    BY <1>0, <1>1, <1>c DEF Chained, Follows, BeingCreated, Saving, ConversationOf
  <2> QED BY <2>1, <2>2, <2>3
<1>7. Alone'
  <2>1. ASSUME NEW b \in Actors PROVE run'[b] = run[b] \/ (run'[b].sid = 0 /\ ~run'[b].loaded)
    <3>1. CASE b = a
      <4>1. run'[b].sid = Exited.sid /\ run'[b].loaded = Exited.loaded
        BY <1>2, <3>1
      <4> QED BY <4>1, Blank
    <3>2. CASE b # a
      <4>1. run'[b] = run[b]
        BY <1>2, <3>2
      <4> QED BY <4>1
    <3> QED BY <3>1, <3>2
  <2>2. ASSUME NEW r \in Requests, Saving(r), req[r].sid \notin raced
        PROVE  Fresh(req[r].sid)' /\ (req[r].loaded => req[r].meta = NoMetadata)
    <3>1. Fresh(req[r].sid) /\ (req[r].loaded => req[r].meta = NoMetadata) /\ req[r].sid # 0
      BY <1>0, <1>c, <2>2, Numbers DEF Alone, Asked
    <3> QED BY <1>1, <2>1, <3>1 DEF Fresh
  <2>3. \A r, q \in Requests : Saving(r) /\ Saving(q) /\ req[r].sid = req[q].sid => r = q
    BY <1>0 DEF Alone
  <2>4. \A b, c \in Actors : run'[b].sid = run'[c].sid /\ run'[b].sid \notin raced \cup {0} => b = c
    BY <1>0, <2>1 DEF Alone
  <2>5. \A b \in Actors : run'[b].loaded /\ run'[b].sid \notin raced =>
          run'[b].meta = rows[run'[b].sid].meta
    BY <1>0, <2>1 DEF Alone
  <2> QED BY <1>1, <2>2, <2>3, <2>4, <2>5 DEF Alone, Saving
<1>8. Watched'
  <2>1. ~Undecided(run[a])
    BY <1>1 DEF Undecided
  <2>2. \A t : (\E b \in Actors : run[b].sid = t /\ Undecided(run[b])) =>
          \E b \in Actors : run'[b].sid = t /\ Undecided(run'[b])
    BY <1>2, <2>1
  <2> QED BY <1>0, <1>1, <1>c, <2>2 DEF Watched
<1>9. Told'
  <2>1. ASSUME NEW b \in Actors, run'[b].sid \notin unsaved \cup raced PROVE Telling(b)'
    <3>1. CASE b = a
      BY <1>2, <3>1, Blank DEF Telling, Tells
    <3>2. CASE b # a
      BY <1>0, <1>1, <1>2, <2>1, <3>2 DEF Told, Telling
    <3> QED BY <3>1, <3>2
  <2>2. ASSUME NEW t \in Stored, t \notin unsaved \cup raced, AtRest(t)', outcome[t] # ""
        PROVE  rows[t].status = outcome[t] /\ rows[t].meta.finalized
    <3>1. CASE t = run[a].sid
      BY <1>0, <1>1, <2>2, <3>1 DEF Told, Telling, Tells
    <3>2. CASE t # run[a].sid
      <4>1. AtRest(t)
        BY <1>1, <1>2, <2>2, <3>2 DEF AtRest
      <4> QED BY <1>0, <2>2, <4>1 DEF Told, LastRunDecides
    <3> QED BY <3>1, <3>2
  <2> QED BY <1>1, <1>c, <2>1, <2>2 DEF Told, LastRunDecides
<1> QED BY <1>3, <1>4, <1>5, <1>6, <1>7, <1>8, <1>9 DEF IInv

-----------------------------------------------------------------------------
(* A step of a handler that neither stores nor starts anything; w is what  *)
(* becomes of the handler.                                                 *)
LEMMA RequestMoves ==
  ASSUME IInv, NEW r \in Requests, NEW w \in Request, req' = [req EXCEPT ![r] = w],
         UNCHANGED <<created, rows, slot, ending, open, drained, run, unsaved, raced, outcome,
                     restarted>>,
         Asked(r)',
         w.pc \in SavingPcs =>
           /\ Saving(r) /\ w.sid = req[r].sid
           /\ w.sid \notin raced /\ w.loaded => w.meta = NoMetadata,
         w.op = "reply" /\ (w.pc = "create" \/ w.pc \in SavingPcs) =>
           /\ w.parent \in Created /\ w.conv \in Conversations
           /\ w.pc \in SavingPcs => w.parent < w.sid
           /\ Follows(w.parent, w.conv, w.turn)
  PROVE  IInv'
<1>0. /\ TypeOK /\ (\A b \in Actors : Placed(b)) /\ SlotsTaken /\ Unused /\ Alone /\ Watched
      /\ Told /\ Chained /\ (\A q \in Requests : Asked(q))
  BY DEF IInv
<1>1. /\ req' \in [Requests -> Request] /\ req'[r] = w /\ \A q \in Requests \ {r} : req'[q] = req[q]
  BY <1>0, ReqChanges
<1>c. Created' = Created /\ Stored' = Stored
  BY DEF Created, Stored
<1>2. TypeOK'
  BY <1>0, <1>1 DEF TypeOK, Stored
<1>3. (\A b \in Actors : Placed(b)') /\ SlotsTaken' /\ Unused' /\ Watched'
  <2>1. \A b \in Actors : Placed(b)'
    BY <1>0, <1>c DEF Placed
  <2>2. SlotsTaken' /\ Unused' /\ Watched'
    BY <1>0, <1>c DEF SlotsTaken, Unused, Watched
  <2> QED BY <2>1, <2>2
<1>4. Told'
  BY <1>0, <1>c DEF Told, Telling, LastRunDecides, AtRest
<1>5. \A q \in Requests : Asked(q)'
  <2>1. ASSUME NEW q \in Requests, q # r PROVE Asked(q)'
    <3>1. req'[q] = req[q] /\ Asked(q)
      BY <1>0, <1>1, <2>1
    <3> QED BY <1>c, <3>1 DEF Asked, Saving
  <2> QED BY <2>1
<1>6. \A q \in Requests : (Saving(q)' => Saving(q) /\ req'[q].sid = req[q].sid)
                          /\ (q # r => (Saving(q)' <=> Saving(q)))
  <2>1. Saving(r)' <=> w.pc \in SavingPcs
    BY <1>1 DEF Saving, SavingPcs
  <2>2. ASSUME NEW q \in Requests, q # r
        PROVE  (Saving(q)' <=> Saving(q)) /\ req'[q].sid = req[q].sid
    BY <1>1, <2>2 DEF Saving
  <2>3. Saving(r)' => Saving(r) /\ req'[r].sid = req[r].sid
    BY <1>1, <2>1
  <2> QED BY <2>2, <2>3
<1>7. Alone'
  <2>1. ASSUME NEW q \in Requests, Saving(q)', req'[q].sid \notin raced
        PROVE  Fresh(req[q].sid)' /\ (req'[q].loaded => req'[q].meta = NoMetadata)
    <3>1. Saving(q) /\ req'[q].sid = req[q].sid /\ Fresh(req[q].sid)
          /\ (req[q].loaded => req[q].meta = NoMetadata)
      BY <1>0, <1>6, <2>1 DEF Alone
    <3>2. req'[q].loaded => req'[q].meta = NoMetadata
      <4>1. CASE q = r
        <5>1. w.pc \in SavingPcs /\ w.sid \notin raced
          BY <1>1, <2>1, <4>1 DEF Saving, SavingPcs
        <5> QED BY <1>1, <4>1, <5>1
      <4>2. CASE q # r
        BY <1>1, <3>1, <4>2
      <4> QED BY <4>1, <4>2
    <3>3. Fresh(req[q].sid)'
      BY <3>1 DEF Fresh
    <3> QED BY <3>2, <3>3
  <2>2. \A q, p \in Requests : Saving(q)' /\ Saving(p)' /\ req'[q].sid = req'[p].sid => q = p
    BY <1>0, <1>6 DEF Alone
  <2>3. \A a, b \in Actors : run[a].sid = run[b].sid /\ run[a].sid \notin raced \cup {0} => a = b
    BY <1>0 DEF Alone
  <2>4. \A a \in Actors : run[a].loaded /\ run[a].sid \notin raced =>
          run[a].meta = rows[run[a].sid].meta
    BY <1>0 DEF Alone
  <2> QED BY <2>1, <2>2, <2>3, <2>4 DEF Alone
<1>8. Chained'
  <2>1. ASSUME NEW p, NEW c, NEW turn, Follows(p, c, turn)
        PROVE  p \notin raced => ~BeingCreated(p)' /\ ConversationOf(p)' = c /\ turn = rows[p].meta.turn + 1
    <3>1. BeingCreated(p)' => BeingCreated(p)
      BY <1>6 DEF BeingCreated
    <3> QED BY <2>1, <3>1 DEF Follows, ConversationOf
  <2>2. ASSUME NEW q \in Requests, req'[q].op = "reply", req'[q].pc = "create" \/ Saving(q)'
        PROVE  /\ req'[q].parent \in Created /\ req'[q].conv \in Conversations
               /\ Saving(q)' => req'[q].parent < req'[q].sid
               /\ Follows(req'[q].parent, req'[q].conv, req'[q].turn)
    <3>1. CASE q = r
      <4>1. Saving(r)' <=> w.pc \in SavingPcs
        BY <1>1 DEF Saving, SavingPcs
      <4> QED BY <1>1, <2>2, <3>1, <4>1
    <3>2. CASE q # r
      BY <1>0, <1>1, <1>6, <2>2, <3>2 DEF Chained
    <3> QED BY <3>1, <3>2
  <2>3. ASSUME NEW q \in Requests, req'[q].op = "reply", req'[q].pc = "create" \/ Saving(q)'
        PROVE  Follows(req[q].parent, req[q].conv, req[q].turn)'
    <3>1. PICK p, c, turn : p = req'[q].parent /\ c = req'[q].conv /\ turn = req'[q].turn
      OBVIOUS
    <3>2. Follows(p, c, turn)
      BY <2>2, <2>3, <3>1
    <3>3. p \notin raced => ~BeingCreated(p)' /\ ConversationOf(p)' = c /\ turn = rows[p].meta.turn + 1
      BY <2>1, <3>2
    <3> QED BY <3>1, <3>3 DEF Follows
  <2>4. ASSUME NEW t \in Stored \ raced, rows[t].meta.parent # 0
        PROVE  /\ rows[t].meta.parent < t
               /\ Follows(rows[t].meta.parent, ConversationOf(t), rows[t].meta.turn)'
    <3>1. PICK p, c, turn : p = rows[t].meta.parent /\ c = ConversationOf(t) /\ turn = rows[t].meta.turn
      OBVIOUS
    <3>2. p < t /\ Follows(p, c, turn)
      BY <1>0, <2>4, <3>1 DEF Chained
    <3>3. p \notin raced => ~BeingCreated(p)' /\ ConversationOf(p)' = c /\ turn = rows[p].meta.turn + 1
      BY <2>1, <3>2
    <3>4. c = ConversationOf(t)'
      BY <3>1 DEF ConversationOf
    <3> QED BY <3>1, <3>2, <3>3, <3>4 DEF Follows
  <2>5. \A t : ConversationOf(t)' = ConversationOf(t)
    BY DEF ConversationOf
  <2> QED BY <1>c, <2>2, <2>3, <2>4, <2>5 DEF Chained
<1> QED BY <1>2, <1>3, <1>4, <1>5, <1>7, <1>8 DEF IInv

(* A handler that reads, turns away or gives up.                           *)
LEMMA QuietRequestSteps ==
  ASSUME IInv, NEW r \in Requests,
         \/ \E c \in Conversations : ReadsConversation(r, c)
         \/ \E s \in Sessions : LooksUp(r, s)
         \/ RequestLoads(r) \/ RequestFails(r) \/ Inspects(r) \/ Refused(r)
  PROVE  IInv'
<1>0. TypeOK /\ Alone /\ Chained /\ Asked(r)
  BY DEF IInv
<1>1. UNCHANGED <<created, rows, slot, ending, open, drained, run, unsaved, raced, outcome,
                  restarted>>
  BY DEF ReadsConversation, LooksUp, RequestLoads, RequestFails, Inspects, Refused, manager, history
<1>2. ASSUME NEW w \in Request, req' = [req EXCEPT ![r] = w],
             \/ w = Answered
             \/ /\ w.pc \notin SavingPcs /\ w.pc # "create" /\ w.pc # "idle" /\ ~w.loaded
                /\ w.sid \in Created
      PROVE  IInv'
  <2>1. Asked(r)'
    <3>1. req'[r] = w /\ Created' = Created
      BY <1>0, <1>1, <1>2, ReqChanges DEF Created
    <3>2. w.pc \notin SavingPcs /\ w.pc # "create" /\ w.pc # "idle" /\ ~w.loaded
          /\ (w.pc \in {"inspect", "start"} => w.sid \in Created)
      BY <1>2, Blank, Points
    <3>3. ~Saving(r)' /\ req'[r].pc # "conversation"
      BY <3>1, <3>2 DEF Saving, SavingPcs
    <3>4. ~req'[r].loaded /\ req'[r].pc # "create" /\ req'[r].pc # "idle"
          /\ (req'[r].pc \in {"inspect", "start"} => req'[r].sid \in Created)
      BY <3>1, <3>2
    <3> QED BY <3>1, <3>3, <3>4 DEF Asked
  <2>2. w.pc \notin SavingPcs /\ w.pc # "create"
    BY <1>2, Blank, Points
  <2> QED BY <1>1, <1>2, <2>1, <2>2, RequestMoves
<1>3. ASSUME NEW c \in Conversations, ReadsConversation(r, c) PROVE IInv'
  <2>1. PICK parent \in Records(c) :
          /\ Terminal(parent)
          /\ req' = [req EXCEPT ![r].op = "reply", ![r].pc = "create", ![r].conv = c,
                                ![r].parent = parent, ![r].turn = TurnAfter(parent)]
    BY <1>3 DEF ReadsConversation
  <2>2. parent \in Created /\ parent \in Sessions /\ ConversationOf(parent) = c
    BY <1>0, <2>1, CreatedFacts DEF Records
  <2>3. req[r] = IdleRequest
    BY <1>0, <1>3 DEF Asked, ReadsConversation
  <2>4. TurnAfter(parent) = rows[parent].meta.turn + 1 /\ TurnAfter(parent) \in Nat
    <3>1. rows[parent].meta.turn \in Nat
      BY <1>0, <2>2, RowType
    <3> QED BY <3>1 DEF TurnAfter
  <2> DEFINE w == [IdleRequest EXCEPT !.op = "reply", !.pc = "create", !.conv = c,
                                      !.parent = parent, !.turn = TurnAfter(parent)]
  <2>5. req' = [req EXCEPT ![r] = w]
    <3>1. req' = [req EXCEPT ![r] = [req[r] EXCEPT !.op = "reply", !.pc = "create", !.conv = c,
                                       !.parent = parent, !.turn = TurnAfter(parent)]]
      BY <1>0, <2>1 DEF TypeOK
    <3> QED BY <2>3, <3>1
  <2>6. /\ w \in Request /\ w.op = "reply" /\ w.pc = "create" /\ w.conv = c /\ ~w.loaded
        /\ w.parent = parent /\ w.turn = TurnAfter(parent)
    BY <2>2, <2>4, Blank DEF Request, IdleRequest
  <2> HIDE DEF w
  <2>7. w.pc \notin SavingPcs
    BY <2>6, Points
  <2>8. Asked(r)'
    <3>1. req'[r] = w
      BY <1>0, <2>5, <2>6, ReqChanges
    <3>2. ~Saving(r)'
      BY <2>7, <3>1 DEF Saving, SavingPcs
    <3> QED BY <2>6, <3>1, <3>2 DEF Asked
  <2>9. Follows(parent, c, w.turn)
    <3>1. parent \notin raced => ~BeingCreated(parent)
      <4>1. rows[parent].status # "pending"
        BY <2>1 DEF Terminal, TerminalStatuses
      <4> QED BY <1>0, <4>1 DEF Alone, Fresh, BeingCreated
    <3> QED BY <2>2, <2>4, <2>6, <3>1 DEF Follows
  <2> QED BY <1>1, <2>2, <2>5, <2>6, <2>7, <2>8, <2>9, RequestMoves
<1>4. ASSUME NEW s \in Sessions, LooksUp(r, s) PROVE IInv'
  <2> DEFINE w == [req[r] EXCEPT !.op = "resume", !.pc = "inspect", !.sid = s]
  <2>1. req' = [req EXCEPT ![r] = w] /\ s \in Created /\ req[r] = IdleRequest
    BY <1>0, <1>4, CreatedFacts DEF LooksUp, TypeOK, Asked
  <2>2. w \in Request /\ w.pc = "inspect" /\ w.sid = s /\ ~w.loaded
    BY <1>0, <2>1, ReqType, Blank DEF Request
  <2> HIDE DEF w
  <2> QED BY <1>2, <2>1, <2>2, Points
<1>5. ASSUME RequestLoads(r) PROVE IInv'
  <2>0. PICK s \in Sessions : s = req[r].sid
    BY <1>0, <1>5, CreatedFacts DEF RequestLoads, Asked
  <2> DEFINE w == [req[r] EXCEPT !.loaded = TRUE, !.meta = rows[s].meta]
  <2>1. req' = [req EXCEPT ![r] = w] /\ Saving(r)
    BY <1>0, <1>5, <2>0 DEF RequestLoads, TypeOK
  <2>2. /\ w \in Request /\ w.pc = req[r].pc /\ w.sid = s /\ w.loaded /\ w.meta = rows[s].meta
        /\ w.op = req[r].op /\ w.parent = req[r].parent /\ w.conv = req[r].conv /\ w.turn = req[r].turn
    <3>1. req[r] \in Request /\ rows[s].meta \in Metadata
      BY <1>0, ReqType, RowType
    <3>2. w \in Request
      BY <3>1 DEF Request
    <3>3. w.loaded
      BY <3>1 DEF Request
    <3> QED BY <2>0, <3>1, <3>2, <3>3 DEF Request
  <2> HIDE DEF w
  <2>3. req'[r] = w /\ Created' = Created
    BY <1>0, <1>1, <2>1, <2>2, ReqChanges DEF Created
  <2>4. req[r].pc \in SavingPcs /\ Saving(r)'
    BY <2>1, <2>2, <2>3 DEF Saving, SavingPcs
  <2>5. Asked(r)'
    <3>1. req'[r].pc = req[r].pc /\ req'[r].op = req[r].op /\ req'[r].parent = req[r].parent
          /\ req'[r].sid = req[r].sid
      BY <2>0, <2>2, <2>3
    <3>2. req[r].pc # "idle"
      BY <2>4, Points
    <3> QED BY <1>0, <2>1, <2>3, <2>4, <3>1, <3>2 DEF Asked
  <2>6. s \notin raced => w.meta = NoMetadata
    <3>1. s \notin raced => Fresh(s)
      BY <1>0, <2>0, <2>1 DEF Alone
    <3> QED BY <2>2, <3>1 DEF Fresh
  <2>7. w.op = "reply" =>
           /\ w.parent \in Created /\ w.conv \in Conversations /\ w.parent < w.sid
           /\ Follows(w.parent, w.conv, w.turn)
    BY <1>0, <2>0, <2>1, <2>2 DEF Chained
  <2> QED BY <1>1, <2>0, <2>1, <2>2, <2>5, <2>6, <2>7, RequestMoves
<1>6. CASE RequestFails(r) \/ Refused(r)
  <2>1. req' = [req EXCEPT ![r] = Answered]
    BY <1>6 DEF RequestFails, Refused
  <2> QED BY <1>2, <2>1, Blank
<1>7. ASSUME Inspects(r) PROVE IInv'
  <2>1. PICK s \in Sessions : s = req[r].sid /\ s \in Created
    BY <1>0, <1>7, CreatedFacts DEF Inspects, Asked
  <2>2. CASE Terminal(s)
    <3>1. req' = [req EXCEPT ![r] = Answered]
      BY <1>0, <1>7, <2>1, <2>2 DEF Inspects, TypeOK
    <3> QED BY <1>2, <3>1, Blank
  <2>3. CASE ~Terminal(s)
    <3> DEFINE w == [req[r] EXCEPT !.pc = "start"]
    <3>1. req' = [req EXCEPT ![r] = w] /\ req[r].pc = "inspect"
      BY <1>0, <1>7, <2>1, <2>3 DEF Inspects, TypeOK
    <3>2. w \in Request /\ w.pc = "start" /\ w.sid = s /\ w.loaded = req[r].loaded
      BY <1>0, <2>1, ReqType DEF Request
    <3>3. ~w.loaded
      BY <1>0, <3>1, <3>2 DEF Asked, Saving
    <3> HIDE DEF w
    <3> QED BY <1>2, <2>1, <3>1, <3>2, <3>3, Points
  <2> QED BY <2>2, <2>3
<1> QED BY <1>3, <1>4, <1>5, <1>6, <1>7

-----------------------------------------------------------------------------
(* The start of a run: an earlier writer still at work makes it a race.    *)
LEMMA RunStarts ==
  ASSUME IInv, NEW r \in Requests, NEW a \in Actors, Starts(r, a)
  PROVE  IInv'
<1>0. /\ TypeOK /\ (\A b \in Actors : Placed(b)) /\ SlotsTaken /\ Unused /\ Alone /\ Watched
      /\ Told /\ Chained /\ (\A q \in Requests : Asked(q))
  BY DEF IInv
<1>1. PICK s \in Sessions : s = req[r].sid /\ s \in Created /\ s # 0
  BY <1>0, CreatedFacts, Numbers DEF Starts, Asked
<1>2. /\ req[r].pc = "start" /\ run[a].pc = "free"
      /\ slot[s] = NoActor /\ slot' = [slot EXCEPT ![s] = a]
      /\ run' = [run EXCEPT ![a].pc = "begin", ![a].sid = s]
      /\ req' = [req EXCEPT ![r] = Answered]
      /\ raced \subseteq raced' /\ raced' \subseteq raced \cup {s}
      /\ BeingCreated(s) \/ BeingFinalized(s) => s \in raced'
      /\ UNCHANGED <<created, rows, ending, open, drained, unsaved, outcome, restarted>>
  <2>1. Manager!Admit(s, a)
    BY <1>1 DEF Starts
  <2> QED BY <1>1, <2>1 DEF Starts, Manager!Admit, Manager!Taken
<1>3. run[a] = FreeRun
  BY <1>0, <1>2 DEF Placed
<1> DEFINE v == [FreeRun EXCEPT !.pc = "begin", !.sid = s]
<1>4. run' = [run EXCEPT ![a] = v]
  <2>1. run' = [run EXCEPT ![a] = [run[a] EXCEPT !.pc = "begin", !.sid = s]]
    BY <1>0, <1>2 DEF TypeOK
  <2> QED BY <1>3, <2>1
<1>5. v \in Run /\ v.pc = "begin" /\ v.sid = s /\ ~v.loaded /\ v.status = ""
  BY <1>1, Blank DEF FreeRun, Run
<1> HIDE DEF v
<1>6. /\ run' \in [Actors -> Run] /\ run'[a] = v /\ \A b \in Actors \ {a} : run'[b] = run[b]
  BY <1>0, <1>4, <1>5, RunChanges
<1>7. /\ req' \in [Requests -> Request] /\ req'[r] = Answered
      /\ \A q \in Requests \ {r} : req'[q] = req[q]
  BY <1>0, <1>2, Blank, ReqChanges
<1>c. Created' = Created /\ Stored' = Stored /\ Created = Stored /\ Created \subseteq Sessions
  BY <1>0, <1>2, CreatedFacts DEF Created, Stored
<1>s. /\ slot' \in [Sessions -> Actors \cup {NoActor}] /\ slot'[s] = a /\ a # NoActor
      /\ \A t \in Sessions \ {s} : slot'[t] = slot[t]
  BY <1>0, <1>2, Numbers DEF TypeOK
<1>8. TypeOK'
  <2>1. raced' \subseteq Sessions
    BY <1>0, <1>2 DEF TypeOK
  <2> QED BY <1>0, <1>2, <1>6, <1>7, <1>s, <1>c, <2>1 DEF TypeOK
<1>9. \A b \in Actors : Placed(b)'
  <2>1. Placed(a)'
    <3>1. a \notin ending
      BY <1>0, <1>2, Points DEF Placed
    <3>2. v.pc \notin Closing /\ v.pc \notin {"free", "exited", "ending", "finished", "diagnostics"}
      BY <1>5, Points
    <3>3. /\ run'[a].pc = "begin" /\ run'[a].sid = s /\ s \in Created'
          /\ slot'[run'[a].sid] = a /\ run'[a].status = "" /\ a \notin ending'
          /\ run'[a].pc \notin Closing
      BY <1>1, <1>2, <1>5, <1>6, <1>s, <1>c, <3>1, <3>2
    <3>4. ~run'[a].loaded
      BY <1>5, <1>6
    <3> QED BY <3>3, <3>4 DEF Placed
  <2>2. ASSUME NEW b \in Actors, b # a PROVE Placed(b)'
    <3>1. run'[b] = run[b] /\ ending' = ending /\ Placed(b)
      BY <1>0, <1>2, <1>6, <2>2
    <3>2. run[b].pc \in OnSlot => slot'[run[b].sid] = b
      <4> SUFFICES ASSUME run[b].pc \in OnSlot PROVE slot'[run[b].sid] = b
        OBVIOUS
      <4>1. run[b].sid \in Sessions /\ slot[run[b].sid] = b /\ b # NoActor
        BY <1>c, <3>1, Numbers DEF Placed
      <4> QED BY <1>2, <1>s, <4>1
    <3> QED BY <3>1, <3>2, <1>c DEF Placed
  <2> QED BY <2>1, <2>2
<1>10. SlotsTaken'
  <2> SUFFICES ASSUME NEW t \in Sessions, slot'[t] # NoActor
               PROVE  run'[slot'[t]].pc \in OnSlot /\ run'[slot'[t]].sid = t
    BY DEF SlotsTaken
  <2>1. CASE t = s
    BY <1>5, <1>6, <1>s, <2>1, Points
  <2>2. CASE t # s
    <3>1. /\ slot'[t] = slot[t] /\ slot[t] \in Actors
          /\ run[slot[t]].pc \in OnSlot /\ run[slot[t]].sid = t
      BY <1>0, <1>s, <2>2 DEF SlotsTaken, TypeOK
    <3>2. slot[t] # a
      BY <1>2, <3>1, Points
    <3> QED BY <1>6, <3>1, <3>2
  <2> QED BY <2>1, <2>2
<1>11. \A q \in Requests : Asked(q)'
  <2>1. Asked(r)'
    <3>1. Answered.pc = "done" /\ ~Answered.loaded
      BY Blank
    <3>2. ~Saving(r)'
      BY <1>7, <3>1 DEF Saving
    <3> QED BY <1>7, <3>1, <3>2 DEF Asked
  <2>2. ASSUME NEW q \in Requests, q # r PROVE Asked(q)'
    <3>1. req'[q] = req[q] /\ Asked(q)
      BY <1>0, <1>7, <2>2
    <3> QED BY <1>c, <3>1 DEF Asked, Saving
  <2> QED BY <2>1, <2>2
<1>12. Unused'
  <2>1. s <= created
    BY <1>0, <1>1, RowType
  <2> SUFFICES ASSUME NEW t \in Sessions, t > created PROVE t \notin raced'
    BY <1>0, <1>2 DEF Unused
  <2>2. t # s
    <3>1. t \in Nat /\ s \in Nat /\ created \in Nat
      BY <1>0, CreatedFacts, Numbers
    <3> QED BY <2>1, <3>1
  <2> QED BY <1>0, <1>2, <2>2 DEF Unused
<1>13. \A q \in Requests : Saving(q)' => Saving(q) /\ req'[q] = req[q]
  <2>1. ~Saving(r)'
    BY <1>7, Blank DEF Saving
  <2>2. ASSUME NEW q \in Requests, q # r PROVE Saving(q)' => Saving(q) /\ req'[q] = req[q]
    BY <1>7, <2>2 DEF Saving
  <2> QED BY <2>1, <2>2
<1>14. Alone'
  <2>1. ASSUME NEW q \in Requests, Saving(q)', req'[q].sid \notin raced'
        PROVE  Fresh(req[q].sid)' /\ (req'[q].loaded => req'[q].meta = NoMetadata)
    <3>1. Saving(q) /\ req'[q] = req[q] /\ req[q].sid \notin raced
      BY <1>2, <1>13, <2>1
    <3>2. Fresh(req[q].sid) /\ (req[q].loaded => req[q].meta = NoMetadata)
      BY <1>0, <3>1 DEF Alone
    <3>3. req[q].sid # s
      BY <1>2, <2>1, <3>1 DEF BeingCreated
    <3>4. \A b \in Actors : run'[b].sid # req[q].sid
      BY <1>5, <1>6, <3>2, <3>3 DEF Fresh
    <3> QED BY <1>2, <3>1, <3>2, <3>4 DEF Fresh
  <2>2. \A q, p \in Requests : Saving(q)' /\ Saving(p)' /\ req'[q].sid = req'[p].sid => q = p
    BY <1>0, <1>13 DEF Alone
  <2>3. ASSUME NEW b \in Actors, b # a, run[b].sid = s, s \notin raced' PROVE FALSE
    <3>1. Placed(b) /\ run[b].pc \notin {"free", "exited"}
      BY <1>0, <1>1, <2>3 DEF Placed
    <3>2. CASE run[b].pc \in OnSlot
      <4>1. slot[s] = b /\ b # NoActor
        BY <2>3, <3>1, <3>2, Numbers DEF Placed
      <4> QED BY <1>2, <4>1
    <3>3. CASE run[b].pc \in Closing
      <4>1. b \in ending
        BY <3>1, <3>3 DEF Placed
      <4> QED BY <1>2, <2>3, <4>1 DEF BeingFinalized
    <3> QED BY <1>0, <3>1, <3>2, <3>3, RunType
  <2>4. ASSUME NEW b \in Actors, NEW c \in Actors, run'[b].sid = run'[c].sid,
               run'[b].sid \notin raced' \cup {0}
        PROVE  b = c
    <3>1. CASE b # a /\ c # a
      BY <1>0, <1>2, <1>6, <2>4, <3>1 DEF Alone
    <3>2. CASE b = a \/ c = a
      BY <1>5, <1>6, <2>3, <2>4, <3>2
    <3> QED BY <3>1, <3>2
  <2>5. ASSUME NEW b \in Actors, run'[b].loaded, run'[b].sid \notin raced'
        PROVE  run'[b].meta = rows'[run'[b].sid].meta
    <3>1. b # a
      BY <1>5, <1>6, <2>5
    <3> QED BY <1>0, <1>2, <1>6, <2>5, <3>1 DEF Alone
  <2> QED BY <2>1, <2>2, <2>4, <2>5 DEF Alone
<1>15. Watched'
  <2>1. ~Undecided(run[a])
    BY <1>2 DEF Undecided
  <2>2. \A t : (\E b \in Actors : run[b].sid = t /\ Undecided(run[b])) =>
          \E b \in Actors : run'[b].sid = t /\ Undecided(run'[b])
    BY <1>6, <2>1
  <2> QED BY <1>0, <1>2, <1>c, <2>2 DEF Watched
<1>16. Told'
  <2>1. ASSUME NEW b \in Actors, run'[b].sid \notin unsaved \cup raced' PROVE Telling(b)'
    <3>1. CASE b = a
      BY <1>5, <1>6, <3>1 DEF Telling, Tells
    <3>2. CASE b # a
      BY <1>0, <1>2, <1>6, <2>1, <3>2 DEF Told, Telling
    <3> QED BY <3>1, <3>2
  <2>2. ASSUME NEW t \in Stored, t \notin unsaved \cup raced', AtRest(t)', outcome[t] # ""
        PROVE  rows[t].status = outcome[t] /\ rows[t].meta.finalized
    <3>1. t # s
      BY <1>s, <2>2 DEF AtRest
    <3>2. t \in Sessions /\ t # 0 /\ t \notin unsaved \cup raced
      BY <1>2, <1>c, <2>2, Numbers
    <3>3. AtRest(t)
      <4>1. slot[t] = NoActor
        BY <1>s, <2>2, <3>1, <3>2 DEF AtRest
      <4>2. run[a].sid # t
        BY <1>3, <3>2, Blank
      <4> QED BY <1>6, <2>2, <4>1, <4>2 DEF AtRest
    <3> QED BY <1>0, <2>2, <3>2, <3>3 DEF Told, LastRunDecides
  <2> QED BY <1>2, <1>c, <2>1, <2>2 DEF Told, LastRunDecides
<1>17. Chained'
  <2>1. ASSUME NEW p, NEW c, NEW turn, Follows(p, c, turn)
        PROVE  p \notin raced' => ~BeingCreated(p)' /\ ConversationOf(p)' = c /\ turn = rows[p].meta.turn + 1
    <3>1. BeingCreated(p)' => BeingCreated(p)
      BY <1>13 DEF BeingCreated
    <3> QED BY <1>2, <2>1, <3>1 DEF Follows, ConversationOf
  <2>2. ASSUME NEW q \in Requests, req'[q].op = "reply", req'[q].pc = "create" \/ Saving(q)'
        PROVE  /\ req'[q].parent \in Created /\ req'[q].conv \in Conversations
               /\ Saving(q)' => req'[q].parent < req'[q].sid
               /\ Follows(req'[q].parent, req'[q].conv, req'[q].turn)
    <3>1. q # r
      BY <1>7, <2>2, Blank
    <3> QED BY <1>0, <1>7, <1>13, <2>2, <3>1 DEF Chained
  <2>3. ASSUME NEW q \in Requests, req'[q].op = "reply", req'[q].pc = "create" \/ Saving(q)'
        PROVE  Follows(req[q].parent, req[q].conv, req[q].turn)'
    <3>1. PICK p, c, turn : p = req'[q].parent /\ c = req'[q].conv /\ turn = req'[q].turn
      OBVIOUS
    <3>2. Follows(p, c, turn)
      BY <2>2, <2>3, <3>1
    <3>3. p \notin raced' => ~BeingCreated(p)' /\ ConversationOf(p)' = c /\ turn = rows[p].meta.turn + 1
      BY <2>1, <3>2
    <3> QED BY <1>2, <3>1, <3>3 DEF Follows
  <2>4. ASSUME NEW t \in Stored \ raced', rows[t].meta.parent # 0
        PROVE  /\ rows[t].meta.parent < t
               /\ Follows(rows[t].meta.parent, ConversationOf(t), rows[t].meta.turn)'
    <3>1. PICK p, c, turn : p = rows[t].meta.parent /\ c = ConversationOf(t) /\ turn = rows[t].meta.turn
      OBVIOUS
    <3>2. p < t /\ Follows(p, c, turn)
      BY <1>0, <1>2, <2>4, <3>1 DEF Chained
    <3>3. p \notin raced' => ~BeingCreated(p)' /\ ConversationOf(p)' = c /\ turn = rows[p].meta.turn + 1
      BY <2>1, <3>2
    <3>4. c = ConversationOf(t)' /\ rows' = rows
      BY <1>2, <3>1 DEF ConversationOf
    <3> QED BY <3>1, <3>2, <3>3, <3>4 DEF Follows
  <2>5. \A t : ConversationOf(t)' = ConversationOf(t)
    BY <1>2 DEF ConversationOf
  <2> QED BY <1>2, <1>c, <2>2, <2>3, <2>4, <2>5 DEF Chained
<1> QED BY <1>8, <1>9, <1>10, <1>11, <1>12, <1>14, <1>15, <1>16, <1>17 DEF IInv

-----------------------------------------------------------------------------
(* A new session is nobody's but its handler's.                            *)
LEMMA SessionIsCreated ==
  ASSUME IInv, NEW r \in Requests, NEW op \in {"run", "chat", "reply"}, CreateSession(r, op)
  PROVE  IInv'
<1>0. /\ TypeOK /\ (\A b \in Actors : Placed(b)) /\ SlotsTaken /\ Unused /\ Alone /\ Watched
      /\ Told /\ Chained /\ (\A q \in Requests : Asked(q))
  BY DEF IInv
<1>1. PICK s \in Sessions : s = created + 1 /\ s \notin Created /\ s # 0
  BY <1>0, CreatedFacts, Numbers DEF CreateSession
<1>2. /\ created' = s /\ rows' = [rows EXCEPT ![s].status = "pending"]
      /\ UNCHANGED <<slot, ending, open, drained, run, unsaved, raced, outcome, restarted>>
  BY <1>1 DEF CreateSession, manager, history
<1>3. \A t \in Sessions : (t <= s <=> t \in Created \cup {s}) /\ (t \in Created => t < s)
                          /\ (t > s => t > created) /\ s > created
  <2>1. created \in Nat /\ Sessions \subseteq Nat
    BY <1>0, CreatedFacts, Numbers
  <2>2. \A t \in Sessions : t \in Created <=> t <= created
    BY <1>0, RowType
  <2> QED BY <1>1, <2>1, <2>2
<1>4. Created' = Created \cup {s} /\ Created = Stored /\ Created \subseteq Sessions
  <2>1. Created' \subseteq Sessions
    BY <1>1, <1>2, NAssumption DEF Created, Sessions
  <2>2. \A t \in Sessions : t \in Created' <=> t <= s
    BY <1>1, <1>2, NAssumption DEF Created, Sessions
  <2> QED BY <1>0, <1>1, <1>3, <2>1, <2>2, CreatedFacts
<1>5. rows[s].status = "" /\ rows[s].meta = NoMetadata /\ outcome[s] = "" /\ s \notin raced
  BY <1>0, <1>1, <1>3 DEF Unused
<1>6. /\ rows' \in [Sessions -> [status : Statuses \cup {""}, meta : Metadata]]
      /\ rows'[s].status = "pending" /\ rows'[s].meta = NoMetadata
      /\ \A t \in Sessions \ {s} : rows'[t] = rows[t]
  <2>1. "pending" \in Statuses
    BY DEF Statuses
  <2>2. rows' = [rows EXCEPT ![s] = [rows[s] EXCEPT !.status = "pending"]]
    BY <1>0, <1>2 DEF TypeOK
  <2>3. [rows[s] EXCEPT !.status = "pending"] = [status |-> "pending", meta |-> NoMetadata]
    <3>1. rows[s] = [status |-> rows[s].status, meta |-> rows[s].meta]
      BY <1>0, RowType
    <3>2. [[status |-> rows[s].status, meta |-> rows[s].meta] EXCEPT !.status = "pending"]
            = [status |-> "pending", meta |-> rows[s].meta]
      OBVIOUS
    <3>3. [rows[s] EXCEPT !.status = "pending"] = [status |-> "pending", meta |-> rows[s].meta]
      BY ONLY <3>1, <3>2, Zenon
    <3> QED BY <1>5, <3>3
  <2> QED BY <1>0, <2>1, <2>2, <2>3, Blank DEF TypeOK
<1>7. Stored' = Stored \cup {s}
  <2>1. \A t \in Sessions : rows'[t].status # "" <=> t \in Stored \cup {s}
    BY <1>6 DEF Stored
  <2> QED BY <1>1, <2>1 DEF Stored
<1>8. PICK w \in Request :
        /\ req' = [req EXCEPT ![r] = w]
        /\ w.op = op /\ w.pc = "task" /\ w.sid = s /\ ~w.loaded
        /\ w.parent = req[r].parent /\ w.turn = req[r].turn
        /\ op # "chat" => w.conv = req[r].conv
  <2> DEFINE w == [req[r] EXCEPT !.op = op, !.pc = "task", !.sid = s,
                                 !.conv = IF op = "chat" THEN Chat(s) ELSE @]
  <2>1. req' = [req EXCEPT ![r] = w]
    BY <1>0, <1>1 DEF CreateSession, TypeOK
  <2>2. Chat(s) \in Conversations
    BY Numbers
  <2>3. w \in Request
    BY <1>0, <2>2, ReqType DEF Request
  <2>4. /\ w.op = op /\ w.pc = "task" /\ w.sid = s /\ w.loaded = req[r].loaded
        /\ w.parent = req[r].parent /\ w.turn = req[r].turn
        /\ op # "chat" => w.conv = req[r].conv
    BY <1>0, ReqType DEF Request
  <2>5. ~req[r].loaded
    <3>1. ~Saving(r)
      BY DEF CreateSession, Saving
    <3> QED BY <1>0, <3>1 DEF Asked
  <2>6. ~w.loaded
    BY <2>4, <2>5
  <2> HIDE DEF w
  <2> QED BY <2>1, <2>3, <2>4, <2>6
<1>9. /\ req' \in [Requests -> Request] /\ req'[r] = w
      /\ \A q \in Requests \ {r} : req'[q] = req[q]
  BY <1>0, <1>8, ReqChanges
<1>10. TypeOK'
  <2>1. created' \in 0 .. N
    BY <1>1, <1>2, NAssumption DEF Sessions
  <2>2. Stored' = 1 .. created'
    BY <1>4, <1>7 DEF Created
  <2> QED BY <1>0, <1>2, <1>6, <1>9, <2>1, <2>2 DEF TypeOK
<1>11. (\A b \in Actors : Placed(b)') /\ SlotsTaken'
  <2>1. \A b \in Actors : Placed(b)'
    BY <1>0, <1>2, <1>4 DEF Placed
  <2> QED BY <1>0, <1>2, <2>1 DEF SlotsTaken
<1>12. \A q \in Requests : Asked(q)'
  <2>1. Asked(r)'
    <3>1. op = "chat" => req[r].parent = 0
      <4>1. op = "chat" => req[r] = IdleRequest
        BY <1>0 DEF CreateSession, Asked
      <4> QED BY <4>1, Blank
    <3>2. req'[r].op = op /\ req'[r].pc = "task" /\ req'[r].sid = s /\ req'[r].parent = req[r].parent
          /\ s \in Created'
      BY <1>4, <1>8, <1>9
    <3>3. Saving(r)' /\ ~req'[r].loaded
      BY <1>8, <1>9, <3>2 DEF Saving
    <3> QED BY <3>1, <3>2, <3>3 DEF Asked
  <2>2. ASSUME NEW q \in Requests, q # r PROVE Asked(q)'
    <3>1. req'[q] = req[q] /\ Asked(q)
      BY <1>0, <1>9, <2>2
    <3> QED BY <1>4, <3>1 DEF Asked, Saving
  <2> QED BY <2>1, <2>2
<1>13. Unused'
  <2> SUFFICES ASSUME NEW t \in Sessions, t > s
               PROVE  /\ rows'[t].status = "" /\ rows'[t].meta = NoMetadata
                      /\ outcome[t] = "" /\ t \notin raced
    BY <1>2 DEF Unused
  <2>1. t > created
    BY <1>3
  <2>2. t # s
    <3>1. t \in Nat /\ s \in Nat
      BY Numbers
    <3> QED BY <3>1
  <2> QED BY <1>0, <1>6, <2>1, <2>2 DEF Unused
<1>14. \A q \in Requests : Saving(q)' /\ q # r => Saving(q) /\ req'[q] = req[q] /\ req[q].sid \in Created
                                                  /\ req[q].sid # s
  BY <1>0, <1>1, <1>9 DEF Saving, Asked
<1>15. \A b \in Actors : run[b].sid # s /\ (run[b].pc \in OnSlot \cup Closing => run[b].sid \in Created)
  <2>1. ASSUME NEW b \in Actors
        PROVE  run[b].sid = 0 \/ run[b].sid \in Created
    BY <1>0, RunType DEF Placed
  <2>2. ASSUME NEW b \in Actors, run[b].pc \in OnSlot \cup Closing PROVE run[b].sid \in Created
    BY <1>0, <2>2 DEF Placed
  <2> QED BY <1>1, <2>1, <2>2
<1>16. Alone'
  <2>1. ASSUME NEW q \in Requests, Saving(q)', req'[q].sid \notin raced
        PROVE  Fresh(req[q].sid)' /\ (req'[q].loaded => req'[q].meta = NoMetadata)
    <3>1. CASE q = r
      <4>1. req'[q].sid = s /\ ~req'[q].loaded
        BY <1>8, <1>9, <3>1
      <4> QED BY <1>2, <1>5, <1>6, <1>15, <4>1 DEF Fresh
    <3>2. CASE q # r
      <4>1. Saving(q) /\ req'[q] = req[q] /\ req[q].sid \in Created /\ req[q].sid # s
        BY <1>14, <2>1, <3>2
      <4>2. Fresh(req[q].sid) /\ (req[q].loaded => req[q].meta = NoMetadata)
        BY <1>0, <2>1, <4>1 DEF Alone
      <4>3. rows'[req[q].sid] = rows[req[q].sid]
        BY <1>4, <1>6, <4>1
      <4> QED BY <1>2, <4>1, <4>2, <4>3 DEF Fresh
    <3> QED BY <3>1, <3>2
  <2>2. \A q, p \in Requests : Saving(q)' /\ Saving(p)' /\ req'[q].sid = req'[p].sid => q = p
    <3>1. req'[r].sid = s
      BY <1>8, <1>9
    <3> QED BY <1>0, <1>14, <3>1 DEF Alone
  <2>3. ASSUME NEW b \in Actors, run[b].loaded, run[b].sid \notin raced
        PROVE  run[b].meta = rows'[run[b].sid].meta
    <3>1. run[b].pc \in OnSlot \cup Closing
      <4>1. run[b].pc \in {"begin", "ending", "diagnostics", "fatal"}
        BY <1>0, <2>3 DEF Placed
      <4> QED BY <4>1, Points
    <3>2. rows'[run[b].sid] = rows[run[b].sid]
      BY <1>4, <1>6, <1>15, <3>1
    <3> QED BY <1>0, <2>3, <3>2 DEF Alone
  <2>4. \A a, b \in Actors : run[a].sid = run[b].sid /\ run[a].sid \notin raced \cup {0} => a = b
    BY <1>0 DEF Alone
  <2> QED BY <1>2, <2>1, <2>2, <2>3, <2>4 DEF Alone
<1>17. Watched'
  <2> SUFFICES ASSUME ~restarted, NEW t \in Stored \cup {s}, t \notin unsaved,
                      rows'[t].status = "running"
               PROVE  \E b \in Actors : run[b].sid = t /\ Undecided(run[b])
    BY <1>2, <1>7 DEF Watched
  <2>1. t # s
    BY <1>6
  <2>2. t \in Stored /\ rows[t].status = "running"
    BY <1>4, <1>6, <2>1
  <2> QED BY <1>0, <2>2 DEF Watched
<1>18. Told'
  <2>1. ASSUME NEW b \in Actors, run[b].sid \notin unsaved \cup raced PROVE Telling(b)'
    <3>1. CASE run[b].pc \in OnSlot \cup Closing
      <4>1. rows'[run[b].sid] = rows[run[b].sid]
        BY <1>4, <1>6, <1>15, <3>1
      <4> QED BY <1>0, <1>2, <2>1, <4>1 DEF Told, Telling
    <3>2. CASE run[b].pc \notin OnSlot \cup Closing
      <4>1. run[b].pc \notin {"finished", "diagnostics", "fatal", "over"}
        BY <3>2, Points
      <4> QED BY <1>2, <4>1 DEF Telling, Tells
    <3> QED BY <3>1, <3>2
  <2>2. ASSUME NEW t \in Stored \cup {s}, t \notin unsaved \cup raced, AtRest(t)', outcome[t] # ""
        PROVE  rows'[t].status = outcome[t] /\ rows'[t].meta.finalized
    <3>1. t # s /\ t \in Stored /\ AtRest(t)
      BY <1>2, <1>5, <2>2 DEF AtRest
    <3>2. rows'[t] = rows[t]
      BY <1>4, <1>6, <3>1
    <3> QED BY <1>0, <2>2, <3>1, <3>2 DEF Told, LastRunDecides
  <2> QED BY <1>2, <1>7, <2>1, <2>2 DEF Told, LastRunDecides
<1>19. Chained'
  <2>1. ASSUME NEW p \in Created, NEW c, NEW turn, Follows(p, c, turn)
        PROVE  p \notin raced => ~BeingCreated(p)' /\ ConversationOf(p)' = c /\ turn = rows'[p].meta.turn + 1
    <3>1. p # s /\ rows'[p] = rows[p]
      BY <1>1, <1>4, <1>6
    <3>2. BeingCreated(p)' => BeingCreated(p)
      <4>1. req'[r].sid = s
        BY <1>8, <1>9
      <4> QED BY <1>14, <3>1, <4>1 DEF BeingCreated
    <3> QED BY <2>1, <3>1, <3>2 DEF Follows, ConversationOf
  <2>2. ASSUME NEW q \in Requests, req'[q].op = "reply", req'[q].pc = "create" \/ Saving(q)'
        PROVE  /\ req'[q].parent \in Created /\ req'[q].conv \in Conversations
               /\ Saving(q)' => req'[q].parent < req'[q].sid
               /\ Follows(req'[q].parent, req'[q].conv, req'[q].turn)
    <3>1. CASE q = r
      <4>1. op = "reply" /\ req'[r].sid = s /\ req'[r].parent = req[r].parent
            /\ req'[r].conv = req[r].conv /\ req'[r].turn = req[r].turn
        BY <1>8, <1>9, <2>2, <3>1
      <4>2. req[r].pc = "create" /\ req[r].op = "reply"
        BY <1>0, <4>1 DEF CreateSession, Asked
      <4>3. req[r].parent \in Created /\ req[r].conv \in Conversations
            /\ Follows(req[r].parent, req[r].conv, req[r].turn)
        BY <1>0, <4>2 DEF Chained
      <4>4. req[r].parent < s
        BY <1>3, <1>4, <4>3
      <4> QED BY <3>1, <4>1, <4>3, <4>4
    <3>2. CASE q # r
      BY <1>0, <1>9, <1>14, <2>2, <3>2 DEF Chained
    <3> QED BY <3>1, <3>2
  <2>3. ASSUME NEW q \in Requests, req'[q].op = "reply", req'[q].pc = "create" \/ Saving(q)'
        PROVE  Follows(req[q].parent, req[q].conv, req[q].turn)'
    <3>1. PICK p, c, turn : p = req'[q].parent /\ c = req'[q].conv /\ turn = req'[q].turn
      OBVIOUS
    <3>2. p \in Created /\ Follows(p, c, turn)
      BY <2>2, <2>3, <3>1
    <3>3. p \notin raced => ~BeingCreated(p)' /\ ConversationOf(p)' = c /\ turn = rows'[p].meta.turn + 1
      BY <2>1, <3>2
    <3> QED BY <1>2, <3>1, <3>3 DEF Follows
  <2>4. ASSUME NEW t \in Stored' \ raced, rows'[t].meta.parent # 0
        PROVE  /\ rows'[t].meta.parent < t
               /\ Follows(rows[t].meta.parent, ConversationOf(t), rows[t].meta.turn)'
    <3>0. t # s /\ t \in Stored /\ rows'[t] = rows[t]
      BY <1>4, <1>6, <1>7, <2>4, Blank
    <3>1. PICK p, c, turn : p = rows[t].meta.parent /\ c = ConversationOf(t) /\ turn = rows[t].meta.turn
      OBVIOUS
    <3>2. p < t /\ Follows(p, c, turn)
      BY <1>0, <2>4, <3>0, <3>1 DEF Chained
    <3>3. p \in Created
      <4>1. p \in Sessions /\ t <= created
        BY <1>0, <1>4, <2>4, <3>0, <3>1, RowType
      <4>2. p <= created
        <5>1. p \in Nat /\ t \in Nat /\ created \in Nat
          BY <1>0, <1>4, <3>0, <4>1, CreatedFacts, Numbers
        <5> QED BY <3>2, <4>1, <5>1
      <4> QED BY <1>0, <4>1, <4>2, RowType
    <3>4. p \notin raced => ~BeingCreated(p)' /\ ConversationOf(p)' = c /\ turn = rows'[p].meta.turn + 1
      BY <2>1, <3>2, <3>3
    <3>5. c = ConversationOf(t)' /\ p = rows'[t].meta.parent /\ turn = rows'[t].meta.turn
      BY <3>0, <3>1 DEF ConversationOf
    <3> QED BY <1>2, <3>2, <3>4, <3>5 DEF Follows
  <2> QED BY <1>2, <1>4, <2>2, <2>3, <2>4 DEF Chained
<1> QED BY <1>10, <1>11, <1>12, <1>13, <1>16, <1>17, <1>18, <1>19 DEF IInv

(* What the handler of a session that was never raced stores, it stores    *)
(* before anybody else does.                                               *)
LEMMA RequestStores ==
  ASSUME IInv, NEW r \in Requests, RequestWrites(r)
  PROVE  IInv'
<1>0. /\ TypeOK /\ (\A b \in Actors : Placed(b)) /\ SlotsTaken /\ Unused /\ Alone /\ Watched
      /\ Told /\ Chained /\ (\A q \in Requests : Asked(q))
  BY DEF IInv
<1>1. Saving(r) /\ req[r].loaded /\ req[r].pc \in SavingPcs
  BY DEF RequestWrites, Saving, SavingPcs
<1>2. PICK s \in Sessions : s = req[r].sid /\ s \in Created /\ s # 0
  BY <1>0, <1>1, CreatedFacts, Numbers DEF Asked
<1>3. /\ UNCHANGED <<created, slot, ending, open, drained, run, unsaved, raced, outcome, restarted>>
      /\ rows' = [rows EXCEPT ![s].meta = Updated(r)]
      /\ req' = [req EXCEPT ![r].pc = NextCall(r), ![r].loaded = FALSE, ![r].meta = NoMetadata]
  BY <1>2 DEF RequestWrites, manager, history
<1>4. PICK m \in Metadata :
        /\ m = Updated(r)
        /\ req[r].pc = "conversation" =>
             m.conv = req[r].conv /\ m.parent = req[r].parent /\ m.turn = req[r].turn
        /\ req[r].pc # "conversation" => m = req[r].meta
  <2>1. /\ req[r].meta \in Metadata /\ req[r].conv \in {0} \cup Conversations
        /\ req[r].parent \in {0} \cup Sessions /\ req[r].turn \in Nat
    BY <1>0, ReqType
  <2>2. CASE req[r].pc = "conversation"
    <3>1. Updated(r) = [req[r].meta EXCEPT !.conv = req[r].conv, !.parent = req[r].parent,
                                           !.turn = req[r].turn]
      BY <2>2 DEF Updated
    <3>2. Updated(r) \in Metadata
      BY <2>1, <3>1 DEF Metadata
    <3>3. /\ Updated(r).conv = req[r].conv /\ Updated(r).parent = req[r].parent
          /\ Updated(r).turn = req[r].turn
      BY <2>1, <3>1 DEF Metadata
    <3> QED BY <2>2, <3>2, <3>3
  <2>3. CASE req[r].pc # "conversation"
    <3>1. Updated(r) = req[r].meta
      BY <2>3 DEF Updated
    <3> QED BY <2>1, <2>3, <3>1
  <2> QED BY <2>2, <2>3
<1>5. /\ rows' \in [Sessions -> [status : Statuses \cup {""}, meta : Metadata]]
      /\ rows'[s].status = rows[s].status /\ rows'[s].meta = m /\ Stored' = Stored
      /\ \A t \in Sessions \ {s} : rows'[t] = rows[t]
  <2>1. PICK st \in Statuses : st = rows[s].status
    BY <1>0, <1>2, SameRow
  <2>2. rows' = [rows EXCEPT ![s] = [status |-> st, meta |-> m]]
    <3>1. rows[s] = [status |-> st, meta |-> rows[s].meta]
      BY <1>0, <2>1, RowType
    <3>2. [rows[s] EXCEPT !.meta = m] = [status |-> st, meta |-> m]
      BY <3>1
    <3>3. rows' = [rows EXCEPT ![s] = [rows[s] EXCEPT !.meta = m]]
      BY <1>0, <1>3, <1>4 DEF TypeOK
    <3> QED BY <3>2, <3>3
  <2>3. Stored = 1 .. created /\ created' = created
    BY <1>0, <1>3 DEF TypeOK
  <2> QED BY <1>0, <1>2, <2>1, <2>2, <2>3, RowChanges
<1>6. PICK w \in Request :
        /\ req' = [req EXCEPT ![r] = w] /\ w.pc = NextCall(r) /\ ~w.loaded
        /\ w.sid = s /\ w.op = req[r].op /\ w.parent = req[r].parent /\ w.conv = req[r].conv
        /\ w.turn = req[r].turn
  <2> DEFINE w == [req[r] EXCEPT !.pc = NextCall(r), !.loaded = FALSE, !.meta = NoMetadata]
  <2>1. req' = [req EXCEPT ![r] = w]
    BY <1>0, <1>3 DEF TypeOK
  <2>2. NextCall(r) \in {"diagnostics", "start", "conversation"}
    BY DEF NextCall
  <2>3. w \in Request
    BY <1>0, <2>2, ReqType, Blank DEF Request
  <2>4. /\ w.pc = NextCall(r) /\ w.sid = s /\ w.op = req[r].op /\ w.parent = req[r].parent
        /\ w.conv = req[r].conv /\ w.turn = req[r].turn
    BY <1>0, <1>2, ReqType DEF Request
  <2>5. ~w.loaded
    BY <1>0, ReqType DEF Request
  <2> HIDE DEF w
  <2> QED BY <2>1, <2>3, <2>4, <2>5
<1>7. /\ req' \in [Requests -> Request] /\ req'[r] = w
      /\ \A q \in Requests \ {r} : req'[q] = req[q]
  BY <1>0, <1>6, ReqChanges
<1>8. /\ w.pc \in {"diagnostics", "start", "conversation"}
      /\ w.pc = "conversation" => w.op # "run"
      /\ w.pc \in SavingPcs => req[r].pc # "conversation"
  BY <1>1, <1>6, Points DEF NextCall
<1>c. Created' = Created /\ Created = Stored /\ Created \subseteq Sessions
  BY <1>0, <1>3, CreatedFacts DEF Created
<1>9. TypeOK'
  <2>1. Stored' = 1 .. created'
    BY <1>0, <1>3, <1>5 DEF TypeOK
  <2> QED BY <1>0, <1>3, <1>5, <1>7, <2>1 DEF TypeOK
<1>10. (\A b \in Actors : Placed(b)') /\ SlotsTaken'
  <2>1. \A b \in Actors : Placed(b)'
    BY <1>0, <1>3, <1>c DEF Placed
  <2> QED BY <1>0, <1>3, <2>1 DEF SlotsTaken
<1>11. Saving(r)' => w.pc \in SavingPcs
  BY <1>7 DEF Saving, SavingPcs
<1>12. \A q \in Requests : Asked(q)'
  <2>1. Asked(r)'
    <3>1. /\ req'[r].pc \in {"diagnostics", "start", "conversation"} /\ ~req'[r].loaded
          /\ (req'[r].pc = "conversation" => req'[r].op # "run")
          /\ req'[r].sid = s /\ s \in Created' /\ req'[r].op = req[r].op
          /\ req'[r].parent = req[r].parent
      BY <1>2, <1>6, <1>7, <1>8, <1>c
    <3> QED BY <1>0, <1>1, <3>1 DEF Asked
  <2>2. ASSUME NEW q \in Requests, q # r PROVE Asked(q)'
    <3>1. req'[q] = req[q] /\ Asked(q)
      BY <1>0, <1>7, <2>2
    <3> QED BY <1>c, <3>1 DEF Asked, Saving
  <2> QED BY <2>1, <2>2
<1>13. Unused'
  <2>1. s <= created /\ created \in Nat
    BY <1>0, <1>2, RowType, CreatedFacts
  <2> SUFFICES ASSUME NEW t \in Sessions, t > created
               PROVE  rows'[t].status = "" /\ rows'[t].meta = NoMetadata
    BY <1>0, <1>3 DEF Unused
  <2>2. t # s
    <3>1. t \in Nat /\ s \in Nat
      BY Numbers
    <3> QED BY <2>1, <3>1
  <2> QED BY <1>0, <1>5, <2>2 DEF Unused
<1>14. \A q \in Requests : Saving(q)' => Saving(q) /\ req'[q].sid = req[q].sid
  <2>1. ASSUME NEW q \in Requests, q # r PROVE Saving(q)' => Saving(q) /\ req'[q].sid = req[q].sid
    BY <1>7, <2>1 DEF Saving
  <2>2. req'[r].sid = req[r].sid
    BY <1>2, <1>6, <1>7
  <2> QED BY <1>1, <2>1, <2>2
<1>15. \A q \in Requests : Saving(q)' /\ q # r => req[q].sid # s
  BY <1>0, <1>1, <1>2, <1>14 DEF Alone
<1>16. s \notin raced => /\ Fresh(s) /\ (req[r].pc # "conversation" => m = NoMetadata)
                         /\ outcome[s] = "" /\ \A b \in Actors : run[b].sid # s
  <2>1. s \notin raced => Fresh(s) /\ req[r].meta = NoMetadata
    BY <1>0, <1>1, <1>2 DEF Alone
  <2> QED BY <1>4, <2>1 DEF Fresh
<1>17. Alone'
  <2>1. ASSUME NEW q \in Requests, Saving(q)', req'[q].sid \notin raced
        PROVE  Fresh(req[q].sid)' /\ (req'[q].loaded => req'[q].meta = NoMetadata)
    <3>1. CASE q = r
      <4>1. req'[q].sid = s /\ ~req'[q].loaded /\ w.pc \in SavingPcs
        BY <1>6, <1>7, <1>11, <2>1, <3>1
      <4>2. rows'[s].status = "pending" /\ rows'[s].meta = NoMetadata /\ outcome[s] = ""
            /\ \A b \in Actors : run[b].sid # s
        BY <1>5, <1>8, <1>16, <2>1, <4>1 DEF Fresh
      <4> QED BY <1>3, <4>1, <4>2 DEF Fresh
    <3>2. CASE q # r
      <4>1. Saving(q) /\ req'[q] = req[q] /\ req[q].sid # s /\ req[q].sid \in Sessions
        BY <1>0, <1>7, <1>14, <1>15, <1>c, <2>1, <3>2 DEF Asked
      <4>2. Fresh(req[q].sid) /\ (req[q].loaded => req[q].meta = NoMetadata)
        BY <1>0, <2>1, <4>1 DEF Alone
      <4>3. rows'[req[q].sid] = rows[req[q].sid]
        BY <1>5, <4>1
      <4> QED BY <1>3, <4>1, <4>2, <4>3 DEF Fresh
    <3> QED BY <3>1, <3>2
  <2>2. \A q, p \in Requests : Saving(q)' /\ Saving(p)' /\ req'[q].sid = req'[p].sid => q = p
    BY <1>0, <1>14 DEF Alone
  <2>3. ASSUME NEW b \in Actors, run[b].loaded, run[b].sid \notin raced
        PROVE  run[b].meta = rows'[run[b].sid].meta
    <3>1. run[b].pc \in {"begin", "ending", "diagnostics", "fatal"}
      BY <1>0, <2>3 DEF Placed
    <3>2. run[b].sid \in Sessions
      BY <1>0, <3>1, RunSession
    <3>3. rows'[run[b].sid] = rows[run[b].sid]
      BY <1>5, <1>16, <2>3, <3>2
    <3> QED BY <1>0, <2>3, <3>3 DEF Alone
  <2>4. \A a, b \in Actors : run[a].sid = run[b].sid /\ run[a].sid \notin raced \cup {0} => a = b
    BY <1>0 DEF Alone
  <2> QED BY <1>3, <2>1, <2>2, <2>3, <2>4 DEF Alone
<1>18. Watched'
  <2>1. \A t \in Stored : rows'[t].status = rows[t].status
    BY <1>5, <1>c
  <2>2. run' = run /\ restarted' = restarted /\ unsaved' = unsaved /\ Stored' = Stored
    BY <1>3, <1>5
  <2> QED BY <1>0, <2>1, <2>2 DEF Watched
<1>19. Told'
  <2>1. ASSUME NEW b \in Actors, run[b].sid \notin unsaved \cup raced PROVE Telling(b)'
    <3>1. CASE run[b].pc \in OnSlot \cup Closing
      <4>1. run[b].sid \in Sessions
        BY <1>0, <1>c, <3>1 DEF Placed
      <4>2. rows'[run[b].sid] = rows[run[b].sid]
        BY <1>5, <1>16, <2>1, <4>1
      <4> QED BY <1>0, <1>3, <2>1, <4>2 DEF Told, Telling
    <3>2. CASE run[b].pc \notin OnSlot \cup Closing
      <4>1. run[b].pc \notin {"finished", "diagnostics", "fatal", "over"}
        BY <3>2, Points
      <4> QED BY <1>3, <4>1 DEF Telling, Tells
    <3> QED BY <3>1, <3>2
  <2>2. ASSUME NEW t \in Stored, t \notin unsaved \cup raced, AtRest(t)', outcome[t] # ""
        PROVE  rows'[t].status = outcome[t] /\ rows'[t].meta.finalized
    <3>1. t # s /\ AtRest(t)
      BY <1>3, <1>16, <2>2 DEF AtRest
    <3>2. rows'[t] = rows[t]
      BY <1>5, <1>c, <3>1
    <3> QED BY <1>0, <2>2, <3>1, <3>2 DEF Told, LastRunDecides
  <2> QED BY <1>3, <1>5, <2>1, <2>2 DEF Told, LastRunDecides
<1>20. Chained'
  <2>1. ASSUME NEW p \in Sessions, NEW c, NEW turn, Follows(p, c, turn)
        PROVE  p \notin raced => ~BeingCreated(p)' /\ ConversationOf(p)' = c /\ turn = rows'[p].meta.turn + 1
    <3> SUFFICES ASSUME p \notin raced
                 PROVE  ~BeingCreated(p)' /\ ConversationOf(p)' = c /\ turn = rows'[p].meta.turn + 1
      OBVIOUS
    <3>1. ~BeingCreated(p) /\ ConversationOf(p) = c /\ turn = rows[p].meta.turn + 1
      BY <2>1 DEF Follows
    <3>2. p # s
      BY <1>1, <1>2, <3>1 DEF BeingCreated
    <3>3. rows'[p] = rows[p]
      BY <1>5, <3>2
    <3>4. ~BeingCreated(p)'
      BY <1>14, <3>1 DEF BeingCreated
    <3> QED BY <3>1, <3>3, <3>4 DEF ConversationOf
  <2>2. ASSUME NEW q \in Requests, req'[q].op = "reply", req'[q].pc = "create" \/ Saving(q)'
        PROVE  /\ req'[q].parent \in Created /\ req'[q].conv \in Conversations
               /\ Saving(q)' => req'[q].parent < req'[q].sid
               /\ Follows(req'[q].parent, req'[q].conv, req'[q].turn)
    <3>1. CASE q = r
      <4>1. /\ req'[r].op = req[r].op /\ req'[r].parent = req[r].parent
            /\ req'[r].conv = req[r].conv /\ req'[r].turn = req[r].turn
            /\ req'[r].sid = req[r].sid
        BY <1>2, <1>6, <1>7
      <4> QED BY <1>0, <1>1, <2>2, <3>1, <4>1 DEF Chained
    <3>2. CASE q # r
      BY <1>0, <1>7, <1>14, <2>2, <3>2 DEF Chained
    <3> QED BY <3>1, <3>2
  <2>3. ASSUME NEW q \in Requests, req'[q].op = "reply", req'[q].pc = "create" \/ Saving(q)'
        PROVE  Follows(req[q].parent, req[q].conv, req[q].turn)'
    <3>1. PICK p, c, turn : p = req'[q].parent /\ c = req'[q].conv /\ turn = req'[q].turn
      OBVIOUS
    <3>2. p \in Sessions /\ Follows(p, c, turn)
      BY <1>c, <2>2, <2>3, <3>1
    <3>3. p \notin raced => ~BeingCreated(p)' /\ ConversationOf(p)' = c /\ turn = rows'[p].meta.turn + 1
      BY <2>1, <3>2
    <3> QED BY <1>3, <3>1, <3>3 DEF Follows
  <2>4. ASSUME NEW t \in Stored \ raced, rows'[t].meta.parent # 0
        PROVE  /\ rows'[t].meta.parent < t
               /\ Follows(rows[t].meta.parent, ConversationOf(t), rows[t].meta.turn)'
    <3>1. \E p, c, turn :
            /\ p \in Sessions /\ p = rows'[t].meta.parent /\ c = ConversationOf(t)' /\ turn = rows'[t].meta.turn
            /\ p < t /\ Follows(p, c, turn)
      <4>1. CASE t = s
        <5>1. req[r].pc = "conversation" /\ m.parent # 0
          BY <1>5, <1>16, <2>4, <4>1, Blank
        <5>2. m.conv = req[r].conv /\ m.parent = req[r].parent /\ m.turn = req[r].turn
          BY <1>4, <5>1
        <5>3. req[r].op = "reply"
          BY <1>0, <1>1, <5>1, <5>2 DEF Asked
        <5>4. /\ req[r].parent \in Created /\ req[r].conv \in Conversations
              /\ req[r].parent < s /\ Follows(req[r].parent, req[r].conv, req[r].turn)
          BY <1>0, <1>1, <1>2, <5>3 DEF Chained
        <5>5. ConversationOf(t)' = req[r].conv
          <6>1. req[r].conv # 0
            BY <5>4, Numbers
          <6> QED BY <1>5, <4>1, <5>2, <6>1 DEF ConversationOf
        <5> QED BY <1>5, <1>c, <4>1, <5>2, <5>4, <5>5
      <4>2. CASE t # s
        <5>1. rows'[t] = rows[t] /\ ConversationOf(t)' = ConversationOf(t)
          BY <1>5, <1>c, <4>2 DEF ConversationOf
        <5>2. rows[t].meta.parent \in Sessions
          BY <1>0, <1>c, <2>4, <5>1, RowType
        <5> QED BY <1>0, <2>4, <5>1, <5>2 DEF Chained
      <4> QED BY <4>1, <4>2
    <3>2. PICK p, c, turn :
            /\ p \in Sessions /\ p = rows'[t].meta.parent /\ c = ConversationOf(t)' /\ turn = rows'[t].meta.turn
            /\ p < t /\ Follows(p, c, turn)
      BY <3>1
    <3>3. p \notin raced => ~BeingCreated(p)' /\ ConversationOf(p)' = c /\ turn = rows'[p].meta.turn + 1
      BY <2>1, <3>2
    <3> QED BY <1>3, <3>2, <3>3 DEF Follows
  <2>5. raced' = raced /\ Stored' = Stored
    BY <1>3, <1>5
  <2> QED BY <1>c, <2>2, <2>3, <2>4, <2>5 DEF Chained
<1> QED BY <1>9, <1>10, <1>12, <1>13, <1>17, <1>18, <1>19, <1>20 DEF IInv

-----------------------------------------------------------------------------
(* A restart leaves the rows, and nobody at work on them.                  *)
LEMMA ProcessRestarts ==
  ASSUME IInv, Restart
  PROVE  IInv'
<1>0. /\ TypeOK /\ (\A b \in Actors : Placed(b)) /\ Unused /\ Chained
  BY DEF IInv
<1>1. /\ slot' = [s \in Sessions |-> NoActor] /\ ending' = {} /\ restarted' = TRUE
      /\ outcome' = [s \in Sessions |-> ""]
      /\ run' = [a \in Actors |-> IF run[a].pc = "free" THEN FreeRun ELSE Exited]
      /\ req' = [r \in Requests |-> IF req[r].pc = "idle" THEN IdleRequest ELSE Answered]
      /\ UNCHANGED <<created, rows, open, drained, unsaved, raced>>
  BY DEF Restart
<1>c. Created' = Created /\ Stored' = Stored
  BY <1>1 DEF Created, Stored
<1>2. ASSUME NEW a \in Actors PROVE run'[a] \in {FreeRun, Exited}
  BY <1>1
<1>3. ASSUME NEW r \in Requests PROVE req'[r] \in {IdleRequest, Answered}
  BY <1>1
<1>4. TypeOK'
  <2>1. run' \in [Actors -> Run]
    BY <1>1, Blank
  <2>2. req' \in [Requests -> Request]
    BY <1>1, Blank
  <2>3. slot' \in [Sessions -> Actors \cup {NoActor}] /\ outcome' \in [Sessions -> Statuses \cup {""}]
    BY <1>1
  <2> QED BY <1>0, <1>1, <1>c, <2>1, <2>2, <2>3 DEF TypeOK
<1>5. ASSUME NEW a \in Actors
      PROVE  /\ run'[a].pc \in {"free", "exited"} /\ run'[a].sid = 0
             /\ (run'[a].pc = "free" => run'[a] = FreeRun)
  BY <1>2, Blank
<1>6. ASSUME NEW a \in Actors PROVE ~run'[a].loaded
  <2>1. CASE run'[a] = FreeRun
    BY <2>1, Blank
  <2>2. CASE run'[a] = Exited
    BY <2>2, Blank
  <2> QED BY <1>2, <2>1, <2>2
<1>7. ASSUME NEW a \in Actors PROVE Placed(a)' /\ Telling(a)'
  <2>1. run'[a].pc \notin OnSlot /\ run'[a].pc \notin Closing
    BY <1>5, Points
  <2>2. Placed(a)'
    BY <1>1, <1>5, <1>6, <2>1 DEF Placed
  <2>3. Telling(a)'
    BY <1>5 DEF Telling, Tells
  <2> QED BY <2>2, <2>3
<1>8. ASSUME NEW r \in Requests
      PROVE  /\ req'[r].pc \in {"idle", "done"} /\ req'[r].op = "none" /\ ~Saving(r)'
             /\ (req'[r].pc = "idle" => req'[r] = IdleRequest)
  BY <1>3, Blank DEF Saving
<1>9. ASSUME NEW r \in Requests PROVE ~req'[r].loaded
  <2>1. CASE req'[r] = IdleRequest
    BY <2>1, Blank
  <2>2. CASE req'[r] = Answered
    BY <2>2, Blank
  <2> QED BY <1>3, <2>1, <2>2
<1>10. ASSUME NEW r \in Requests PROVE Asked(r)'
  BY <1>8, <1>9 DEF Asked
<1>11. SlotsTaken' /\ Unused' /\ Alone' /\ Watched'
  <2>1. SlotsTaken'
    BY <1>1 DEF SlotsTaken
  <2>2. Unused'
    BY <1>0, <1>1 DEF Unused
  <2>3. Alone'
    <3>1. \A a, b \in Actors : run'[a].sid \notin raced' \cup {0} => a = b
      BY <1>5
    <3> QED BY <1>5, <1>6, <1>8, <3>1 DEF Alone
  <2>4. Watched'
    BY <1>1 DEF Watched
  <2> QED BY <2>1, <2>2, <2>3, <2>4
<1>12. Told'
  <2>1. LastRunDecides'
    <3>1. Stored \subseteq Sessions
      BY DEF Stored
    <3> QED BY <1>1, <1>c, <3>1 DEF LastRunDecides
  <2> QED BY <1>7, <2>1 DEF Told
<1>13. Chained'
  <2>1. ASSUME NEW t \in Stored \ raced, rows[t].meta.parent # 0
        PROVE  /\ rows[t].meta.parent < t
               /\ Follows(rows[t].meta.parent, ConversationOf(t), rows[t].meta.turn)'
    <3>1. /\ rows[t].meta.parent < t
          /\ Follows(rows[t].meta.parent, ConversationOf(t), rows[t].meta.turn)
      BY <1>0, <2>1 DEF Chained
    <3>2. \A p : ~BeingCreated(p)'
      BY <1>8 DEF BeingCreated
    <3> QED BY <1>1, <3>1, <3>2 DEF Follows, ConversationOf
  <2>2. \A t : ConversationOf(t)' = ConversationOf(t)
    BY <1>1 DEF ConversationOf
  <2>3. \A r \in Requests : req'[r].op # "reply"
    BY <1>8
  <2> QED BY <1>1, <1>c, <2>1, <2>3 DEF Chained
<1> QED BY <1>4, <1>7, <1>10, <1>11, <1>12, <1>13 DEF IInv

-----------------------------------------------------------------------------
(* The invariant holds at first and is kept.                               *)
LEMMA Start == Init => IInv
<1> SUFFICES ASSUME Init PROVE IInv
  OBVIOUS
<1>1. /\ created = 0 /\ rows = [s \in Sessions |-> [status |-> "", meta |-> NoMetadata]]
      /\ slot = [s \in Sessions |-> NoActor] /\ ending = {} /\ open = TRUE /\ drained = FALSE
      /\ run = [a \in Actors |-> FreeRun] /\ req = [r \in Requests |-> IdleRequest]
      /\ unsaved = {} /\ raced = {} /\ outcome = [s \in Sessions |-> ""] /\ restarted = FALSE
  BY DEF Init, Manager!Init
<1>2. Stored = {} /\ Stored = 1 .. created
  <2>1. Stored = {}
    BY <1>1 DEF Stored
  <2>2. created = 0
    BY <1>1
  <2>3. 1 .. 0 = {}
    OBVIOUS
  <2> QED BY <2>1, <2>2, <2>3
<1>3. TypeOK
  <2>1. created \in 0 .. N
    <3>1. created = 0
      BY <1>1
    <3> QED BY <3>1, NAssumption
  <2>2. rows \in [Sessions -> [status : Statuses \cup {""}, meta : Metadata]]
    BY <1>1, Blank
  <2>3. run \in [Actors -> Run] /\ req \in [Requests -> Request]
    BY <1>1, Blank
  <2> QED BY <1>1, <1>2, <2>1, <2>2, <2>3 DEF TypeOK
<1>4. ASSUME NEW a \in Actors
      PROVE  run[a] = FreeRun /\ run[a].pc = "free" /\ run[a].sid = 0 /\ ~run[a].loaded
  <2>1. run[a] = FreeRun
    BY <1>1
  <2> QED BY <2>1, Blank
<1>5. ASSUME NEW a \in Actors PROVE Placed(a) /\ Telling(a)
  <2>1. run[a].pc \notin OnSlot /\ run[a].pc \notin Closing
    BY <1>4, Points
  <2>2. Placed(a)
    BY <1>1, <1>4, <2>1 DEF Placed
  <2> QED BY <1>4, <2>2 DEF Telling, Tells
<1>6. ASSUME NEW r \in Requests
      PROVE  req[r] = IdleRequest /\ req[r].pc = "idle" /\ req[r].op = "none" /\ ~req[r].loaded
             /\ ~Saving(r)
  <2>1. req[r] = IdleRequest
    BY <1>1
  <2> QED BY <2>1, Blank DEF Saving
<1>7. \A r \in Requests : Asked(r)
  BY <1>6 DEF Asked
<1>8. SlotsTaken /\ Unused /\ Alone /\ Watched
  <2>1. SlotsTaken
    BY <1>1 DEF SlotsTaken
  <2>2. Unused
    BY <1>1 DEF Unused
  <2>3. Alone
    <3>1. \A a, b \in Actors : run[a].sid \notin raced \cup {0} => a = b
      BY <1>4
    <3> QED BY <1>4, <1>6, <3>1 DEF Alone
  <2>4. Watched
    BY <1>2 DEF Watched
  <2> QED BY <2>1, <2>2, <2>3, <2>4
<1>9. Told
  BY <1>2, <1>5 DEF Told, LastRunDecides
<1>10. Chained
  BY <1>2, <1>6 DEF Chained
<1> QED BY <1>3, <1>5, <1>7, <1>8, <1>9, <1>10 DEF IInv

LEMMA Stutters ==
  ASSUME IInv, UNCHANGED vars
  PROVE  IInv'
<1>1. UNCHANGED <<created, rows, slot, ending, open, drained, run, req, unsaved, raced, outcome,
                  restarted>>
  BY DEF vars, manager, history
<1>2. IInv
  OBVIOUS
<1>3. TypeOK'
  BY <1>1, <1>2 DEF IInv, TypeOK, Stored
<1>4. (\A a \in Actors : Placed(a)') /\ SlotsTaken'
  BY <1>1, <1>2 DEF IInv, Placed, SlotsTaken, Created
<1>5. (\A r \in Requests : Asked(r)') /\ Unused'
  BY <1>1, <1>2 DEF IInv, Asked, Saving, Unused, Created
<1>6. Alone'
  BY <1>1, <1>2 DEF IInv, Alone, Saving, Fresh
<1>7. Watched' /\ Told'
  BY <1>1, <1>2 DEF IInv, Watched, Told, Telling, LastRunDecides, AtRest, Stored
<1>8. Chained'
  BY <1>1, <1>2 DEF IInv, Chained, Follows, Saving, BeingCreated, ConversationOf, Stored, Created
<1> QED BY <1>3, <1>4, <1>5, <1>6, <1>7, <1>8 DEF IInv

LEMMA Step ==
  ASSUME IInv, [Next]_vars
  PROVE  IInv'
<1>1. ASSUME NEW r \in Requests, RequestStep(r) PROVE IInv'
  <2>1. CASE \E op \in {"run", "chat", "reply"} : CreateSession(r, op)
    BY <2>1, SessionIsCreated
  <2>2. CASE \/ \E c \in Conversations : ReadsConversation(r, c)
             \/ \E s \in Sessions : LooksUp(r, s)
             \/ RequestLoads(r) \/ RequestFails(r) \/ Inspects(r) \/ Refused(r)
    BY <2>2, QuietRequestSteps
  <2>3. CASE RequestWrites(r)
    BY <2>3, RequestStores
  <2>4. CASE \E a \in Actors : Starts(r, a)
    BY <2>4, RunStarts
  <2> QED BY <1>1, <2>1, <2>2, <2>3, <2>4 DEF RequestStep
<1>2. ASSUME NEW a \in Actors, RunStep(a) PROVE IInv'
  <2>1. CASE RunLoads(a) \/ RunEnds(a) \/ RunFails(a) \/ LeavesSlot(a)
    BY <2>1, QuietRunSteps
  <2>2. CASE SavesRunning(a) \/ SavesEnd(a) \/ SavesDiagnostics(a) \/ SavesFatal(a)
    BY <2>2, StoringRunSteps
  <2>3. CASE FinalizerFails(a)
    BY <2>3, FinalizerGivesUp
  <2>4. CASE RunOver(a)
    BY <2>4, RunIsOver
  <2> QED BY <1>2, <2>1, <2>2, <2>3, <2>4 DEF RunStep
<1>3. CASE Restart
  BY <1>3, ProcessRestarts
<1>4. CASE UNCHANGED vars
  BY <1>4, Stutters
<1> QED BY <1>1, <1>2, <1>3, <1>4 DEF Next

LEMMA Invariance == Spec => []IInv
<1>1. Init => IInv
  BY Start
<1>2. IInv /\ [Next]_vars => IInv'
  BY Step
<1> QED BY <1>1, <1>2, PTL DEF Spec

-----------------------------------------------------------------------------
(* No fault of the store and no restart puts a value where it does not     *)
(* belong, and there is a row for each session created and for no other:   *)
(* the finalizer and the runs only store sessions that a handler created.  *)
THEOREM TypeCorrect == Spec => []TypeOK
<1>1. IInv => TypeOK
  BY DEF IInv
<1> QED BY <1>1, Invariance, PTL

(* No zombies: as long as the process does not die and the store takes     *)
(* what the finalizer hands it, a session that no run is at work on is not *)
(* stored as running, however many runs of it followed one another         *)
(* (persistFatalOnRunnerError, internal/service/chat.go).                  *)
THEOREM NoSessionIsLeftRunning == Spec => []NoZombie
<1>1. IInv => NoZombie
  <2> SUFFICES ASSUME IInv, NEW s \in Stored \ unsaved, AtRest(s), ~restarted,
                      rows[s].status = "running"
               PROVE  FALSE
    BY DEF NoZombie
  <2>1. PICK a \in Actors : run[a].sid = s /\ Undecided(run[a])
    BY DEF IInv, Watched
  <2>2. run[a].pc # "exited"
    BY <2>1 DEF Undecided
  <2> QED BY <2>1, <2>2 DEF AtRest
<1> QED BY <1>1, Invariance, PTL

(* The last run has the last word: of a session that never was started     *)
(* while another writer was at work on it, the status stored is how the    *)
(* last run of it ended, and the finalizer has marked it as finalized.     *)
THEOREM LastRunHasTheWord == Spec => []LastRunDecides
<1>1. IInv => LastRunDecides
  BY DEF IInv, Told
<1> QED BY <1>1, Invariance, PTL

(* The turns of a conversation form a tree: SubmitReply chains a session   *)
(* to one of the same conversation, created before it, with the number     *)
(* before its own, though it reads the conversation in one call and stores *)
(* the chain in another, and no run or finalizer ever unhooks a turn.      *)
THEOREM TurnsAreATree == Spec => []TurnsFormATree
<1>1. IInv => TurnsFormATree
  <2> SUFFICES ASSUME IInv, NEW s \in Stored, NEW parent, parent = rows[s].meta.parent,
                      parent # 0, {s, parent} \cap raced = {}
               PROVE  /\ parent < s /\ ConversationOf(parent) = ConversationOf(s)
                      /\ rows[s].meta.turn = rows[parent].meta.turn + 1
    BY DEF TurnsFormATree
  <2>1. s \notin raced /\ parent \notin raced
    OBVIOUS
  <2>2. parent < s /\ Follows(parent, ConversationOf(s), rows[s].meta.turn)
    BY <2>1 DEF IInv, Chained
  <2> QED BY <2>1, <2>2 DEF Follows
<1> QED BY <1>1, Invariance, PTL
=============================================================================
