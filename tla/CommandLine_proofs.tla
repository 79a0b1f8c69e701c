------------------------- MODULE CommandLine_proofs -------------------------
(***************************************************************************)
(* Proofs about CommandLine: the outcome that a command shows is stored,   *)
(* a stored success stands, and a session keeps its plugin, for any number *)
(* of commands, sessions and plugins, of writes that fail and of processes *)
(* that are killed.                                                        *)
(***************************************************************************)
EXTENDS CommandLine, TLAPS

-----------------------------------------------------------------------------
(* Types.                                                                  *)

Ends == {"success", "blocked_input", "budget_exceeded", "fatal_error", "interrupted"}
RowStatuses == {"none", "running"} \cup Ends
Active == {"starting", "planning", "working"}
Labels == {"idle", "opening", "saving", "loading", "equipping", "running",
           "leaving", "exited"}

RowType == [status : RowStatuses, plan : BOOLEAN, plugin : Providers \cup {Nobody},
            by : Processes \cup {Nobody}]
CommandType == [name : {"run", "resume", "inspect"}, session : Sessions,
                mode : {"single", "all", "best", "stream", "none"},
                plugin : Providers \cup {Nobody}]
EngineType == [pc : {"idle", "over"} \cup Active, status : Ends \cup {""}, err : BOOLEAN]
Faults == {"write", "lost", "stream", "killed"}

TypeOK ==
  /\ rows \in [Sessions -> RowType]
  /\ pc \in [Processes -> Labels]
  /\ command \in [Processes -> CommandType \cup {[name |-> ""]}]
  /\ open \in [Processes -> SUBSET {"signals", "stores"}]
  /\ cancelled \in [Processes -> BOOLEAN]
  /\ engine \in [Processes -> EngineType]
  /\ seen \in [Processes -> RowStatuses \cup {""}]
  /\ shown \in [Processes -> RowStatuses \cup {""}]
  /\ faults \in [Processes -> SUBSET Faults]
  /\ failures \in Nat /\ kills \in Nat

-----------------------------------------------------------------------------
(* The inductive invariant.                                                *)

(* A process that may write: it has got past the checks of its command.    *)
Equipped(p) == pc[p] \in {"equipping", "running"} \/ engine[p].pc # "idle"

(* What a process has come to, and what it has shown by then.              *)
Placed(p) ==
  /\ pc[p] # "idle" => command[p] \in CommandType
  /\ pc[p] = "saving" => command[p].name = "run"
  /\ pc[p] = "loading" => command[p].name # "run"
  /\ Equipped(p) => command[p].name \in {"run", "resume"} /\ seen[p] \notin Terminal
  /\ pc[p] = "running" => engine[p].pc # "idle"
  /\ engine[p].pc # "idle" => pc[p] \in {"running", "leaving"}
  /\ pc[p] \in {"idle", "opening", "saving", "loading"} => shown[p] = "" /\ seen[p] = ""
  /\ pc[p] \in {"equipping", "running"} /\ (command[p].name = "run" \/ command[p].mode = "stream")
       => shown[p] = ""
  /\ pc[p] = "leaving" /\ engine[p].pc \in Active => shown[p] = "" /\ faults[p] # {}

(* A process writes its own session only, and once its engine is over, what*)
(* that returned or what was shown is what it has stored.                  *)
Writes(p) ==
  /\ \A s \in Sessions :
       rows[s].by = p => /\ pc[p] \notin {"idle", "opening", "saving", "loading"}
                         /\ Session(p) = s
  /\ Equipped(p) => Row(p).status # "none"
  /\ pc[p] = "running" /\ engine[p].pc = "over" /\ engine[p].status # "" /\ Row(p).by = p
       => Row(p).status = engine[p].status
  /\ pc[p] \in {"leaving", "exited"} /\ faults[p] \cap {"killed", "lost"} = {} /\ shown[p] # ""
       /\ Row(p).by = p => Row(p).status = shown[p]

(* A run that has not ended, or whose end the command has yet to correct.  *)
Unsettled(p) ==
  \/ pc[p] = "equipping"
  \/ pc[p] = "running" /\ engine[p].pc \in Active
  \/ /\ pc[p] = "running" /\ command[p].mode # "stream" /\ cancelled[p]
     /\ engine[p].pc = "over" /\ engine[p].status = ""

(* A row and the process that wrote it last.                               *)
Told(s) ==
  LET p == rows[s].by
  IN /\ rows[s].status = "none" => ~rows[s].plan /\ rows[s].plugin = Nobody
     /\ rows[s].status # "none" => p \in Processes
     /\ rows[s].status = "running" => faults[p] # {} \/ Unsettled(p)
     /\ rows[s].status = "success" =>
          \/ pc[p] = "exited"
          \/ engine[p].pc = "over" /\ engine[p].status = "success"

(* The session of a run with a plugin, from its first plan on.             *)
Bound(p) ==
  pc[p] # "idle" /\ command[p].name = "run" =>
    /\ \A q \in Processes \ {p} :
         pc[q] # "idle" /\ Session(q) = Session(p) =>
           /\ command[q].name # "run"
           /\ command[p].plugin # Nobody /\ Equipped(q) =>
                command[q].plugin = command[p].plugin /\ Row(p).plan
    /\ command[p].plugin # Nobody =>
         /\ Row(p).plugin \in {Nobody, command[p].plugin}
         /\ Row(p).plan \/ engine[p].pc \in {"planning", "working"} =>
              Row(p).plugin = command[p].plugin

IInv ==
  /\ TypeOK
  /\ \A p \in Processes : Placed(p) /\ Writes(p) /\ Bound(p)
  /\ \A s \in Sessions : Told(s)

-----------------------------------------------------------------------------
(* What a step of one process needs to keep the invariant.                 *)

(* Process p moves, and the row of its session s becomes r.                *)
Moves(p, s, r) ==
  /\ pc[p] # "idle" /\ pc'[p] # "idle" /\ command[p].session = s
  /\ command'[p].name = command[p].name /\ command'[p].session = s
  /\ command'[p].plugin = command[p].plugin
  /\ rows' = [rows EXCEPT ![s] = r]
  /\ \A q \in Processes \ {p} :
       /\ pc'[q] = pc[q] /\ command'[q] = command[q] /\ cancelled'[q] = cancelled[q]
       /\ engine'[q] = engine[q] /\ seen'[q] = seen[q] /\ shown'[q] = shown[q]
       /\ faults'[q] = faults[q]

(* It leaves the row alone, or is entitled to what it makes of it.         *)
Entitled(p, s, r) ==
  /\ rows[s].plan => r.plan
  /\ r.by = p \/ (r.by = rows[s].by /\ r.status = rows[s].status)
  /\ rows[s].status # "none" => r.status # "none"
  /\ rows[s].status = "none" /\ r.by # p => r = rows[s]
  /\ r # rows[s] => Equipped(p) \/ command[p].name = "run"
  /\ r.plugin = rows[s].plugin \/ (rows[s].plugin = Nobody /\ r.plugin = command[p].plugin)
  /\ r.plan \/ engine'[p].pc \in {"planning", "working"} =>
       \/ rows[s].plan \/ engine[p].pc \in {"planning", "working"}
       \/ r.plugin = command[p].plugin \/ r.plugin # Nobody
  /\ Equipped(p)' =>
       \/ Equipped(p) \/ command[p].name = "run"
       \/ rows[s].plan /\ rows[s].plugin \in {Nobody, command[p].plugin}

(* What another process has come to is its own.                            *)
LEMMA OthersPlaced ==
  ASSUME IInv, NEW p \in Processes, NEW s \in Sessions, NEW r \in RowType, Moves(p, s, r),
         NEW q \in Processes \ {p}
  PROVE  Placed(q)'
<1>1. Placed(q)
  BY DEF IInv
<1>2. /\ pc'[q] = pc[q] /\ command'[q] = command[q] /\ engine'[q] = engine[q]
      /\ seen'[q] = seen[q] /\ shown'[q] = shown[q] /\ faults'[q] = faults[q]
  BY DEF Moves
<1> QED BY <1>1, <1>2 DEF Placed, Equipped

(* The row of the session, and the others.                                 *)
LEMMA RowOf ==
  ASSUME TypeOK, NEW p \in Processes, NEW s \in Sessions, NEW r \in RowType, Moves(p, s, r)
  PROVE  rows'[s] = r /\ \A t \in Sessions \ {s} : rows'[t] = rows[t]
BY DEF TypeOK, Moves

(* What another process has stored was stored last by it, or not any more. *)
LEMMA OthersWrite ==
  ASSUME IInv, NEW p \in Processes, NEW s \in Sessions, NEW r \in RowType, Moves(p, s, r),
         Entitled(p, s, r), NEW q \in Processes \ {p}
  PROVE  Writes(q)'
<1>1. Writes(q) /\ Placed(q) /\ TypeOK
  BY DEF IInv
<1>2. /\ pc'[q] = pc[q] /\ command'[q] = command[q] /\ engine'[q] = engine[q]
      /\ shown'[q] = shown[q] /\ faults'[q] = faults[q]
  BY DEF Moves
<1>3. rows'[s] = r /\ \A t \in Sessions \ {s} : rows'[t] = rows[t]
  BY <1>1, RowOf
<1>4. Session(q)' = Session(q) /\ Equipped(q)' = Equipped(q)
  BY <1>2 DEF Session, Equipped
<1>5. \A t \in Sessions : /\ rows'[t].by = q => rows[t].by = q /\ rows'[t].status = rows[t].status
                          /\ rows[t].status # "none" => rows'[t].status # "none"
  BY <1>3 DEF Entitled
<1>6. pc[q] # "idle" => Session(q) \in Sessions
  BY <1>1 DEF Placed, CommandType, Session
<1>7. \A t \in Sessions : rows'[t].by = q =>
        pc'[q] \notin {"idle", "opening", "saving", "loading"} /\ Session(q)' = t
  BY <1>1, <1>2, <1>4, <1>5 DEF Writes
<1>8. Equipped(q)' => Row(q)'.status # "none"
  <2>1. Equipped(q) => pc[q] # "idle"
    BY <1>1 DEF Placed, Equipped
  <2> QED BY <1>1, <1>4, <1>5, <1>6, <2>1 DEF Writes, Row
<1>9. pc'[q] = "running" /\ engine'[q].pc = "over" /\ engine'[q].status # "" /\ Row(q)'.by = q
        => Row(q)'.status = engine'[q].status
  BY <1>1, <1>2, <1>4, <1>5, <1>6 DEF Writes, Row
<1>10. pc'[q] \in {"leaving", "exited"} /\ faults'[q] \cap {"killed", "lost"} = {} /\ shown'[q] # ""
         /\ Row(q)'.by = q => Row(q)'.status = shown'[q]
  BY <1>1, <1>2, <1>4, <1>5, <1>6 DEF Writes, Row
<1> QED BY <1>7, <1>8, <1>9, <1>10 DEF Writes

(* The row of a process that is named.                                     *)
LEMMA ToldOf ==
  ASSUME NEW t \in Sessions, NEW q \in Processes, rows'[t].by = q, rows'[t].status # "none",
         rows'[t].status = "running" => faults'[q] # {} \/ Unsettled(q)',
         rows'[t].status = "success" =>
           pc'[q] = "exited" \/ (engine'[q].pc = "over" /\ engine'[q].status = "success")
  PROVE  Told(t)'
<1>1. Unsettled(rows[t].by)' <=> Unsettled(q)'
  BY DEF Unsettled
<1> QED BY <1>1 DEF Told

(* A row that another process wrote last tells what it told before.        *)
LEMMA RowsTold ==
  ASSUME IInv, NEW p \in Processes, NEW s \in Sessions, NEW r \in RowType, Moves(p, s, r),
         Entitled(p, s, r), r.by = p => Told(s)', NEW t \in Sessions
  PROVE  Told(t)'
<1>1. Told(t) /\ TypeOK /\ Writes(p)
  BY DEF IInv
<1>2. rows'[s] = r /\ \A u \in Sessions \ {s} : rows'[u] = rows[u]
  BY <1>1, RowOf
<1>3. CASE t = s /\ r.by = p
  BY <1>3
<1>4. CASE ~(t = s /\ r.by = p)
  <2>1. rows'[t].by = rows[t].by /\ rows'[t].status = rows[t].status
    BY <1>2, <1>4 DEF Entitled
  <2>2. rows'[t].by # p
    <3>1. CASE t = s
      BY <1>2, <1>4, <3>1
    <3>2. CASE t # s
      <4>1. Session(p) = s
        BY DEF Moves, Session
      <4>2. rows[t].by = p => Session(p) = t
        BY <1>1 DEF Writes
      <4> QED BY <1>2, <3>2, <4>1, <4>2
    <3> QED BY <3>1, <3>2
  <2>3. rows[t].status = "none" => rows'[t] = rows[t]
    BY <1>2, <1>4 DEF Entitled
  <2>4. CASE rows[t].status = "none"
    BY <1>1, <2>1, <2>3, <2>4 DEF Told
  <2>5. CASE rows[t].status # "none"
    <3>1. PICK q \in Processes : q = rows[t].by
      BY <1>1, <2>5 DEF Told
    <3>2. /\ pc'[q] = pc[q] /\ command'[q] = command[q] /\ cancelled'[q] = cancelled[q]
          /\ engine'[q] = engine[q] /\ faults'[q] = faults[q]
      BY <2>1, <2>2, <3>1 DEF Moves
    <3>3. Unsettled(q)' <=> Unsettled(q)
      BY <3>2 DEF Unsettled
    <3>4. /\ rows[t].status = "running" => faults[q] # {} \/ Unsettled(q)
          /\ rows[t].status = "success" =>
               pc[q] = "exited" \/ (engine[q].pc = "over" /\ engine[q].status = "success")
      BY <1>1, <3>1 DEF Told
    <3>5. rows'[t].by = q
      BY <2>1, <3>1
    <3> QED BY <2>1, <2>5, <3>2, <3>3, <3>4, <3>5, ToldOf
  <2> QED BY <2>4, <2>5
<1> QED BY <1>3, <1>4

(* Whose run the session is, and its plugin, no move makes different.      *)
LEMMA SessionsBound ==
  ASSUME IInv, NEW p \in Processes, NEW s \in Sessions, NEW r \in RowType, Moves(p, s, r),
         Entitled(p, s, r), NEW q \in Processes
  PROVE  Bound(q)'
<1>1. Bound(q) /\ Bound(p) /\ TypeOK /\ Placed(q) /\ Placed(p)
  BY DEF IInv
<1>2. rows'[s] = r /\ \A u \in Sessions \ {s} : rows'[u] = rows[u]
  BY <1>1, RowOf
<1>3. \A o \in Processes : /\ pc'[o] # "idle" <=> pc[o] # "idle"
                           /\ pc[o] # "idle" => /\ command'[o].name = command[o].name
                                                /\ command'[o].plugin = command[o].plugin
                                                /\ Session(o)' = Session(o)
  BY DEF Moves, Session
<1>4. \A o \in Processes \ {p} : Equipped(o)' = Equipped(o) /\ engine'[o] = engine[o]
  BY DEF Moves, Equipped
<1>5. SUFFICES ASSUME pc[q] # "idle", command[q].name = "run"
               PROVE  Bound(q)'
  BY <1>3 DEF Bound
<1>6. PICK t \in Sessions : t = Session(q)
  BY <1>1, <1>5 DEF Placed, CommandType, Session
<1>7. Session(p) = s /\ pc[p] # "idle"
  BY DEF Moves, Session
<1>8. Row(q) = rows[t] /\ Row(q)' = rows'[t] /\ Session(q)' = t
  BY <1>3, <1>5, <1>6 DEF Row
<1>9. /\ \A o \in Processes \ {q} : pc[o] # "idle" /\ Session(o) = t =>
           /\ command[o].name # "run"
           /\ command[q].plugin # Nobody /\ Equipped(o) =>
                command[o].plugin = command[q].plugin /\ rows[t].plan
      /\ command[q].plugin # Nobody =>
           /\ rows[t].plugin \in {Nobody, command[q].plugin}
           /\ rows[t].plan \/ engine[q].pc \in {"planning", "working"} =>
                rows[t].plugin = command[q].plugin
  BY <1>1, <1>5, <1>6, <1>8 DEF Bound
<1>10. rows[t].plan => rows'[t].plan
  BY <1>2 DEF Entitled
<1>11. q # p /\ t = s => command[p].name # "run" /\ (command[q].plugin # Nobody /\ Equipped(p) =>
         command[p].plugin = command[q].plugin /\ rows[s].plan)
  BY <1>7, <1>9
<1>12. q # p /\ t = s /\ command[q].plugin # Nobody /\ Equipped(p)' =>
         command[p].plugin = command[q].plugin /\ rows[s].plan
  BY <1>9, <1>11 DEF Entitled
<1>13. \A o \in Processes \ {q} : pc[o] # "idle" /\ Session(o) = t =>
          /\ command[o].name # "run"
          /\ command[q].plugin # Nobody /\ Equipped(o)' =>
               command[o].plugin = command[q].plugin /\ rows'[t].plan
  <2> SUFFICES ASSUME NEW o \in Processes \ {q}, pc[o] # "idle", Session(o) = t
               PROVE  /\ command[o].name # "run"
                      /\ command[q].plugin # Nobody /\ Equipped(o)' =>
                           command[o].plugin = command[q].plugin /\ rows'[t].plan
    OBVIOUS
  <2>1. CASE o = p
    BY <1>7, <1>9, <1>10, <1>12, <2>1
  <2>2. CASE o # p
    BY <1>4, <1>9, <1>10, <2>2
  <2> QED BY <2>1, <2>2
<1>14. command[q].plugin # Nobody => rows'[t].plugin \in {Nobody, command[q].plugin}
  <2>1. CASE t # s
    BY <1>2, <1>9, <2>1
  <2>2. CASE t = s /\ q = p
    BY <1>2, <1>9, <2>2 DEF Entitled
  <2>3. CASE t = s /\ q # p
    BY <1>2, <1>9, <1>11, <2>3 DEF Entitled
  <2> QED BY <2>1, <2>2, <2>3
<1>15. command[q].plugin # Nobody /\ (rows'[t].plan \/ engine'[q].pc \in {"planning", "working"}) =>
         rows'[t].plugin = command[q].plugin
  <2>1. CASE t # s
    <3>1. q # p
      BY <1>6, <1>7, <2>1
    <3> QED BY <1>2, <1>4, <1>9, <2>1, <3>1
  <2>2. CASE t = s /\ q = p
    BY <1>2, <1>9, <1>14, <2>2 DEF Entitled
  <2>3. CASE t = s /\ q # p
    <3>1. r = rows[s] \/ Equipped(p)
      BY <1>11, <2>3 DEF Entitled
    <3>2. CASE r = rows[s]
      BY <1>2, <1>4, <1>9, <2>3, <3>2
    <3>3. CASE Equipped(p)
      BY <1>2, <1>9, <1>11, <2>3, <3>3 DEF Entitled
    <3> QED BY <3>1, <3>2, <3>3
  <2> QED BY <2>1, <2>2, <2>3
<1>16. /\ \A o \in Processes \ {q} : pc'[o] # "idle" /\ Session(o)' = Session(q)' =>
            /\ command'[o].name # "run"
            /\ command'[q].plugin # Nobody /\ Equipped(o)' =>
                 command'[o].plugin = command'[q].plugin /\ Row(q)'.plan
       /\ command'[q].plugin # Nobody =>
            /\ Row(q)'.plugin \in {Nobody, command'[q].plugin}
            /\ Row(q)'.plan \/ engine'[q].pc \in {"planning", "working"} =>
                 Row(q)'.plugin = command'[q].plugin
  BY <1>3, <1>5, <1>8, <1>13, <1>14, <1>15
<1> QED BY <1>16 DEF Bound

(* So it is enough to look at the process that moves, and at its row.      *)
LEMMA MovesKeep ==
  ASSUME IInv, NEW p \in Processes, NEW s \in Sessions, NEW r \in RowType, Moves(p, s, r),
         Entitled(p, s, r), TypeOK', Placed(p)', Writes(p)', r.by = p => Told(s)'
  PROVE  IInv'
<1>1. \A q \in Processes : Placed(q)' /\ Writes(q)' /\ Bound(q)'
  BY OthersPlaced, OthersWrite, SessionsBound
<1>2. \A t \in Sessions : Told(t)'
  BY RowsTold
<1> QED BY <1>1, <1>2 DEF IInv

Early == {"idle", "opening", "saving", "loading"}

(* A move that does not touch the row.                                     *)
LEMMA QuietKeeps ==
  ASSUME IInv, NEW p \in Processes, NEW s \in Sessions, Moves(p, s, rows[s]), TypeOK', Placed(p)',
         Equipped(p)' => Equipped(p) \/ /\ rows[s].plan /\ rows[s].status # "none"
                                        /\ rows[s].plugin \in {Nobody, command[p].plugin},
         engine'[p].pc \in {"planning", "working"} => engine[p].pc \in {"planning", "working"},
         pc'[p] \in Early => pc[p] \in Early,
         rows[s].by = p =>
           /\ pc'[p] = "running" /\ engine'[p].pc = "over" /\ engine'[p].status # ""
                => rows[s].status = engine'[p].status
           /\ pc'[p] \in {"leaving", "exited"} /\ faults'[p] \cap {"killed", "lost"} = {}
                /\ shown'[p] # "" => rows[s].status = shown'[p]
           /\ rows[s].status = "running" => faults'[p] # {} \/ Unsettled(p)'
           /\ rows[s].status = "success" =>
                pc'[p] = "exited" \/ (engine'[p].pc = "over" /\ engine'[p].status = "success")
  PROVE  IInv'
<1>1. TypeOK /\ Writes(p) /\ Told(s) /\ rows[s] \in RowType
  BY DEF IInv, TypeOK
<1>2. rows'[s] = rows[s] /\ \A t \in Sessions \ {s} : rows'[t] = rows[t]
  BY <1>1, RowOf
<1>3. \A t \in Sessions : rows'[t] = rows[t]
  BY <1>2
<1>4. Session(p) = s /\ Session(p)' = s /\ Row(p)' = rows[s] /\ Row(p) = rows[s]
  BY <1>2 DEF Moves, Session, Row
<1>5. Writes(p)'
  <2>1. \A t \in Sessions : rows'[t].by = p => pc'[p] \notin Early /\ Session(p)' = t
    BY <1>1, <1>3, <1>4 DEF Writes, Early
  <2>2. Equipped(p)' => Row(p)'.status # "none"
    BY <1>1, <1>4 DEF Writes
  <2> QED BY <1>4, <2>1, <2>2 DEF Writes, Early
<1>6. Entitled(p, s, rows[s])
  BY DEF Entitled
<1>7. rows[s].by = p => Told(s)'
  <2>1. rows[s].by = p /\ rows[s].status = "none" => Told(s)'
    BY <1>1, <1>2 DEF Told
  <2>2. rows[s].by = p /\ rows[s].status # "none" => Told(s)'
    BY <1>2, ToldOf
  <2> QED BY <2>1, <2>2
<1> QED BY <1>1, <1>5, <1>6, <1>7, MovesKeep

(* A move that stores the session.                                         *)
LEMMA SavesKeep ==
  ASSUME IInv, NEW p \in Processes, NEW s \in Sessions, NEW status \in RowStatuses \ {"none"},
         NEW plugin \in {Nobody, command[p].plugin},
         Moves(p, s, Saved(rows[s], status, plugin, p)), TypeOK', Placed(p)',
         Equipped(p) \/ command[p].name = "run", pc'[p] \notin Early,
         engine'[p].pc \in {"planning", "working"} => plugin = command[p].plugin,
         pc'[p] = "running" /\ engine'[p].pc = "over" /\ engine'[p].status # ""
           => status = engine'[p].status,
         pc'[p] \in {"leaving", "exited"} /\ shown'[p] # "" => status = shown'[p],
         status = "running" => faults'[p] # {} \/ Unsettled(p)',
         status = "success" => engine'[p].pc = "over" /\ engine'[p].status = "success"
  PROVE  IInv'
<1>1. TypeOK /\ Writes(p) /\ rows[s] \in RowType /\ Placed(p)
  BY DEF IInv, TypeOK
<1>2. PICK r \in RowType : /\ r = Saved(rows[s], status, plugin, p) /\ r.status = status /\ r.by = p
                           /\ r.plan = rows[s].plan /\ r.plugin = Merged(rows[s].plugin, plugin)
  <2>1. command[p].plugin \in Providers \cup {Nobody}
    BY <1>1 DEF Placed, Moves, CommandType
  <2>2. Merged(rows[s].plugin, plugin) \in Providers \cup {Nobody}
    BY <1>1, <2>1 DEF Merged, RowType
  <2> DEFINE r == Saved(rows[s], status, plugin, p)
  <2>3. /\ r \in RowType /\ r.status = status /\ r.by = p /\ r.plan = rows[s].plan
        /\ r.plugin = Merged(rows[s].plugin, plugin)
    BY <1>1, <2>2 DEF Saved, RowType
  <2> QED BY <2>3
<1>3. Moves(p, s, r)
  BY <1>2
<1>4. rows'[s] = r /\ \A t \in Sessions \ {s} : rows'[t] = rows[t]
  BY <1>1, <1>3, RowOf
<1>5. Session(p) = s /\ Session(p)' = s /\ Row(p)' = r /\ Row(p) = rows[s]
  BY <1>3, <1>4 DEF Moves, Session, Row
<1>6. Writes(p)'
  <2>1. \A t \in Sessions : rows'[t].by = p => pc'[p] \notin Early /\ Session(p)' = t
    BY <1>1, <1>4, <1>5 DEF Writes
  <2> QED BY <1>2, <1>5, <2>1 DEF Writes, Early
<1>7. Entitled(p, s, r)
  <2>1. r.plugin = rows[s].plugin \/ (rows[s].plugin = Nobody /\ r.plugin = command[p].plugin)
    BY <1>2 DEF Merged
  <2>2. engine'[p].pc \in {"planning", "working"} => r.plugin = command[p].plugin \/ r.plugin # Nobody
    BY <1>2 DEF Merged
  <2> QED BY <1>2, <2>1, <2>2 DEF Entitled
<1>8. Told(s)'
  BY <1>2, <1>4, ToldOf
<1> QED BY <1>3, <1>6, <1>7, <1>8, MovesKeep

-----------------------------------------------------------------------------
(* The invariant holds at first.                                           *)
LEMMA InitInv == Init => IInv
<1> SUFFICES ASSUME Init PROVE IInv
  OBVIOUS
<1>1. /\ \A s \in Sessions : rows[s] = [status |-> "none", plan |-> FALSE, plugin |-> Nobody, by |-> Nobody]
      /\ \A p \in Processes : /\ pc[p] = "idle" /\ command[p] = [name |-> ""] /\ engine[p] = Idle
                              /\ seen[p] = "" /\ shown[p] = "" /\ faults[p] = {}
  BY DEF Init
<1>0. \A s \in Sessions : /\ rows[s].status = "none" /\ ~rows[s].plan
                          /\ rows[s].plugin = Nobody /\ rows[s].by = Nobody
  <2> TAKE s \in Sessions
  <2>0. rows[s] = [status |-> "none", plan |-> FALSE, plugin |-> Nobody, by |-> Nobody]
    BY <1>1
  <2>1. rows[s].status = "none" /\ rows[s].plugin = Nobody /\ rows[s].by = Nobody
    BY <2>0
  <2>2. rows[s].plan = FALSE
    BY <2>0
  <2> QED BY <2>1, <2>2
<1>2. TypeOK
  <2>1. [status |-> "none", plan |-> FALSE, plugin |-> Nobody, by |-> Nobody] \in RowType
    BY DEF RowType, RowStatuses
  <2>2. Idle \in EngineType
    BY DEF Idle, EngineType
  <2>3. "idle" \in Labels /\ "" \in RowStatuses \cup {""}
    BY DEF Labels
  <2> QED BY <2>1, <2>2, <2>3 DEF Init, TypeOK
<1>3. ASSUME NEW p \in Processes PROVE Placed(p) /\ Writes(p) /\ Bound(p)
  <2>0. pc[p] = "idle" /\ engine[p].pc = "idle" /\ p # Nobody
    <3>1. engine[p] = Idle /\ pc[p] = "idle"
      BY <1>1
    <3>2. Idle.pc = "idle"
      BY DEF Idle
    <3>3. p # Nobody
      BY NobodyAssumption
    <3> QED BY <3>1, <3>2, <3>3
  <2>1. ~Equipped(p)
    BY <2>0 DEF Equipped
  <2>2. Placed(p)
    BY <1>1, <2>0, <2>1 DEF Placed
  <2>3. Writes(p)
    BY <1>0, <2>0, <2>1 DEF Writes
  <2> QED BY <2>0, <2>2, <2>3 DEF Bound
<1>4. \A s \in Sessions : Told(s)
  BY <1>0 DEF Told
<1> QED BY <1>2, <1>3, <1>4 DEF IInv

(* A command is given: a run takes a session that nobody has.              *)
LEMMA StartKeeps ==
  ASSUME IInv, NEW p \in Processes, Start(p)
  PROVE  IInv'
<1>1. /\ TypeOK /\ Placed(p) /\ Writes(p) /\ pc[p] = "idle" /\ pc' = [pc EXCEPT ![p] = "opening"]
      /\ rows' = rows /\ open' = open /\ cancelled' = cancelled /\ engine' = engine /\ seen' = seen
      /\ shown' = shown /\ faults' = faults /\ failures' = failures /\ kills' = kills
  BY DEF IInv, Start, Goto
<1>2. PICK c \in CommandType :
        /\ command' = [command EXCEPT ![p] = c]
        /\ c.name = "run" => /\ rows[c.session].status = "none"
                             /\ \A q \in Processes : pc[q] # "idle" => Session(q) # c.session
  <2>1. PICK s \in Sessions, plugin \in Providers \cup {Nobody} :
          \/ /\ rows[s].status = "none"
             /\ \A q \in Processes : pc[q] # "idle" => Session(q) # s
             /\ \E mode \in {"single", "all", "best", "stream"} :
                  command' = [command EXCEPT ![p] =
                    [name |-> "run", session |-> s, mode |-> mode, plugin |-> plugin]]
          \/ \E mode \in {"single", "stream"} :
               command' = [command EXCEPT ![p] =
                 [name |-> "resume", session |-> s, mode |-> mode, plugin |-> plugin]]
          \/ command' = [command EXCEPT ![p] =
               [name |-> "inspect", session |-> s, mode |-> "single", plugin |-> Nobody]]
    BY DEF Start
  <2>2. \A name \in {"run", "resume", "inspect"}, mode \in {"single", "all", "best", "stream"},
           g \in Providers \cup {Nobody} :
          [name |-> name, session |-> s, mode |-> mode, plugin |-> g] \in CommandType
    BY DEF CommandType
  <2>3. CASE /\ rows[s].status = "none"
             /\ \A q \in Processes : pc[q] # "idle" => Session(q) # s
             /\ \E mode \in {"single", "all", "best", "stream"} :
                  command' = [command EXCEPT ![p] =
                    [name |-> "run", session |-> s, mode |-> mode, plugin |-> plugin]]
    <3>1. PICK mode \in {"single", "all", "best", "stream"} :
            command' = [command EXCEPT ![p] =
              [name |-> "run", session |-> s, mode |-> mode, plugin |-> plugin]]
      BY <2>3
    <3> DEFINE c == [name |-> "run", session |-> s, mode |-> mode, plugin |-> plugin]
    <3>2. c \in CommandType /\ c.session = s /\ command' = [command EXCEPT ![p] = c]
      BY <2>2, <3>1
    <3> QED BY <2>3, <3>2
  <2>4. CASE \E mode \in {"single", "stream"} :
               command' = [command EXCEPT ![p] =
                 [name |-> "resume", session |-> s, mode |-> mode, plugin |-> plugin]]
    <3>1. PICK mode \in {"single", "stream"} :
            command' = [command EXCEPT ![p] =
              [name |-> "resume", session |-> s, mode |-> mode, plugin |-> plugin]]
      BY <2>4
    <3> DEFINE c == [name |-> "resume", session |-> s, mode |-> mode, plugin |-> plugin]
    <3>2. c \in CommandType /\ c.name # "run" /\ command' = [command EXCEPT ![p] = c]
      BY <2>2, <3>1
    <3> QED BY <3>2
  <2>5. CASE command' = [command EXCEPT ![p] =
               [name |-> "inspect", session |-> s, mode |-> "single", plugin |-> Nobody]]
    <3> DEFINE c == [name |-> "inspect", session |-> s, mode |-> "single", plugin |-> Nobody]
    <3>1. c \in CommandType /\ c.name # "run" /\ command' = [command EXCEPT ![p] = c]
      BY <2>2, <2>5
    <3> QED BY <3>1
  <2> QED BY <2>1, <2>3, <2>4, <2>5
<1>3. PICK s \in Sessions : s = c.session
  BY DEF CommandType
<1>4. /\ pc'[p] = "opening" /\ command'[p] = c
      /\ \A q \in Processes \ {p} : pc'[q] = pc[q] /\ command'[q] = command[q]
  BY <1>1, <1>2 DEF TypeOK
<1>5. TypeOK'
  BY <1>1, <1>2 DEF TypeOK, Labels
<1>6. \A q \in Processes : ~Equipped(p) /\ ~Equipped(p)' /\ engine[p].pc = "idle"
  BY <1>1, <1>4 DEF Equipped, Placed
<1>7. ASSUME NEW q \in Processes PROVE Placed(q)' /\ Writes(q)'
  <2>1. CASE q = p
    <3>1. Placed(p)'
      BY <1>1, <1>4, <1>6 DEF Placed, Equipped
    <3>2. Writes(p)'
      BY <1>1, <1>4, <1>6 DEF Writes
    <3> QED BY <2>1, <3>1, <3>2
  <2>2. CASE q # p
    <3>1. Placed(q) /\ Writes(q)
      BY DEF IInv
    <3>2. pc'[q] = pc[q] /\ command'[q] = command[q] /\ Equipped(q)' = Equipped(q)
      BY <1>1, <1>4, <2>2 DEF Equipped
    <3>3. Placed(q)'
      BY <1>1, <3>1, <3>2 DEF Placed
    <3>4. Writes(q)'
      BY <1>1, <3>1, <3>2 DEF Writes, Session, Row
    <3> QED BY <3>3, <3>4
  <2> QED BY <2>1, <2>2
<1>8. ASSUME NEW t \in Sessions PROVE Told(t)'
  <2>1. Told(t) /\ rows[t].by # p
    BY <1>1 DEF IInv, Writes
  <2>2. CASE rows[t].status = "none"
    BY <1>1, <2>1, <2>2 DEF Told
  <2>3. CASE rows[t].status # "none"
    <3>1. PICK q \in Processes : q = rows[t].by
      BY <2>1, <2>3 DEF Told
    <3>2. pc'[q] = pc[q] /\ command'[q] = command[q]
      BY <1>4, <2>1, <3>1
    <3>3. Unsettled(q)' <=> Unsettled(q)
      BY <1>1, <3>2 DEF Unsettled
    <3>4. /\ rows[t].status = "running" => faults[q] # {} \/ Unsettled(q)
          /\ rows[t].status = "success" =>
               pc[q] = "exited" \/ (engine[q].pc = "over" /\ engine[q].status = "success")
      BY <2>1, <3>1 DEF Told
    <3> QED BY <1>1, <2>3, <3>1, <3>2, <3>3, <3>4, ToldOf
  <2> QED BY <2>2, <2>3
<1>9. ASSUME NEW q \in Processes PROVE Bound(q)'
  <2>0. \A o \in Processes \ {p} : pc'[o] = pc[o] /\ command'[o] = command[o]
                                   /\ Session(o)' = Session(o) /\ Equipped(o)' = Equipped(o)
    BY <1>1, <1>4 DEF Session, Equipped
  <2>1. Session(p)' = s /\ ~Equipped(p)'
    BY <1>3, <1>4, <1>6 DEF Session
  <2>2. CASE q = p
    <3> SUFFICES ASSUME c.name = "run" PROVE Bound(p)'
      BY <1>4, <2>2 DEF Bound
    <3>1. rows[s].status = "none" /\ \A o \in Processes : pc[o] # "idle" => Session(o) # s
      BY <1>2, <1>3
    <3>2. ~rows[s].plan /\ rows[s].plugin = Nobody
      BY <3>1 DEF IInv, Told
    <3>3. Row(p)' = rows[s]
      BY <1>1, <2>1 DEF Row
    <3> QED BY <1>1, <1>4, <1>6, <2>0, <2>1, <3>1, <3>2, <3>3 DEF Bound
  <2>3. CASE q # p
    <3> SUFFICES ASSUME pc[q] # "idle", command[q].name = "run" PROVE Bound(q)'
      BY <2>0, <2>3 DEF Bound
    <3>1. Bound(q)
      BY DEF IInv
    <3>2. Row(q)' = Row(q) /\ Session(q)' = Session(q)
      BY <1>1, <2>0, <2>3 DEF Row
    <3>3. Session(p)' = Session(q)' => command'[p].name # "run"
      BY <1>2, <1>3, <1>4, <2>1, <3>2
    <3> QED BY <1>1, <2>0, <2>1, <2>3, <3>1, <3>2, <3>3 DEF Bound
  <2> QED BY <2>2, <2>3
<1> QED BY <1>5, <1>7, <1>8, <1>9 DEF IInv

-----------------------------------------------------------------------------
(* One lemma per action.                                                   *)

(* The session of a command that is given.                                 *)
LEMMA SessionOf ==
  ASSUME IInv, NEW p \in Processes, pc[p] # "idle"
  PROVE  /\ command[p] \in CommandType /\ rows[command[p].session] \in RowType
         /\ \E s \in Sessions : s = command[p].session
<1>1. command[p] \in CommandType
  BY DEF IInv, Placed
<1>2. command[p].session \in Sessions
  BY <1>1 DEF CommandType
<1> QED BY <1>1, <1>2 DEF IInv, TypeOK

(* SaveSession keeps the type of a row.                                    *)
LEMMA SavedType ==
  ASSUME NEW row \in RowType, NEW status \in RowStatuses, NEW plugin \in Providers \cup {Nobody},
         NEW p \in Processes
  PROVE  Saved(row, status, plugin, p) \in RowType
<1>1. Merged(row.plugin, plugin) \in Providers \cup {Nobody}
  BY DEF Merged, RowType
<1> QED BY <1>1 DEF Saved, RowType

(* A write that fails leaves the rows, and only its process knows of it.   *)
LEMMA FailedWrite ==
  ASSUME TypeOK, NEW p \in Processes, NEW how \in SUBSET Faults, WriteFails(p, how)
  PROVE  /\ rows' = rows /\ failures' \in Nat /\ faults' \in [Processes -> SUBSET Faults]
         /\ faults'[p] = faults[p] \cup how
         /\ \A q \in Processes \ {p} : faults'[q] = faults[q]
<1>1. faults' = [faults EXCEPT ![p] = @ \cup how] /\ rows' = rows
  BY DEF WriteFails
<1>2. failures' \in Nat
  <2>1. failures \in Nat /\ (failures' = failures + 1 \/ failures' = failures)
    BY DEF WriteFails, TypeOK
  <2> QED BY <2>1
<1>3. faults \in [Processes -> SUBSET Faults]
  BY DEF TypeOK
<1> QED BY <1>1, <1>2, <1>3

(* openRuntimeDeps opens the stores or the command ends.                   *)
LEMMA OpenStoresKeeps ==
  ASSUME IInv, NEW p \in Processes, OpenStores(p)
  PROVE  IInv'
<1>1. /\ TypeOK /\ Placed(p) /\ pc[p] = "opening"
      /\ rows' = rows /\ command' = command /\ cancelled' = cancelled /\ engine' = engine
      /\ seen' = seen /\ shown' = shown /\ faults' = faults /\ failures' = failures /\ kills' = kills
  BY DEF IInv, OpenStores
<1>2. PICK label \in Labels :
        /\ pc' = [pc EXCEPT ![p] = label] /\ label \in {"saving", "loading", "leaving"}
        /\ label = "saving" => command[p].name = "run"
        /\ label = "loading" => command[p].name # "run"
  BY DEF OpenStores, Goto, Leave, Labels
<1>3. PICK s \in Sessions : s = command[p].session
  BY <1>1, SessionOf
<1>4. pc'[p] = label /\ \A q \in Processes \ {p} : pc'[q] = pc[q]
  BY <1>1, <1>2 DEF TypeOK
<1>5. Moves(p, s, rows[s])
  BY <1>1, <1>2, <1>3, <1>4 DEF Moves, TypeOK
<1>6. TypeOK'
  <2>1. open' \in [Processes -> SUBSET {"signals", "stores"}]
    <3>1. open' = open \/ open' = [open EXCEPT ![p] = {"stores"}]
      BY DEF OpenStores
    <3>2. open \in [Processes -> SUBSET {"signals", "stores"}]
      BY <1>1 DEF TypeOK
    <3> QED BY <3>1, <3>2
  <2> QED BY <1>1, <1>2, <2>1 DEF TypeOK
<1>7. ~Equipped(p) /\ ~Equipped(p)' /\ engine[p].pc = "idle"
  BY <1>1, <1>2, <1>4 DEF Placed, Equipped
<1>8. Placed(p)'
  BY <1>1, <1>2, <1>4, <1>7 DEF Placed, Active
<1>9. rows[s].by # p
  BY <1>1 DEF IInv, Writes
<1> QED BY <1>1, <1>2, <1>4, <1>5, <1>6, <1>7, <1>8, <1>9, QuietKeeps DEF Early

(* The run stores its session, or the write fails and it ends.             *)
LEMMA SaveInitialSessionKeeps ==
  ASSUME IInv, NEW p \in Processes, SaveInitialSession(p)
  PROVE  IInv'
<1>1. /\ TypeOK /\ Placed(p) /\ pc[p] = "saving" /\ command[p].name = "run"
      /\ command' = command /\ cancelled' = cancelled /\ engine' = engine /\ open' = open
      /\ seen' = seen /\ shown' = shown /\ kills' = kills
  BY DEF IInv, SaveInitialSession, Placed
<1>2. PICK s \in Sessions : s = command[p].session
  BY <1>1, SessionOf
<1>3. ~Equipped(p) /\ engine[p].pc = "idle" /\ shown[p] = "" /\ seen[p] = "" /\ rows[s].by # p
  BY <1>1 DEF Placed, Equipped, IInv, Writes
<1>4. CASE SaveSession(p, "running", Nobody) /\ Goto(p, "equipping")
  <2>1. /\ faults' = faults /\ failures' = failures /\ pc' = [pc EXCEPT ![p] = "equipping"]
        /\ rows' = [rows EXCEPT ![s] = Saved(rows[s], "running", Nobody, p)]
    BY <1>2, <1>4 DEF SaveSession, Goto, Session
  <2>2. pc'[p] = "equipping" /\ \A q \in Processes \ {p} : pc'[q] = pc[q]
    BY <1>1, <2>1 DEF TypeOK
  <2>3. Moves(p, s, Saved(rows[s], "running", Nobody, p))
    BY <1>1, <1>2, <2>1, <2>2 DEF Moves
  <2>4. Saved(rows[s], "running", Nobody, p) \in RowType
    BY <1>1, SavedType DEF TypeOK, RowStatuses
  <2>5. TypeOK'
    BY <1>1, <2>1, <2>4 DEF TypeOK, Labels
  <2>6. Placed(p)'
    BY <1>1, <1>3, <2>2 DEF Placed, Equipped, Terminal
  <2>7. Unsettled(p)'
    BY <2>2 DEF Unsettled
  <2> QED BY <1>1, <1>3, <2>2, <2>3, <2>5, <2>6, <2>7, SavesKeep DEF Early, RowStatuses
<1>5. CASE WriteFails(p, {"write"}) /\ Leave(p)
  <2>0. {"write"} \in SUBSET Faults
    BY DEF Faults
  <2>1. /\ rows' = rows /\ failures' \in Nat /\ faults' \in [Processes -> SUBSET Faults]
        /\ faults'[p] = faults[p] \cup {"write"}
        /\ \A q \in Processes \ {p} : faults'[q] = faults[q]
    BY <1>1, <1>5, <2>0, FailedWrite
  <2>2. /\ pc' = [pc EXCEPT ![p] = "leaving"]
        /\ pc'[p] = "leaving" /\ \A q \in Processes \ {p} : pc'[q] = pc[q]
    BY <1>1, <1>5 DEF TypeOK, Leave, Goto
  <2>3. Moves(p, s, rows[s])
    BY <1>1, <1>2, <2>1, <2>2 DEF Moves, TypeOK
  <2>4. TypeOK'
    BY <1>1, <2>1, <2>2 DEF TypeOK, Labels
  <2>5. Placed(p)' /\ ~Equipped(p)'
    BY <1>1, <1>3, <2>2 DEF Placed, Equipped, Active
  <2> QED BY <1>1, <1>3, <2>2, <2>3, <2>4, <2>5, QuietKeeps DEF Early
<1> QED BY <1>4, <1>5 DEF SaveInitialSession

(* A session that is loaded goes on only when it is not over and has the   *)
(* plan and the provider that ResumeSession and the command ask for.       *)
LEMMA LoadSessionKeeps ==
  ASSUME IInv, NEW p \in Processes, LoadSession(p)
  PROVE  IInv'
<1>1. /\ TypeOK /\ Placed(p) /\ pc[p] = "loading" /\ command[p].name # "run"
      /\ rows' = rows /\ command' = command /\ cancelled' = cancelled /\ engine' = engine
      /\ open' = open /\ faults' = faults /\ failures' = failures /\ kills' = kills
  BY DEF IInv, LoadSession, Placed
<1>2. PICK s \in Sessions : s = command[p].session
  BY <1>1, SessionOf
<1>3. /\ ~Equipped(p) /\ engine[p].pc = "idle" /\ shown[p] = "" /\ seen[p] = "" /\ rows[s].by # p
      /\ command[p] \in CommandType /\ rows[s] \in RowType /\ Row(p) = rows[s]
  BY <1>1, <1>2 DEF Placed, Equipped, IInv, Writes, TypeOK, Row, Session
<1>4. PICK label \in Labels, c \in RowStatuses \cup {""}, d \in RowStatuses \cup {""} :
        /\ pc' = [pc EXCEPT ![p] = label] /\ label \in {"equipping", "leaving"}
        /\ seen' = [seen EXCEPT ![p] = c] /\ shown' = [shown EXCEPT ![p] = d]
        /\ label = "equipping" =>
             /\ c \notin Terminal /\ command[p].name = "resume"
             /\ command[p].mode = "stream" => d = ""
             /\ rows[s].plan /\ rows[s].status # "none"
             /\ rows[s].plugin \in {Nobody, command[p].plugin}
  <2>1. "leaving" \in Labels /\ "equipping" \in Labels /\ "" \in RowStatuses \cup {""}
        /\ rows[s].status \in RowStatuses \cup {""}
    BY <1>3 DEF Labels, RowType
  <2>2. CASE ~Resumable(rows[s])
    <3>1. pc' = [pc EXCEPT ![p] = "leaving"] /\ seen' = seen /\ shown' = shown
      BY <1>3, <2>2 DEF LoadSession, Leave, Goto
    <3>2. PICK blank \in RowStatuses \cup {""} : blank = ""
      OBVIOUS
    <3>3. seen' = [seen EXCEPT ![p] = blank] /\ shown' = [shown EXCEPT ![p] = blank]
      BY <1>1, <1>3, <3>1, <3>2 DEF TypeOK
    <3>4. PICK label \in Labels : label = "leaving"
      BY <2>1
    <3>5. pc' = [pc EXCEPT ![p] = label] /\ label \in {"equipping", "leaving"} /\ label # "equipping"
      BY <3>1, <3>4
    <3> QED BY <3>3, <3>5
  <2>3. CASE Resumable(rows[s])
    <3> DEFINE over == command[p].name = "inspect" \/ rows[s].status \in Terminal
    <3>1. /\ seen' = [seen EXCEPT ![p] = rows[s].status]
          /\ shown' = IF over \/ command[p].mode # "stream"
                      THEN [shown EXCEPT ![p] = rows[s].status] ELSE shown
          /\ IF ~over /\ ProviderKept(rows[s], command[p].plugin)
             THEN Goto(p, "equipping") ELSE Leave(p)
      BY <1>3, <2>3 DEF LoadSession
    <3>2. shown = [shown EXCEPT ![p] = ""]
      BY <1>1, <1>3 DEF TypeOK
    <3>3. CASE ~over /\ ProviderKept(rows[s], command[p].plugin)
      <4>1. command[p].name = "resume" /\ rows[s].status \notin Terminal
        BY <1>1, <1>3, <3>3 DEF CommandType
      <4>2. pc' = [pc EXCEPT ![p] = "equipping"]
        BY <3>1, <3>3 DEF Goto
      <4>3. rows[s].plan /\ rows[s].status # "none" /\ rows[s].plugin \in {Nobody, command[p].plugin}
        BY <2>3, <3>3 DEF Resumable, ProviderKept
      <4>4. CASE command[p].mode = "stream"
        <5>1. shown' = [shown EXCEPT ![p] = ""]
          BY <3>1, <3>2, <3>3, <4>4
        <5> QED BY <2>1, <3>1, <4>1, <4>2, <4>3, <5>1
      <4>5. CASE command[p].mode # "stream"
        <5>1. shown' = [shown EXCEPT ![p] = rows[s].status]
          BY <3>1, <4>5
        <5> QED BY <2>1, <3>1, <4>1, <4>2, <4>3, <4>5, <5>1
      <4> QED BY <4>4, <4>5
    <3>4. CASE ~(~over /\ ProviderKept(rows[s], command[p].plugin))
      <4>1. pc' = [pc EXCEPT ![p] = "leaving"]
        BY <3>1, <3>4 DEF Leave, Goto
      <4>2. shown' = [shown EXCEPT ![p] = rows[s].status] \/ shown' = [shown EXCEPT ![p] = ""]
        BY <3>1, <3>2
      <4>3. seen' = [seen EXCEPT ![p] = rows[s].status]
        BY <3>1
      <4> HIDE DEF over
      <4> QED BY <2>1, <4>1, <4>2, <4>3
    <3> QED BY <3>3, <3>4
  <2> QED BY <2>2, <2>3
<1>5. pc'[p] = label /\ seen'[p] = c /\ shown'[p] = d
  BY <1>1, <1>4 DEF TypeOK
<1>6. \A q \in Processes \ {p} : pc'[q] = pc[q] /\ seen'[q] = seen[q] /\ shown'[q] = shown[q]
  BY <1>1, <1>4 DEF TypeOK
<1>7. Moves(p, s, rows[s])
  BY <1>1, <1>2, <1>4, <1>5, <1>6 DEF Moves, TypeOK
<1>8. TypeOK'
  BY <1>1, <1>4 DEF TypeOK
<1>9. engine'[p].pc = "idle" /\ (Equipped(p)' => label = "equipping")
  BY <1>1, <1>3, <1>4, <1>5 DEF Equipped
<1>10. Placed(p)'
  BY <1>1, <1>3, <1>4, <1>5, <1>9 DEF Placed, Active
<1> QED BY <1>3, <1>4, <1>5, <1>7, <1>8, <1>9, <1>10, QuietKeeps DEF Early

(* The engine is started, or the task of a run is not stored and it ends.  *)
LEMMA StartEngineKeeps ==
  ASSUME IInv, NEW p \in Processes, StartEngine(p)
  PROVE  IInv'
<1>1. /\ TypeOK /\ Placed(p) /\ Writes(p) /\ pc[p] = "equipping"
      /\ command' = command /\ cancelled' = cancelled /\ seen' = seen /\ shown' = shown /\ kills' = kills
  BY DEF IInv, StartEngine
<1>2. PICK s \in Sessions : s = command[p].session
  BY <1>1, SessionOf
<1>3. open' \in [Processes -> SUBSET {"signals", "stores"}]
  BY <1>1 DEF StartEngine, TypeOK
<1>4. Equipped(p) /\ engine[p].pc = "idle"
  BY <1>1 DEF Placed, Equipped
<1>5. CASE /\ engine' = [engine EXCEPT ![p].pc = "starting"]
           /\ Goto(p, "running")
           /\ UNCHANGED <<rows, faults, failures>>
  <2>1. pc' = [pc EXCEPT ![p] = "running"] /\ rows' = rows /\ faults' = faults /\ failures' = failures
    BY <1>5 DEF Goto
  <2>2. pc'[p] = "running" /\ \A q \in Processes \ {p} : pc'[q] = pc[q]
    BY <1>1, <2>1 DEF TypeOK
  <2>3. engine \in [Processes -> EngineType] /\ "starting" \in {"idle", "over"} \cup Active
    BY <1>1 DEF TypeOK, Active
  <2>4. /\ engine'[p].pc = "starting" /\ engine' \in [Processes -> EngineType]
        /\ \A q \in Processes \ {p} : engine'[q] = engine[q]
    BY <1>5, <2>3 DEF EngineType
  <2>5. Moves(p, s, rows[s])
    BY <1>1, <1>2, <2>1, <2>2, <2>4 DEF Moves, TypeOK
  <2>6. TypeOK'
    BY <1>1, <1>3, <2>1, <2>4 DEF TypeOK, Labels
  <2>7. Placed(p)'
    BY <1>1, <1>4, <2>2, <2>4 DEF Placed, Equipped
  <2>8. Unsettled(p)'
    BY <2>2, <2>4 DEF Unsettled, Active
  <2>9. rows[s].by = p => rows[s].status # "success"
    BY <1>1, <1>4 DEF IInv, Told
  <2> QED BY <1>4, <2>2, <2>4, <2>5, <2>6, <2>7, <2>8, <2>9, QuietKeeps DEF Early
<1>6. CASE /\ command[p].name = "run"
           /\ WriteFails(p, {"write"}) /\ Leave(p)
           /\ engine' = engine
  <2>0. {"write"} \in SUBSET Faults
    BY DEF Faults
  <2>1. /\ rows' = rows /\ failures' \in Nat /\ faults' \in [Processes -> SUBSET Faults]
        /\ faults'[p] = faults[p] \cup {"write"}
        /\ \A q \in Processes \ {p} : faults'[q] = faults[q]
    BY <1>1, <1>6, <2>0, FailedWrite
  <2>2. /\ pc' = [pc EXCEPT ![p] = "leaving"]
        /\ pc'[p] = "leaving" /\ \A q \in Processes \ {p} : pc'[q] = pc[q]
    BY <1>1, <1>6 DEF TypeOK, Leave, Goto
  <2>3. Moves(p, s, rows[s])
    BY <1>1, <1>2, <1>6, <2>1, <2>2 DEF Moves, TypeOK
  <2>4. TypeOK'
    BY <1>1, <1>3, <1>6, <2>1, <2>2 DEF TypeOK, Labels
  <2>5. Placed(p)' /\ shown'[p] = ""
    BY <1>1, <1>4, <1>6, <2>2 DEF Placed, Equipped, Active
  <2>6. rows[s].by = p => rows[s].status # "success"
    BY <1>1, <1>4 DEF IInv, Told
  <2> QED BY <1>4, <1>6, <2>1, <2>2, <2>3, <2>4, <2>5, <2>6, QuietKeeps DEF Early
<1> QED BY <1>5, <1>6 DEF StartEngine

(* An engine at work: its command waits for it, or has left it behind with *)
(* a broken stream and nothing shown.                                      *)
LEMMA AtEngine ==
  ASSUME IInv, NEW p \in Processes, engine[p].pc \in Active
  PROVE  /\ pc[p] \in {"running", "leaving"} /\ Equipped(p)
         /\ command[p].name \in {"run", "resume"}
         /\ pc[p] = "leaving" => shown[p] = "" /\ faults[p] # {}
         /\ \A s \in Sessions : rows[s].by = p => rows[s].status # "success"
<1>1. Placed(p) /\ engine[p].pc # "idle" /\ engine[p].pc # "over"
  BY DEF IInv, Active
<1>2. pc[p] \in {"running", "leaving"} /\ Equipped(p)
  BY <1>1 DEF Placed, Equipped
<1>3. \A s \in Sessions : rows[s].by = p => rows[s].status # "success"
  BY <1>1, <1>2 DEF IInv, Told
<1> QED BY <1>1, <1>2, <1>3 DEF Placed

(* What the engine returned.                                               *)
LEMMA OverType ==
  ASSUME TypeOK, NEW p \in Processes, NEW status \in Ends \cup {""}, NEW err \in BOOLEAN,
         EngineOver(p, status, err)
  PROVE  /\ engine' \in [Processes -> EngineType]
         /\ engine'[p].pc = "over" /\ engine'[p].status = status
         /\ \A q \in Processes \ {p} : engine'[q] = engine[q]
<1>1. engine \in [Processes -> EngineType]
  BY DEF TypeOK
<1>2. engine' = [engine EXCEPT ![p] = [engine[p] EXCEPT !.pc = "over", !.status = status, !.err = err]]
  BY DEF EngineOver
<1>3. [engine[p] EXCEPT !.pc = "over", !.status = status, !.err = err] \in EngineType
  BY <1>1 DEF EngineType
<1> QED BY <1>1, <1>2, <1>3 DEF EngineType

(* An engine that could not store its session returns nothing.             *)
LEMMA EngineFailsKeeps ==
  ASSUME IInv, NEW p \in Processes, engine[p].pc \in Active,
         WriteFails(p, {"write"}), EngineOver(p, "", TRUE),
         UNCHANGED <<pc, command, open, cancelled, seen, shown, kills>>
  PROVE  IInv'
<1>1. TypeOK /\ Placed(p) /\ {"write"} \in SUBSET Faults
  BY DEF IInv, Faults
<1>2. /\ pc[p] \in {"running", "leaving"} /\ Equipped(p) /\ (pc[p] = "leaving" => shown[p] = "")
      /\ \A s \in Sessions : rows[s].by = p => rows[s].status # "success"
  BY AtEngine
<1>3. PICK s \in Sessions : s = command[p].session
  BY <1>2, SessionOf
<1>4. /\ rows' = rows /\ failures' \in Nat /\ faults' \in [Processes -> SUBSET Faults]
      /\ faults'[p] = faults[p] \cup {"write"}
      /\ \A q \in Processes \ {p} : faults'[q] = faults[q]
  BY <1>1, FailedWrite
<1>5. /\ engine' \in [Processes -> EngineType] /\ engine'[p].pc = "over" /\ engine'[p].status = ""
      /\ \A q \in Processes \ {p} : engine'[q] = engine[q]
  BY <1>1, OverType
<1>6. Moves(p, s, rows[s])
  BY <1>1, <1>2, <1>3, <1>4, <1>5 DEF Moves, TypeOK
<1>7. TypeOK'
  BY <1>1, <1>4, <1>5 DEF TypeOK
<1>8. Placed(p)'
  BY <1>1, <1>2, <1>5 DEF Placed, Equipped, Active
<1>9. faults'[p] # {}
  BY <1>4
<1> QED BY <1>2, <1>5, <1>6, <1>7, <1>8, <1>9, QuietKeeps DEF Early

(* An engine that stores its session as it ends, at any point.             *)
LEMMA EngineEndsKeeps ==
  ASSUME IInv, NEW p \in Processes, engine[p].pc \in Active, NEW status \in Ends, NEW err \in BOOLEAN,
         EngineEnds(p, status, err), UNCHANGED <<pc, command, open, cancelled, seen, shown, kills>>
  PROVE  IInv'
<1>1. TypeOK /\ Placed(p)
  BY DEF IInv
<1>2. pc[p] \in {"running", "leaving"} /\ Equipped(p) /\ (pc[p] = "leaving" => shown[p] = "")
  BY AtEngine
<1>3. PICK s \in Sessions : s = command[p].session
  BY <1>2, SessionOf
<1>4. CASE SaveSession(p, status, command[p].plugin) /\ EngineOver(p, status, err)
  <2>1. /\ faults' = faults /\ failures' = failures
        /\ rows' = [rows EXCEPT ![s] = Saved(rows[s], status, command[p].plugin, p)]
    BY <1>3, <1>4 DEF SaveSession, Session
  <2>2. /\ engine' \in [Processes -> EngineType] /\ engine'[p].pc = "over" /\ engine'[p].status = status
        /\ \A q \in Processes \ {p} : engine'[q] = engine[q]
    BY <1>1, <1>4, OverType
  <2>3. Moves(p, s, Saved(rows[s], status, command[p].plugin, p))
    BY <1>2, <1>3, <2>1, <2>2 DEF Moves
  <2>4. status \in RowStatuses /\ status \notin {"none", "running"}
    BY DEF RowStatuses, Ends
  <2>5. Saved(rows[s], status, command[p].plugin, p) \in RowType
    <3>1. rows[s] \in RowType /\ command[p].plugin \in Providers \cup {Nobody}
      BY <1>1, <1>2 DEF TypeOK, Placed, CommandType
    <3> QED BY <2>4, <3>1, SavedType
  <2>6. TypeOK'
    BY <1>1, <2>1, <2>2, <2>5 DEF TypeOK
  <2>7. Placed(p)'
    BY <1>1, <1>2, <2>2 DEF Placed, Equipped, Active
  <2> QED BY <1>2, <2>2, <2>3, <2>4, <2>6, <2>7, SavesKeep DEF Early
<1>5. CASE WriteFails(p, {"write"}) /\ EngineOver(p, "", TRUE)
  BY <1>5, EngineFailsKeeps
<1> QED BY <1>4, <1>5 DEF EngineEnds

(* The engine stores the session as running, with the plugin of the        *)
(* command, or gives up.                                                   *)
LEMMA EngineSavesKeeps ==
  ASSUME IInv, NEW p \in Processes, EngineSaves(p),
         UNCHANGED <<pc, command, open, cancelled, seen, shown, kills>>
  PROVE  IInv'
<1>1. TypeOK /\ Placed(p) /\ engine[p].pc = "starting" /\ engine[p].pc \in Active
  BY DEF IInv, EngineSaves, Active
<1>2. /\ pc[p] \in {"running", "leaving"} /\ Equipped(p)
      /\ pc[p] = "leaving" => shown[p] = "" /\ faults[p] # {}
  BY <1>1, AtEngine
<1>3. PICK s \in Sessions : s = command[p].session
  BY <1>2, SessionOf
<1>4. CASE /\ SaveSession(p, "running", command[p].plugin)
           /\ engine' = [engine EXCEPT ![p].pc = "planning"]
  <2>1. /\ faults' = faults /\ failures' = failures
        /\ rows' = [rows EXCEPT ![s] = Saved(rows[s], "running", command[p].plugin, p)]
    BY <1>3, <1>4 DEF SaveSession, Session
  <2>2. engine \in [Processes -> EngineType] /\ "planning" \in Active
    BY <1>1 DEF TypeOK, Active
  <2>3. /\ engine' \in [Processes -> EngineType] /\ engine'[p].pc = "planning"
        /\ \A q \in Processes \ {p} : engine'[q] = engine[q]
    BY <1>4, <2>2 DEF EngineType
  <2>4. Moves(p, s, Saved(rows[s], "running", command[p].plugin, p))
    BY <1>2, <1>3, <2>1, <2>3 DEF Moves
  <2>5. Saved(rows[s], "running", command[p].plugin, p) \in RowType
    <3>1. rows[s] \in RowType /\ command[p].plugin \in Providers \cup {Nobody}
          /\ "running" \in RowStatuses
      BY <1>1, <1>2 DEF TypeOK, Placed, CommandType, RowStatuses
    <3> QED BY <3>1, SavedType
  <2>6. TypeOK'
    BY <1>1, <2>1, <2>3, <2>5 DEF TypeOK
  <2>7. Placed(p)'
    BY <1>1, <1>2, <2>1, <2>3 DEF Placed, Equipped
  <2>8. faults'[p] # {} \/ Unsettled(p)'
    BY <1>2, <2>1, <2>2, <2>3 DEF Unsettled
  <2> QED BY <1>2, <2>3, <2>4, <2>6, <2>7, <2>8, SavesKeep DEF Early, RowStatuses
<1>5. CASE WriteFails(p, {"write"}) /\ EngineOver(p, "", TRUE)
  BY <1>1, <1>5, EngineFailsKeeps
<1> QED BY <1>4, <1>5 DEF EngineSaves

(* The first plan marks the row; without it the engine ends.               *)
LEMMA EnginePlansKeeps ==
  ASSUME IInv, NEW p \in Processes, EnginePlans(p),
         UNCHANGED <<pc, command, open, cancelled, seen, shown, kills>>
  PROVE  IInv'
<1>1. TypeOK /\ Placed(p) /\ Writes(p) /\ engine[p].pc = "planning" /\ engine[p].pc \in Active
  BY DEF IInv, EnginePlans, Active
<1>2. /\ pc[p] \in {"running", "leaving"} /\ Equipped(p)
      /\ pc[p] = "leaving" => shown[p] = "" /\ faults[p] # {}
      /\ \A s \in Sessions : rows[s].by = p => rows[s].status # "success"
  BY <1>1, AtEngine
<1>3. PICK s \in Sessions : s = command[p].session
  BY <1>2, SessionOf
<1>4. CASE /\ rows' = [rows EXCEPT ![Session(p)].plan = TRUE]
           /\ engine' = [engine EXCEPT ![p].pc = "working"]
           /\ UNCHANGED <<faults, failures>>
  <2>1. rows[s] \in RowType
    BY <1>1 DEF TypeOK
  <2>2. PICK r \in RowType : /\ r = [rows[s] EXCEPT !.plan = TRUE] /\ r.plan /\ r.by = rows[s].by
                             /\ r.status = rows[s].status /\ r.plugin = rows[s].plugin
    <3> DEFINE r == [rows[s] EXCEPT !.plan = TRUE]
    <3>1. r \in RowType /\ r.by = rows[s].by /\ r.status = rows[s].status /\ r.plugin = rows[s].plugin
      BY <2>1 DEF RowType
    <3>2. r.plan = TRUE
      BY <2>1 DEF RowType
    <3> QED BY <3>1, <3>2
  <2>3. rows' = [rows EXCEPT ![s] = r]
    BY <1>3, <1>4, <2>2 DEF Session
  <2>4. engine \in [Processes -> EngineType] /\ "working" \in Active
    BY <1>1 DEF TypeOK, Active
  <2>5. /\ engine' \in [Processes -> EngineType] /\ engine'[p].pc = "working"
        /\ \A q \in Processes \ {p} : engine'[q] = engine[q]
    BY <1>4, <2>4 DEF EngineType
  <2>6. Moves(p, s, r)
    BY <1>2, <1>3, <1>4, <2>3, <2>5 DEF Moves
  <2>7. TypeOK'
    <3>1. rows' \in [Sessions -> RowType]
      BY <1>1, <2>3 DEF TypeOK
    <3> QED BY <1>1, <1>4, <2>5, <3>1 DEF TypeOK
  <2>8. Placed(p)'
    BY <1>1, <1>2, <1>4, <2>5 DEF Placed, Equipped
  <2>9. rows[s].status # "none"
    BY <1>1, <1>2, <1>3 DEF Writes, Row, Session
  <2>10. Entitled(p, s, r)
    BY <1>1, <1>2, <2>2, <2>9 DEF Entitled
  <2>11. rows'[s] = r /\ \A t \in Sessions \ {s} : rows'[t] = rows[t]
    BY <1>1, <2>6, RowOf
  <2>12. Session(p) = s /\ Session(p)' = s /\ Row(p)' = r
    BY <1>3, <2>11 DEF Session, Row
  <2>13. Writes(p)'
    <3>1. \A t \in Sessions : rows'[t].by = p => rows[t].by = p
      BY <2>2, <2>11
    <3>2. \A t \in Sessions : rows'[t].by = p => /\ pc'[p] \notin {"idle", "opening", "saving", "loading"}
                                                 /\ Session(p)' = t
      BY <1>1, <2>12, <3>1 DEF Writes
    <3> QED BY <1>2, <2>2, <2>5, <2>9, <2>12, <3>2 DEF Writes
  <2>14. r.by = p => Told(s)'
    <3>1. faults'[p] # {} \/ Unsettled(p)'
      BY <1>2, <1>4, <2>4, <2>5 DEF Unsettled
    <3>2. rows'[s].by = rows[s].by /\ rows'[s].status = rows[s].status /\ r.by = rows[s].by
      BY <2>2, <2>11
    <3>3. rows[s].by = p => rows[s].status # "success"
      BY <1>2
    <3> QED BY <2>9, <3>1, <3>2, <3>3, ToldOf
  <2> QED BY <2>6, <2>7, <2>8, <2>10, <2>13, <2>14, MovesKeep
<1>5. CASE EngineEnds(p, "fatal_error", TRUE)
  BY <1>1, <1>5, EngineEndsKeeps DEF Ends
<1> QED BY <1>4, <1>5 DEF EnginePlans

(* Every way the engine ends.                                              *)
LEMMA EngineWorksKeeps ==
  ASSUME IInv, NEW p \in Processes, EngineWorks(p),
         UNCHANGED <<pc, command, open, cancelled, seen, shown, kills>>
  PROVE  IInv'
<1>1. PICK e \in Endings : EngineEnds(p, e[1], e[2])
  BY DEF EngineWorks
<1>2. e[1] \in Ends /\ e[2] \in BOOLEAN
  <2>1. \/ e = <<"success", FALSE>> \/ e = <<"blocked_input", FALSE>>
        \/ e = <<"budget_exceeded", FALSE>> \/ e = <<"fatal_error", TRUE>>
        \/ e = <<"interrupted", TRUE>>
    BY DEF Endings
  <2>2. e[1] \in Ends
    <3>0. \A a, b : <<a, b>>[1] = a
      OBVIOUS
    <3>1. \A a \in Ends : \A b : e = <<a, b>> => e[1] \in Ends
      BY <3>0
    <3>2. /\ "success" \in Ends /\ "blocked_input" \in Ends /\ "budget_exceeded" \in Ends
          /\ "fatal_error" \in Ends /\ "interrupted" \in Ends
      BY DEF Ends
    <3> QED BY <2>1, <3>1, <3>2
  <2>3. e[2] = TRUE \/ e[2] = FALSE
    BY <2>1
  <2> QED BY <2>2, <2>3
<1>3. engine[p].pc \in Active
  BY DEF EngineWorks, Active
<1> QED BY <1>1, <1>2, <1>3, EngineEndsKeeps

(* A worker that is cancelled before its engine starts leaves the session  *)
(* as running, for the command to correct.                                 *)
LEMMA WorkerSkippedKeeps ==
  ASSUME IInv, NEW p \in Processes, WorkerSkipped(p)
  PROVE  IInv'
<1>1. /\ TypeOK /\ Placed(p) /\ pc[p] = "running" /\ command[p].mode \in {"all", "best"}
      /\ engine[p].pc \in Active /\ cancelled[p]
      /\ rows' = rows /\ pc' = pc /\ command' = command /\ open' = open /\ cancelled' = cancelled
      /\ seen' = seen /\ shown' = shown /\ faults' = faults /\ failures' = failures /\ kills' = kills
  BY DEF IInv, WorkerSkipped, Active
<1>2. Equipped(p) /\ \A s \in Sessions : rows[s].by = p => rows[s].status # "success"
  BY <1>1, AtEngine
<1>3. PICK s \in Sessions : s = command[p].session
  BY <1>1, SessionOf
<1>4. PICK err \in BOOLEAN : EngineOver(p, "", err)
  BY DEF WorkerSkipped
<1>5. /\ engine' \in [Processes -> EngineType] /\ engine'[p].pc = "over" /\ engine'[p].status = ""
      /\ \A q \in Processes \ {p} : engine'[q] = engine[q]
  BY <1>1, <1>4, OverType
<1>6. Moves(p, s, rows[s])
  BY <1>1, <1>3, <1>5 DEF Moves, TypeOK
<1>7. TypeOK'
  BY <1>1, <1>5 DEF TypeOK
<1>8. Placed(p)'
  BY <1>1, <1>2, <1>5 DEF Placed, Equipped
<1>9. Unsettled(p)'
  BY <1>1, <1>5 DEF Unsettled
<1> QED BY <1>1, <1>2, <1>5, <1>6, <1>7, <1>8, <1>9, QuietKeeps DEF Early

(* What the command makes of what the engine returned: it stores what it   *)
(* corrects, and never corrects a success.                                 *)
LEMMA Correction ==
  ASSUME TypeOK, NEW p \in Processes, NEW err \in RunErrors(p)
  PROVE  /\ Settled(p, err) \in Ends \cup {""}
         /\ Corrects(p, err) => /\ Settled(p, err) \in {"interrupted", "fatal_error"}
                                /\ engine[p].status # "success"
         /\ ~Corrects(p, err) => /\ Settled(p, err) = engine[p].status
                                 /\ ~(cancelled[p] /\ engine[p].status = "")
<1>1. engine[p].status \in Ends \cup {""}
  BY DEF TypeOK, EngineType
<1>2. "interrupted" \in Ends /\ "fatal_error" \in Ends
  BY DEF Ends
<1>3. Settled(p, err) \in {"interrupted", "fatal_error", engine[p].status}
  BY DEF Settled
<1>4. engine[p].status = "success" => Settled(p, err) = "success"
  BY DEF Settled
<1>5. Corrects(p, err) <=> \/ cancelled[p] /\ engine[p].status # "success"
                           \/ Settled(p, err) # engine[p].status
  BY DEF Corrects
<1>6. cancelled[p] /\ engine[p].status # "success" => Settled(p, err) = "interrupted"
  BY DEF Settled
<1> QED BY <1>1, <1>2, <1>3, <1>4, <1>5, <1>6

(* The command corrects what the engine returned, or shows it as it is.    *)
LEMMA SettleKeeps ==
  ASSUME IInv, NEW p \in Processes, Settle(p)
  PROVE  IInv'
<1>1. /\ TypeOK /\ Placed(p) /\ Writes(p) /\ pc[p] = "running" /\ command[p].mode # "stream"
      /\ engine[p].pc = "over" /\ Equipped(p)
      /\ command' = command /\ open' = open /\ cancelled' = cancelled
      /\ engine' = engine /\ seen' = seen /\ kills' = kills
  BY DEF IInv, Settle, Equipped
<1>2. PICK s \in Sessions : s = command[p].session
  BY <1>1, SessionOf
<1>3. command[p] \in CommandType /\ Row(p) = rows[s] /\ rows[s] \in RowType
  BY <1>1, <1>2 DEF Placed, Row, Session, TypeOK
<1>4. PICK err \in RunErrors(p), plugin \in {Nobody, command[p].plugin} :
        /\ shown' = [shown EXCEPT ![p] = Settled(p, err)] /\ Leave(p)
        /\ IF Corrects(p, err)
           THEN SaveSession(p, Settled(p, err), plugin) \/ WriteFails(p, {"write", "lost"})
           ELSE UNCHANGED <<rows, faults, failures>>
  BY DEF Settle
<1> DEFINE status == Settled(p, err)
<1>5. /\ status \in Ends \cup {""}
      /\ Corrects(p, err) => status \in {"interrupted", "fatal_error"} /\ engine[p].status # "success"
      /\ ~Corrects(p, err) => status = engine[p].status /\ ~(cancelled[p] /\ engine[p].status = "")
  BY <1>1, Correction
<1>0. /\ shown' = [shown EXCEPT ![p] = status] /\ Leave(p)
      /\ IF Corrects(p, err) THEN SaveSession(p, status, plugin) \/ WriteFails(p, {"write", "lost"})
         ELSE UNCHANGED <<rows, faults, failures>>
  BY <1>4
<1> HIDE DEF status
<1>6. status \in RowStatuses \cup {""} /\ shown \in [Processes -> RowStatuses \cup {""}]
  BY <1>1, <1>5 DEF RowStatuses, TypeOK
<1>7. /\ shown' \in [Processes -> RowStatuses \cup {""}]
      /\ shown'[p] = status /\ \A q \in Processes \ {p} : shown'[q] = shown[q]
  BY <1>0, <1>6
<1>8. /\ pc' = [pc EXCEPT ![p] = "leaving"] /\ pc' \in [Processes -> Labels]
      /\ pc'[p] = "leaving" /\ \A q \in Processes \ {p} : pc'[q] = pc[q]
  BY <1>1, <1>0 DEF Leave, Goto, TypeOK, Labels
<1>9. Placed(p)'
  BY <1>1, <1>8 DEF Placed, Equipped, Active
<1>10. rows[s].by = p =>
         /\ rows[s].status = "running" => faults[p] # {} \/ (cancelled[p] /\ engine[p].status = "")
         /\ rows[s].status = "success" => engine[p].status = "success"
  <2>1. rows[s].by = p => /\ rows[s].status = "running" => faults[p] # {} \/ Unsettled(p)
                          /\ rows[s].status = "success" =>
                               pc[p] = "exited" \/ (engine[p].pc = "over" /\ engine[p].status = "success")
    BY DEF IInv, Told
  <2>2. Unsettled(p) => cancelled[p] /\ engine[p].status = ""
    BY <1>1 DEF Unsettled, Active
  <2> QED BY <1>1, <2>1, <2>2
<1>11. CASE Corrects(p, err) /\ SaveSession(p, status, plugin)
  <2>1. /\ faults' = faults /\ failures' = failures
        /\ rows' = [rows EXCEPT ![s] = Saved(rows[s], status, plugin, p)]
    BY <1>2, <1>11 DEF SaveSession, Session
  <2>2. Moves(p, s, Saved(rows[s], status, plugin, p))
    BY <1>1, <1>2, <1>7, <1>8, <2>1 DEF Moves
  <2>3. status \in RowStatuses /\ status \notin {"none", "running", "success"}
    BY <1>5, <1>11 DEF RowStatuses, Ends
  <2>4. Saved(rows[s], status, plugin, p) \in RowType
    <3>1. plugin \in Providers \cup {Nobody}
      BY <1>3 DEF CommandType
    <3> QED BY <1>3, <2>3, <3>1, SavedType
  <2>5. TypeOK'
    BY <1>1, <1>7, <1>8, <2>1, <2>4 DEF TypeOK
  <2> QED BY <1>1, <1>7, <1>8, <1>9, <2>2, <2>3, <2>5, SavesKeep DEF Early
<1>12. CASE Corrects(p, err) /\ WriteFails(p, {"write", "lost"})
  <2>0. {"write", "lost"} \in SUBSET Faults
    BY DEF Faults
  <2>1. /\ rows' = rows /\ failures' \in Nat /\ faults' \in [Processes -> SUBSET Faults]
        /\ faults'[p] = faults[p] \cup {"write", "lost"}
        /\ \A q \in Processes \ {p} : faults'[q] = faults[q]
    BY <1>1, <1>12, <2>0, FailedWrite
  <2>2. Moves(p, s, rows[s])
    BY <1>1, <1>2, <1>7, <1>8, <2>1 DEF Moves, TypeOK
  <2>3. TypeOK'
    BY <1>1, <1>7, <1>8, <2>1 DEF TypeOK
  <2>4. faults'[p] # {} /\ faults'[p] \cap {"killed", "lost"} # {}
    BY <2>1
  <2> QED BY <1>1, <1>8, <1>9, <1>10, <2>2, <2>3, <2>4, QuietKeeps DEF Early
<1>13. CASE ~Corrects(p, err)
  <2>1. rows' = rows /\ faults' = faults /\ failures' = failures
    BY <1>0, <1>13
  <2>2. Moves(p, s, rows[s])
    BY <1>1, <1>2, <1>7, <1>8, <2>1 DEF Moves, TypeOK
  <2>3. TypeOK'
    BY <1>1, <1>7, <1>8, <2>1 DEF TypeOK
  <2>4. rows[s].by = p => /\ shown'[p] # "" => rows[s].status = shown'[p]
                          /\ rows[s].status = "running" => faults'[p] # {}
    BY <1>1, <1>3, <1>5, <1>7, <1>10, <1>13, <2>1 DEF Writes
  <2> QED BY <1>1, <1>8, <1>9, <1>10, <2>2, <2>3, <2>4, QuietKeeps DEF Early
<1> QED BY <1>0, <1>11, <1>12, <1>13

(* A streaming command leaves, because it cannot write any more or because *)
(* its engine has returned; the row stays.                                 *)
LEMMA ConsumerFailsKeeps ==
  ASSUME IInv, NEW p \in Processes, ConsumerFails(p)
  PROVE  IInv'
<1>1. /\ TypeOK /\ Placed(p) /\ pc[p] = "running" /\ command[p].mode = "stream"
      /\ faults' = [faults EXCEPT ![p] = @ \cup {"stream"}] /\ pc' = [pc EXCEPT ![p] = "leaving"]
      /\ rows' = rows /\ command' = command /\ open' = open /\ cancelled' = cancelled
      /\ engine' = engine /\ seen' = seen /\ shown' = shown /\ failures' = failures /\ kills' = kills
  BY DEF IInv, ConsumerFails, Leave, Goto
<1>2. PICK s \in Sessions : s = command[p].session
  BY <1>1, SessionOf
<1>3. /\ pc' \in [Processes -> Labels]
      /\ pc'[p] = "leaving" /\ \A q \in Processes \ {p} : pc'[q] = pc[q]
  BY <1>1 DEF TypeOK, Labels
<1>4. /\ faults' \in [Processes -> SUBSET Faults] /\ faults'[p] = faults[p] \cup {"stream"}
      /\ \A q \in Processes \ {p} : faults'[q] = faults[q]
  <2>1. {"stream"} \in SUBSET Faults /\ faults \in [Processes -> SUBSET Faults]
    BY <1>1 DEF Faults, TypeOK
  <2> QED BY <1>1, <2>1
<1>5. Equipped(p) /\ engine[p].pc # "idle" /\ shown[p] = "" /\ faults'[p] # {}
  BY <1>1, <1>4 DEF Placed, Equipped
<1>6. Moves(p, s, rows[s])
  BY <1>1, <1>2, <1>3, <1>4 DEF Moves, TypeOK
<1>7. TypeOK'
  BY <1>1, <1>3, <1>4 DEF TypeOK
<1>8. Placed(p)'
  BY <1>1, <1>3, <1>5 DEF Placed, Equipped
<1>9. rows[s].by = p /\ rows[s].status = "success" => engine[p].pc = "over" /\ engine[p].status = "success"
  BY <1>1 DEF IInv, Told
<1> QED BY <1>1, <1>3, <1>5, <1>6, <1>7, <1>8, <1>9, QuietKeeps DEF Early

(* The stream is over and the last event shown.                            *)
LEMMA ConsumerEndsKeeps ==
  ASSUME IInv, NEW p \in Processes, ConsumerEnds(p)
  PROVE  IInv'
<1>1. /\ TypeOK /\ Placed(p) /\ Writes(p) /\ pc[p] = "running" /\ command[p].mode = "stream"
      /\ engine[p].pc = "over"
      /\ \E told \in {engine[p].status, ""} : shown' = [shown EXCEPT ![p] = told]
      /\ pc' = [pc EXCEPT ![p] = "leaving"]
      /\ rows' = rows /\ command' = command /\ open' = open /\ cancelled' = cancelled
      /\ engine' = engine /\ seen' = seen /\ faults' = faults /\ failures' = failures /\ kills' = kills
  BY DEF IInv, ConsumerEnds, Leave, Goto
<1>2. PICK s \in Sessions : s = command[p].session
  BY <1>1, SessionOf
<1>3. /\ pc' \in [Processes -> Labels]
      /\ pc'[p] = "leaving" /\ \A q \in Processes \ {p} : pc'[q] = pc[q]
  BY <1>1 DEF TypeOK, Labels
<1>4. /\ shown' \in [Processes -> RowStatuses \cup {""}] /\ shown'[p] \in {engine[p].status, ""}
      /\ \A q \in Processes \ {p} : shown'[q] = shown[q]
  <2>0. PICK told \in {engine[p].status, ""} : shown' = [shown EXCEPT ![p] = told]
    BY <1>1
  <2>1. engine[p].status \in RowStatuses \cup {""} /\ shown \in [Processes -> RowStatuses \cup {""}]
    BY <1>1 DEF TypeOK, EngineType, RowStatuses
  <2> QED BY <1>1, <2>0, <2>1
<1>5. Equipped(p) /\ Row(p) = rows[s]
  BY <1>1, <1>2 DEF Equipped, Row, Session
<1>6. Moves(p, s, rows[s])
  BY <1>1, <1>2, <1>3, <1>4 DEF Moves, TypeOK
<1>7. TypeOK'
  BY <1>1, <1>3, <1>4 DEF TypeOK
<1>8. Placed(p)'
  BY <1>1, <1>3 DEF Placed, Equipped, Active
<1>9. rows[s].by = p => /\ rows[s].status = "running" => faults[p] # {}
                        /\ rows[s].status = "success" => engine[p].status = "success"
                        /\ engine[p].status # "" => rows[s].status = engine[p].status
  <2>1. ~Unsettled(p)
    BY <1>1 DEF Unsettled, Active
  <2>2. rows[s].by = p => /\ rows[s].status = "running" => faults[p] # {} \/ Unsettled(p)
                          /\ rows[s].status = "success" =>
                               pc[p] = "exited" \/ (engine[p].pc = "over" /\ engine[p].status = "success")
    BY DEF IInv, Told
  <2>3. rows[s].by = p /\ engine[p].status # "" => rows[s].status = engine[p].status
    BY <1>1, <1>5 DEF Writes
  <2> QED BY <1>1, <2>1, <2>2, <2>3
<1> QED BY <1>1, <1>3, <1>4, <1>5, <1>6, <1>7, <1>8, <1>9, QuietKeeps DEF Early

(* What is left of a process that ends.                                    *)
LEMMA Exited ==
  ASSUME IInv, NEW p \in Processes, pc[p] # "idle", Exit(p)
  PROVE  /\ pc' \in [Processes -> Labels] /\ pc'[p] = "exited"
         /\ command' \in [Processes -> CommandType \cup {[name |-> ""]}]
         /\ command'[p] \in CommandType /\ command'[p].name = command[p].name
         /\ command'[p].session = command[p].session /\ command'[p].plugin = command[p].plugin
         /\ open' \in [Processes -> SUBSET {"signals", "stores"}]
         /\ cancelled' \in [Processes -> BOOLEAN]
         /\ engine' \in [Processes -> EngineType] /\ engine'[p].pc = "idle"
         /\ seen' \in [Processes -> RowStatuses \cup {""}] /\ seen'[p] = ""
         /\ \A q \in Processes \ {p} : /\ pc'[q] = pc[q] /\ command'[q] = command[q]
                                       /\ cancelled'[q] = cancelled[q] /\ engine'[q] = engine[q]
                                       /\ seen'[q] = seen[q]
<1>1. TypeOK /\ command[p] \in CommandType
  BY SessionOf DEF IInv
<1>2. /\ pc' = [pc EXCEPT ![p] = "exited"]
      /\ command' = [command EXCEPT ![p] = [command[p] EXCEPT !.mode = "none"]]
      /\ open' = [open EXCEPT ![p] = {}] /\ cancelled' = [cancelled EXCEPT ![p] = FALSE]
      /\ engine' = [engine EXCEPT ![p] = Idle] /\ seen' = [seen EXCEPT ![p] = ""]
  BY DEF Exit, Goto
<1>3. /\ pc' \in [Processes -> Labels]
      /\ pc'[p] = "exited" /\ \A q \in Processes \ {p} : pc'[q] = pc[q]
  BY <1>1, <1>2 DEF TypeOK, Labels
<1>4. /\ command' \in [Processes -> CommandType \cup {[name |-> ""]}]
      /\ command'[p] \in CommandType /\ command'[p].name = command[p].name
      /\ command'[p].session = command[p].session /\ command'[p].plugin = command[p].plugin
      /\ \A q \in Processes \ {p} : command'[q] = command[q]
  <2> DEFINE c == [command[p] EXCEPT !.mode = "none"]
  <2>1. /\ c \in CommandType /\ c.name = command[p].name
        /\ c.session = command[p].session /\ c.plugin = command[p].plugin
    BY <1>1 DEF CommandType
  <2>2. command' = [command EXCEPT ![p] = c] /\ command \in [Processes -> CommandType \cup {[name |-> ""]}]
    BY <1>1, <1>2 DEF TypeOK
  <2> HIDE DEF c
  <2> QED BY <2>1, <2>2
<1>5. open' \in [Processes -> SUBSET {"signals", "stores"}]
  BY <1>1, <1>2 DEF TypeOK
<1>6. cancelled' \in [Processes -> BOOLEAN] /\ \A q \in Processes \ {p} : cancelled'[q] = cancelled[q]
  BY <1>1, <1>2 DEF TypeOK
<1>7. /\ engine' \in [Processes -> EngineType] /\ engine'[p].pc = "idle"
      /\ \A q \in Processes \ {p} : engine'[q] = engine[q]
  <2>1. Idle \in EngineType /\ Idle.pc = "idle"
    BY DEF Idle, EngineType
  <2> QED BY <1>1, <1>2, <2>1 DEF TypeOK
<1>8. /\ seen' \in [Processes -> RowStatuses \cup {""}] /\ seen'[p] = ""
      /\ \A q \in Processes \ {p} : seen'[q] = seen[q]
  BY <1>1, <1>2 DEF TypeOK
<1> QED BY <1>3, <1>4, <1>5, <1>6, <1>7, <1>8

(* The deferred calls change nothing that is stored or shown.              *)
LEMMA UnwindKeeps ==
  ASSUME IInv, NEW p \in Processes, Unwind(p)
  PROVE  IInv'
<1>1. /\ TypeOK /\ Placed(p) /\ Writes(p) /\ pc[p] = "leaving"
      /\ rows' = rows /\ shown' = shown /\ faults' = faults /\ failures' = failures /\ kills' = kills
  BY DEF IInv, Unwind
<1>2. PICK s \in Sessions : s = command[p].session
  BY <1>1, SessionOf
<1>3. rows[s].by = p =>
        /\ faults[p] \cap {"killed", "lost"} = {} /\ shown[p] # "" => rows[s].status = shown[p]
        /\ rows[s].status = "running" => faults[p] # {}
        /\ rows[s].status = "success" => engine[p].pc = "over" /\ engine[p].status = "success"
  <2>1. ~Unsettled(p) /\ Row(p) = rows[s]
    BY <1>1, <1>2 DEF Unsettled, Row, Session
  <2> QED BY <1>1, <2>1 DEF IInv, Told, Writes
<1>4. CASE Exit(p)
  <2>1. /\ pc' \in [Processes -> Labels] /\ pc'[p] = "exited"
        /\ command' \in [Processes -> CommandType \cup {[name |-> ""]}]
        /\ command'[p] \in CommandType /\ command'[p].name = command[p].name
        /\ command'[p].session = command[p].session /\ command'[p].plugin = command[p].plugin
        /\ open' \in [Processes -> SUBSET {"signals", "stores"}]
        /\ cancelled' \in [Processes -> BOOLEAN]
        /\ engine' \in [Processes -> EngineType] /\ engine'[p].pc = "idle"
        /\ seen' \in [Processes -> RowStatuses \cup {""}]
        /\ \A q \in Processes \ {p} : /\ pc'[q] = pc[q] /\ command'[q] = command[q]
                                      /\ cancelled'[q] = cancelled[q] /\ engine'[q] = engine[q]
                                      /\ seen'[q] = seen[q]
    BY <1>1, <1>4, Exited
  <2>2. Moves(p, s, rows[s])
    BY <1>1, <1>2, <2>1 DEF Moves, TypeOK
  <2>3. TypeOK'
    BY <1>1, <2>1 DEF TypeOK
  <2>4. Placed(p)' /\ ~Equipped(p)'
    BY <2>1 DEF Placed, Equipped
  <2> QED BY <1>1, <1>3, <2>1, <2>2, <2>3, <2>4, QuietKeeps DEF Early
<1>5. CASE ~Exit(p)
  <2>1. /\ pc' = pc /\ command' = command /\ engine' = engine /\ seen' = seen
        /\ open' = [open EXCEPT ![p] = IF "signals" \in @ THEN @ \ {"signals"} ELSE {}]
        /\ cancelled' = [cancelled EXCEPT ![p] = @ \/ "signals" \in open[p]]
    BY <1>5 DEF Unwind
  <2>2. open' \in [Processes -> SUBSET {"signals", "stores"}]
    BY <1>1, <2>1 DEF TypeOK
  <2>3. cancelled' \in [Processes -> BOOLEAN] /\ \A q \in Processes \ {p} : cancelled'[q] = cancelled[q]
    BY <1>1, <2>1 DEF TypeOK
  <2>4. Moves(p, s, rows[s])
    BY <1>1, <1>2, <2>1, <2>3 DEF Moves, TypeOK
  <2>5. TypeOK'
    BY <1>1, <2>1, <2>2, <2>3 DEF TypeOK
  <2>6. Placed(p)' /\ Equipped(p)' = Equipped(p)
    BY <1>1, <2>1 DEF Placed, Equipped
  <2> QED BY <1>1, <1>3, <2>1, <2>4, <2>5, <2>6, QuietKeeps DEF Early
<1> QED BY <1>4, <1>5

(* A signal only makes more of what has to be corrected.                   *)
LEMMA SignalKeeps ==
  ASSUME IInv, NEW p \in Processes, Signal(p)
  PROVE  IInv'
<1>1. /\ TypeOK /\ cancelled' = [cancelled EXCEPT ![p] = TRUE]
      /\ rows' = rows /\ pc' = pc /\ command' = command /\ open' = open /\ engine' = engine
      /\ seen' = seen /\ shown' = shown /\ faults' = faults /\ failures' = failures /\ kills' = kills
  BY DEF IInv, Signal
<1>2. TypeOK'
  <2>1. cancelled' \in [Processes -> BOOLEAN]
    BY <1>1 DEF TypeOK
  <2> QED BY <1>1, <2>1 DEF TypeOK
<1>3. \A q \in Processes : cancelled[q] => cancelled'[q]
  BY <1>1 DEF TypeOK
<1>4. \A q \in Processes : Unsettled(q) => Unsettled(q)'
  BY <1>1, <1>3 DEF Unsettled
<1>5. ASSUME NEW q \in Processes PROVE Placed(q)' /\ Writes(q)' /\ Bound(q)'
  <2>1. Placed(q) /\ Writes(q) /\ Bound(q)
    BY DEF IInv
  <2>2. Placed(q)'
    BY <1>1, <2>1 DEF Placed, Equipped
  <2>3. Writes(q)'
    BY <1>1, <2>1 DEF Writes, Equipped, Row, Session
  <2>4. Bound(q)'
    BY <1>1, <2>1 DEF Bound, Equipped, Row, Session
  <2> QED BY <2>2, <2>3, <2>4
<1>6. ASSUME NEW t \in Sessions PROVE Told(t)'
  <2>1. Told(t)
    BY DEF IInv
  <2>2. CASE rows[t].status = "none"
    BY <1>1, <2>1, <2>2 DEF Told
  <2>3. CASE rows[t].status # "none"
    <3>1. PICK q \in Processes : q = rows[t].by
      BY <2>1, <2>3 DEF Told
    <3>2. /\ rows[t].status = "running" => faults[q] # {} \/ Unsettled(q)
          /\ rows[t].status = "success" =>
               pc[q] = "exited" \/ (engine[q].pc = "over" /\ engine[q].status = "success")
      BY <2>1, <3>1 DEF Told
    <3> QED BY <1>1, <1>4, <2>3, <3>1, <3>2, ToldOf
  <2> QED BY <2>2, <2>3
<1> QED BY <1>2, <1>5, <1>6 DEF IInv

(* A process may be killed anywhere: what it leaves behind is excused.     *)
LEMMA KillKeeps ==
  ASSUME IInv, NEW p \in Processes, Kill(p)
  PROVE  IInv'
<1>1. /\ TypeOK /\ Placed(p) /\ Writes(p) /\ pc[p] # "idle" /\ Exit(p)
      /\ faults' = [faults EXCEPT ![p] = @ \cup {"killed"}] /\ kills' = kills + 1
      /\ rows' = rows /\ shown' = shown /\ failures' = failures
  BY DEF IInv, Kill
<1>2. PICK s \in Sessions : s = command[p].session
  BY <1>1, SessionOf
<1>3. /\ faults' \in [Processes -> SUBSET Faults] /\ faults'[p] = faults[p] \cup {"killed"}
      /\ \A q \in Processes \ {p} : faults'[q] = faults[q]
  <2>1. {"killed"} \in SUBSET Faults /\ faults \in [Processes -> SUBSET Faults]
    BY <1>1 DEF Faults, TypeOK
  <2> QED BY <1>1, <2>1
<1>4. kills' \in Nat
  <2>1. kills \in Nat
    BY <1>1 DEF TypeOK
  <2>2. kills' = kills + 1
    BY <1>1
  <2> QED BY <2>1, <2>2
<1>5. /\ pc' \in [Processes -> Labels] /\ pc'[p] = "exited"
      /\ command' \in [Processes -> CommandType \cup {[name |-> ""]}]
      /\ command'[p] \in CommandType /\ command'[p].name = command[p].name
      /\ command'[p].session = command[p].session /\ command'[p].plugin = command[p].plugin
      /\ open' \in [Processes -> SUBSET {"signals", "stores"}]
      /\ cancelled' \in [Processes -> BOOLEAN]
      /\ engine' \in [Processes -> EngineType] /\ engine'[p].pc = "idle"
      /\ seen' \in [Processes -> RowStatuses \cup {""}]
      /\ \A q \in Processes \ {p} : /\ pc'[q] = pc[q] /\ command'[q] = command[q]
                                    /\ cancelled'[q] = cancelled[q] /\ engine'[q] = engine[q]
                                    /\ seen'[q] = seen[q]
  BY <1>1, Exited
<1>6. Moves(p, s, rows[s])
  BY <1>1, <1>2, <1>3, <1>5 DEF Moves, TypeOK
<1>7. TypeOK'
  BY <1>1, <1>3, <1>4, <1>5 DEF TypeOK
<1>8. Placed(p)' /\ ~Equipped(p)'
  BY <1>5 DEF Placed, Equipped
<1>9. faults'[p] # {} /\ faults'[p] \cap {"killed", "lost"} # {}
  BY <1>3
<1> QED BY <1>5, <1>6, <1>7, <1>8, <1>9, QuietKeeps DEF Early

-----------------------------------------------------------------------------
(* The theorems.                                                           *)

(* No step of the system breaks the invariant.                             *)
LEMMA NextInv == IInv /\ [Next]_vars => IInv'
<1> SUFFICES ASSUME IInv, [Next]_vars PROVE IInv'
  OBVIOUS
<1>1. CASE Next
  <2>1. PICK p \in Processes :
          Start(p) \/ Command(p) \/ EngineStep(p) \/ ConsumerFails(p) \/ Signal(p) \/ Kill(p)
    BY <1>1 DEF Next
  <2>2. CASE Start(p)
    BY <2>2, StartKeeps
  <2>3. CASE Command(p)
    <3>1. CASE OpenStores(p) \/ SaveInitialSession(p) \/ LoadSession(p) \/ StartEngine(p)
      BY <3>1, OpenStoresKeeps, SaveInitialSessionKeeps, LoadSessionKeeps, StartEngineKeeps
    <3>2. CASE WorkerSkipped(p) \/ Settle(p) \/ ConsumerEnds(p) \/ Unwind(p)
      BY <3>2, WorkerSkippedKeeps, SettleKeeps, ConsumerEndsKeeps, UnwindKeeps
    <3> QED BY <2>3, <3>1, <3>2 DEF Command
  <2>4. CASE EngineStep(p)
    <3>1. UNCHANGED <<pc, command, open, cancelled, seen, shown, kills>>
      BY <2>4 DEF EngineStep
    <3>2. EngineSaves(p) \/ EnginePlans(p) \/ EngineWorks(p)
      BY <2>4 DEF EngineStep
    <3> QED BY <3>1, <3>2, EngineSavesKeeps, EnginePlansKeeps, EngineWorksKeeps
  <2>5. CASE ConsumerFails(p) \/ Signal(p) \/ Kill(p)
    BY <2>5, ConsumerFailsKeeps, SignalKeeps, KillKeeps
  <2> QED BY <2>1, <2>2, <2>3, <2>4, <2>5
<1>2. CASE UNCHANGED vars
  <2>1. /\ rows' = rows /\ pc' = pc /\ command' = command /\ open' = open /\ cancelled' = cancelled
        /\ engine' = engine /\ seen' = seen /\ shown' = shown /\ faults' = faults
        /\ failures' = failures /\ kills' = kills
    BY <1>2 DEF vars
  <2>2. TypeOK'
    BY <2>1 DEF IInv, TypeOK
  <2>3. ASSUME NEW q \in Processes PROVE Placed(q)' /\ Writes(q)' /\ Bound(q)'
    <3>1. Placed(q) /\ Writes(q) /\ Bound(q)
      BY DEF IInv
    <3>2. Placed(q)' /\ Writes(q)'
      BY <2>1, <3>1 DEF Placed, Writes, Equipped, Row, Session
    <3>3. Bound(q)'
      BY <2>1, <3>1 DEF Bound, Equipped, Row, Session
    <3> QED BY <3>2, <3>3
  <2>4. ASSUME NEW t \in Sessions PROVE Told(t)'
    <3>1. Told(t)
      BY DEF IInv
    <3> QED BY <2>1, <3>1 DEF Told, Unsettled
  <2> QED BY <2>2, <2>3, <2>4 DEF IInv
<1> QED BY <1>1, <1>2

(* What holds of every command line: of who wrote a row and what it showed,*)
(* of a session that is stored as running, and of one with a plugin        *)
(* (cli.go runCommand, resumeCommand, runStreamingCommand).                *)
THEOREM Invariance == Spec => []IInv
<1> QED BY InitInv, NextInv, PTL DEF Spec

(* Every variable keeps its type (cli.go; session_store.go).               *)
THEOREM TypeCorrect == Spec => []TypeOK
<1>1. IInv => TypeOK
  BY DEF IInv
<1> QED BY <1>1, Invariance, PTL

(* What a command showed is what it has stored, if it wrote last; and a    *)
(* session that is stored as running has a process at work on it, or one   *)
(* whose fault it is (cli.go runCommand, resumeCommand,                    *)
(* runStreamingCommand).                                                   *)
THEOREM OutcomesAreStored == Spec => []OutcomeIsStored
<1>1. IInv => OutcomeIsStored
  <2> SUFFICES ASSUME IInv PROVE OutcomeIsStored
    OBVIOUS
  <2>1. ASSUME NEW p \in Processes, pc[p] = "exited", "killed" \notin faults[p], shown[p] # "",
               Row(p).by = p, "lost" \notin faults[p]
        PROVE  Row(p).status = shown[p]
    <3>1. faults[p] \cap {"killed", "lost"} = {}
      BY <2>1
    <3> QED BY <2>1, <3>1 DEF IInv, Writes
  <2>2. ASSUME NEW s \in Sessions, rows[s].status = "running", ~(\E p \in Processes : AtWork(p, s))
        PROVE  \E p \in Processes : pc[p] # "idle" /\ Session(p) = s /\ faults[p] # {}
    <3>1. PICK q \in Processes : q = rows[s].by
      BY <2>2 DEF IInv, Told
    <3>2. Placed(q) /\ pc[q] # "idle" /\ Session(q) = s
      BY <3>1 DEF IInv, Writes
    <3>3. faults[q] # {} \/ Unsettled(q)
      BY <2>2, <3>1 DEF IInv, Told
    <3>4. Unsettled(q) => pc[q] \in {"equipping", "running"} /\ command[q].name \in {"run", "resume"}
      BY <3>2 DEF Unsettled, Placed, Equipped
    <3>5. ~Unsettled(q)
      BY <2>2, <3>2, <3>4 DEF AtWork
    <3> QED BY <3>2, <3>3, <3>5
  <2> QED BY <2>1, <2>2 DEF OutcomeIsStored
<1> QED BY <1>1, Invariance, PTL

(* A session that was begun with a plugin is never continued without it    *)
(* (cli.go validateResumePluginRequirements; session_store.go              *)
(* mergeStoredProvenance).                                                 *)
THEOREM PluginsAreKept == Spec => []PluginIsKept
<1>1. IInv => PluginIsKept
  <2> SUFFICES ASSUME IInv, NEW p \in Processes, NEW q \in Processes, pc[p] # "idle",
                      command[p].name = "run", command[p].plugin # Nobody,
                      engine[q].pc # "idle", Session(q) = Session(p)
               PROVE  command[q].plugin = command[p].plugin
    BY DEF PluginIsKept
  <2>1. CASE q = p
    BY <2>1
  <2>2. CASE q # p
    <3>1. Placed(q) /\ Bound(p)
      BY DEF IInv
    <3>2. pc[q] # "idle" /\ Equipped(q)
      BY <3>1 DEF Placed, Equipped
    <3> QED BY <2>2, <3>1, <3>2 DEF Bound
  <2> QED BY <2>1, <2>2
<1> QED BY <1>1, Invariance, PTL

(* A success that is undone in this step: by another process, which had    *)
(* not seen it.                                                            *)
Stands ==
  \A s \in Sessions :
    rows[s].status = "success" /\ rows'[s].status # "success" =>
      /\ rows'[s].by # rows[s].by
      /\ seen[rows'[s].by] # "success"

(* A process that has itself no success to undo and saw none may write.    *)
LEMMA SavedStands ==
  ASSUME IInv, NEW p \in Processes, NEW status, NEW plugin, SaveSession(p, status, plugin),
         seen[p] # "success", \A s \in Sessions : rows[s].by = p => rows[s].status # "success"
  PROVE  Stands
<1>1. TypeOK
  BY DEF IInv
<1>2. rows' = [rows EXCEPT ![Session(p)] = Saved(rows[Session(p)], status, plugin, p)]
  BY DEF SaveSession
<1>3. ASSUME NEW s \in Sessions, rows[s].status = "success", rows'[s].status # "success"
      PROVE  rows'[s].by = p
  <2>1. s = Session(p)
    BY <1>1, <1>2, <1>3 DEF TypeOK
  <2>2. rows'[s] = Saved(rows[s], status, plugin, p) /\ rows[s] \in RowType
    BY <1>1, <1>2, <2>1 DEF TypeOK
  <2> QED BY <2>2 DEF Saved, RowType
<1> QED BY <1>3 DEF Stands

(* Nobody else undoes one: a write that fails, or that only stores a plan, *)
(* leaves the status.                                                      *)
LEMMA NextStands ==
  ASSUME IInv, [Next]_vars
  PROVE  Stands
<1>1. ASSUME rows' = rows PROVE Stands
  BY <1>1 DEF Stands
<1>2. CASE Next
  <2>1. PICK p \in Processes :
          Start(p) \/ Command(p) \/ EngineStep(p) \/ ConsumerFails(p) \/ Signal(p) \/ Kill(p)
    BY <1>2 DEF Next
  <2>2. TypeOK /\ Placed(p)
    BY DEF IInv
  <2>3. CASE Start(p) \/ ConsumerFails(p) \/ Signal(p) \/ Kill(p)
    <3>1. rows' = rows
      BY <2>3 DEF Start, ConsumerFails, Signal, Kill
    <3> QED BY <1>1, <3>1
  <2>4. CASE OpenStores(p) \/ LoadSession(p) \/ WorkerSkipped(p) \/ ConsumerEnds(p) \/ Unwind(p)
    <3>1. rows' = rows
      BY <2>4 DEF OpenStores, LoadSession, WorkerSkipped, ConsumerEnds, Unwind
    <3> QED BY <1>1, <3>1
  <2>5. CASE StartEngine(p)
    <3>1. rows' = rows
      BY <2>5 DEF StartEngine, WriteFails
    <3> QED BY <1>1, <3>1
  <2>6. CASE SaveInitialSession(p)
    <3>1. pc[p] = "saving" /\ seen[p] # "success"
      BY <2>2, <2>6 DEF SaveInitialSession, Placed
    <3>2. \A s \in Sessions : rows[s].by = p => rows[s].status # "success"
      BY <3>1 DEF IInv, Writes
    <3>3. SaveSession(p, "running", Nobody) \/ rows' = rows
      BY <2>6 DEF SaveInitialSession, WriteFails
    <3> QED BY <1>1, <3>1, <3>2, <3>3, SavedStands
  <2>7. CASE Settle(p)
    <3>1. pc[p] = "running" /\ engine[p].pc = "over"
      BY <2>7 DEF Settle
    <3>2. seen[p] # "success"
      BY <2>2, <3>1 DEF Placed, Equipped, Terminal
    <3>3. PICK err \in RunErrors(p), plugin \in {Nobody, command[p].plugin} :
            IF Corrects(p, err)
            THEN SaveSession(p, Settled(p, err), plugin) \/ WriteFails(p, {"write", "lost"})
            ELSE UNCHANGED <<rows, faults, failures>>
      BY <2>7 DEF Settle
    <3>4. CASE Corrects(p, err) /\ SaveSession(p, Settled(p, err), plugin)
      <4>1. engine[p].status # "success"
        BY <2>2, <3>4, Correction
      <4>2. \A s \in Sessions : rows[s].by = p => rows[s].status # "success"
        BY <3>1, <4>1 DEF IInv, Told
      <4> QED BY <3>2, <3>4, <4>2, SavedStands
    <3>5. CASE rows' = rows
      BY <1>1, <3>5
    <3> QED BY <3>3, <3>4, <3>5 DEF WriteFails
  <2>8. CASE EngineStep(p)
    <3>1. engine[p].pc \in Active
      BY <2>8 DEF EngineStep, EngineSaves, EnginePlans, EngineWorks, Active
    <3>2. seen[p] # "success" /\ \A s \in Sessions : rows[s].by = p => rows[s].status # "success"
      <4>1. Equipped(p)
        BY <3>1, AtEngine
      <4>2. seen[p] # "success"
        BY <2>2, <4>1 DEF Placed, Terminal
      <4> QED BY <3>1, <4>2, AtEngine
    <3>3. CASE \E status, plugin : SaveSession(p, status, plugin)
      BY <3>2, <3>3, SavedStands
    <3>4. CASE rows' = [rows EXCEPT ![Session(p)].plan = TRUE]
      <4>1. \A s \in Sessions : rows'[s].status = rows[s].status
        <5> TAKE s \in Sessions
        <5>1. rows[s] \in RowType
          BY <2>2 DEF TypeOK
        <5>2. rows'[s] = rows[s] \/ rows'[s] = [rows[s] EXCEPT !.plan = TRUE]
          BY <2>2, <3>4 DEF TypeOK
        <5>3. [rows[s] EXCEPT !.plan = TRUE].status = rows[s].status
          BY <5>1 DEF RowType
        <5> QED BY <5>2, <5>3
      <4> QED BY <4>1 DEF Stands
    <3>5. CASE rows' = rows
      BY <1>1, <3>5
    <3>6. EngineSaves(p) \/ EnginePlans(p) \/ EngineWorks(p)
      BY <2>8 DEF EngineStep
    <3>7. \/ \E status, plugin : SaveSession(p, status, plugin)
          \/ rows' = [rows EXCEPT ![Session(p)].plan = TRUE]
          \/ rows' = rows
      <4>1. EngineSaves(p) =>
              SaveSession(p, "running", command[p].plugin) \/ rows' = rows
        BY DEF EngineSaves, WriteFails
      <4>2. ASSUME NEW status, NEW err, EngineEnds(p, status, err)
            PROVE  SaveSession(p, status, command[p].plugin) \/ rows' = rows
        BY <4>2 DEF EngineEnds, WriteFails
      <4>3. CASE EngineSaves(p)
        BY <4>1, <4>3
      <4>4. CASE EnginePlans(p)
        BY <4>2, <4>4 DEF EnginePlans
      <4>5. CASE EngineWorks(p)
        BY <4>2, <4>5 DEF EngineWorks
      <4> QED BY <3>6, <4>3, <4>4, <4>5
    <3> QED BY <3>3, <3>4, <3>5, <3>7
  <2> QED BY <2>1, <2>3, <2>4, <2>5, <2>6, <2>7, <2>8 DEF Command
<1>3. CASE UNCHANGED vars
  BY <1>1, <1>3 DEF vars
<1> QED BY <1>2, <1>3

(* A success that is stored is undone only by another process that never   *)
(* saw it: neither by a late signal nor by a resume (cli.go runCommand,    *)
(* resumeCommand, isTerminalStatus).                                       *)
THEOREM SuccessesStand == Spec => SuccessStands
<1>1. IInv /\ [Next]_vars => [Stands]_vars
  BY NextStands
<1> QED BY <1>1, Invariance, PTL DEF Spec, SuccessStands, Stands
=============================================================================
