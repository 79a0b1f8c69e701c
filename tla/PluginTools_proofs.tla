------------------------ MODULE PluginTools_proofs -------------------------
(***************************************************************************)
(* Proofs about PluginTools for any number of callers, administrators,     *)
(* names and processes: no plugin process is orphaned, and what is tracked *)
(* works or is dead.                                                       *)
(***************************************************************************)
EXTENDS PluginTools, TLAPS

-----------------------------------------------------------------------------
(* The inductive invariant.                                                *)
Shutting == {"shutQueued", "shutAwait", "hangup", "exiting"}
InClose == {"close", "closed"} \cup Shutting
Executing == {"lookup", "enter", "queued", "await", "answered", "failed", "mark", "health"}

Pcs == {"idle", "reload", "loading", "track", "closeNext"} \cup Executing \cup InClose
Ops == {"none", "execute", "load", "reload", "closeAll"}
Reasons == {"none", "refused", "swap", "undo", "all"}

Reply == [id : Nat, kind : {"none", "ok", "error"}]
Tool == [proc : {"none", "up", "gone"}, name : Names \cup {NoOne}, closed : BOOLEAN,
         stdin : BOOLEAN, rpc : Actors \cup {NoOne}, id : Nat, out : Reply]
Manager == [mu : Actors \cup {NoOne}, tracked : [Names -> Tools \cup {NoTool}],
            failures : [Names -> Nat], unavailable : [Names -> BOOLEAN]]
Activity == [pc : Pcs, op : Ops, name : Names \cup {NoOne}, k : Tools \cup {NoTool},
             new : Tools \cup {NoTool}, try : 0 .. 2, why : Reasons, ok : BOOLEAN,
             rest : SUBSET Tools, request : Nat]

TypeOK ==
  /\ tool \in [Tools -> Tool]
  /\ mgr \in Manager
  /\ act \in [Actors -> Activity]
  /\ left \in Nat /\ replaced \subseteq Tools /\ crashed \in BOOLEAN

(* What an operation is, and has in its hands, at each point.              *)
Phase(a) ==
  /\ act[a].pc \in InClose <=> act[a].why # "none"
  /\ act[a].pc \in InClose \cup {"enter", "queued", "await", "failed", "health"} => act[a].k # NoTool
  /\ act[a].new # NoTool <=> act[a].pc = "track" \/ act[a].why \in {"swap", "undo"}
  /\ act[a].why = "undo" => act[a].k = act[a].new
  /\ act[a].why \in {"swap", "undo", "refused"} \/ act[a].pc = "loading"
       => act[a].op \in {"execute", "load", "reload"}
  /\ act[a].why \in {"swap", "undo"} => act[a].op # "load"
  /\ act[a].why = "all" \/ act[a].rest # {} => act[a].op = "closeAll"
  /\ act[a].op = "closeAll" => act[a].pc = "closeNext" \/ act[a].why = "all"
  /\ act[a].op \in {"execute", "reload"} => act[a].name \in Names
  /\ act[a].pc = "reload" => act[a].op \in {"execute", "reload"}
  /\ act[a].pc \in Executing => act[a].op = "execute"
  /\ act[a].pc \in Shutting => act[a].ok

(* How that stands to the tools and to the manager.                        *)
Reloading(a) == (act[a].pc = "loading" /\ act[a].op # "load") \/ act[a].why = "swap"
Footing(a) ==
  /\ act[a].k # NoTool => tool[act[a].k].proc # "none"
  /\ act[a].pc \in Shutting \cup {"closed"} => tool[act[a].k].closed
  /\ act[a].new # NoTool /\ act[a].why # "undo" => tool[act[a].new].stdin
  /\ Reloading(a) => mgr.mu = a /\ mgr.tracked[act[a].name] = act[a].k /\ act[a].k # NoTool

(* A tool that is tracked has been started, and has the name it goes by.   *)
InService ==
  \A n \in Names : mgr.tracked[n] # NoTool =>
    /\ tool[mgr.tracked[n]].proc # "none" /\ tool[mgr.tracked[n]].name = n
    /\ ~tool[mgr.tracked[n]].stdin =>
         \E a \in Actors : /\ mgr.mu = a /\ act[a].why = "swap" /\ act[a].k = mgr.tracked[n]
                           /\ act[a].pc \in {"exiting", "closed"} /\ act[a].ok

(* A tool that is not tracked is in the hands of one operation.            *)
Owned(a) ==
  act[a].rest \cup ({act[a].new} \ {NoTool})
    \cup (IF act[a].why \in {"refused", "undo", "all"} THEN {act[a].k} ELSE {})
Owners ==
  /\ \A a \in Actors : \A k \in Owned(a) :
       tool[k].proc # "none" /\ \A n \in Names : mgr.tracked[n] # k
  /\ \A a, b \in Actors : \A k \in Owned(a) : k \in Owned(b) => a = b

(* A broken tool has no process, but while it is being shut down.          *)
Broken ==
  \A k \in Tools :
    /\ IF tool[k].proc = "none" THEN tool[k].stdin /\ ~tool[k].closed ELSE tool[k].name \in Names
    /\ tool[k].proc = "up" /\ tool[k].closed =>
         \E a \in Actors : act[a].pc \in Shutting /\ act[a].k = k

IInv ==
  /\ TypeOK /\ (\A a \in Actors : Phase(a) /\ Footing(a))
  /\ InService /\ Owners /\ Broken /\ NoOrphan

-----------------------------------------------------------------------------
(* Types.                                                                  *)
LEMMA Numbers ==
  /\ NoTool \notin Tools /\ NoTool = 0 /\ Tools \subseteq Nat
  /\ NoOne \notin Actors /\ Callers \subseteq Actors /\ Admins \subseteq Actors
  /\ 0 \in 0 .. 2 /\ 1 \in 0 .. 2 /\ 2 \in 0 .. 2
BY ActorsAssumption, BoundsAssumption DEF NoTool, Tools, Actors

LEMMA Points ==
  /\ Shutting \subseteq InClose /\ InClose \subseteq Pcs /\ Executing \subseteq Pcs
  /\ {"idle", "reload", "loading", "track", "closeNext"} \subseteq Pcs
  /\ {"close", "closed"} \subseteq InClose
  /\ {"shutQueued", "shutAwait", "hangup", "exiting"} \subseteq Shutting
  /\ {"lookup", "enter", "queued", "await", "answered", "failed", "mark", "health"} \subseteq Executing
  /\ {"none", "execute", "load", "reload", "closeAll"} \subseteq Ops
  /\ {"none", "refused", "swap", "undo", "all"} \subseteq Reasons
  /\ InClose \cap Executing = {}
  /\ InClose \cap {"idle", "reload", "loading", "track", "closeNext"} = {}
  /\ Executing \cap {"idle", "reload", "loading", "track", "closeNext"} = {}
BY DEF Shutting, InClose, Executing, Pcs, Ops, Reasons

LEMMA ActType ==
  ASSUME TypeOK, NEW a \in Actors
  PROVE  /\ act[a] \in Activity
         /\ act[a].pc \in Pcs /\ act[a].op \in Ops /\ act[a].why \in Reasons
         /\ act[a].name \in Names \cup {NoOne} /\ act[a].k \in Tools \cup {NoTool}
         /\ act[a].new \in Tools \cup {NoTool} /\ act[a].rest \in SUBSET Tools
         /\ act[a].try \in 0 .. 2 /\ act[a].ok \in BOOLEAN /\ act[a].request \in Nat
BY DEF TypeOK, Activity

LEMMA ToolType ==
  ASSUME TypeOK, NEW k \in Tools
  PROVE  /\ tool[k] \in Tool
         /\ tool[k].proc \in {"none", "up", "gone"} /\ tool[k].name \in Names \cup {NoOne}
         /\ tool[k].closed \in BOOLEAN /\ tool[k].stdin \in BOOLEAN
         /\ tool[k].rpc \in Actors \cup {NoOne} /\ tool[k].id \in Nat /\ tool[k].out \in Reply
BY DEF TypeOK, Tool

LEMMA MgrType ==
  ASSUME TypeOK
  PROVE  /\ mgr \in Manager /\ mgr.mu \in Actors \cup {NoOne}
         /\ mgr.tracked \in [Names -> Tools \cup {NoTool}]
         /\ mgr.failures \in [Names -> Nat] /\ mgr.unavailable \in [Names -> BOOLEAN]
BY DEF TypeOK, Manager

LEMMA ActChanges ==
  ASSUME TypeOK, NEW a \in Actors, NEW v \in Activity, act' = [act EXCEPT ![a] = v]
  PROVE  /\ act' \in [Actors -> Activity] /\ act'[a] = v
         /\ \A b \in Actors \ {a} : act'[b] = act[b]
BY DEF TypeOK

LEMMA ToolChanges ==
  ASSUME TypeOK, NEW k \in Tools, NEW v \in Tool, tool' = [tool EXCEPT ![k] = v]
  PROVE  /\ tool' \in [Tools -> Tool] /\ tool'[k] = v
         /\ \A j \in Tools \ {k} : tool'[j] = tool[j]
BY DEF TypeOK

LEMMA IdleType == Idle \in Activity
BY Numbers, Points DEF Idle, Activity

LEMMA KilledType ==
  ASSUME TypeOK, NEW k \in Tools
  PROVE  /\ Killed(tool[k]) \in Tool
         /\ Killed(tool[k]).proc = "gone" /\ Killed(tool[k]).closed
         /\ Killed(tool[k]).name = tool[k].name /\ Killed(tool[k]).stdin = tool[k].stdin
BY ToolType DEF Killed, Tool, Reply, NoReply

-----------------------------------------------------------------------------
(* What a step leaves as it is.                                            *)

(* A tool keeps its name and its input, breaks for good, and breaks only   *)
(* when its process goes.                                                  *)
Aged(k) ==
  /\ tool'[k].name = tool[k].name /\ tool'[k].stdin = tool[k].stdin
  /\ tool'[k].proc = tool[k].proc \/ (tool[k].proc = "up" /\ tool'[k].proc = "gone")
  /\ tool[k].closed => tool'[k].closed
  /\ tool'[k].closed => tool[k].closed \/ tool'[k].proc = "gone"

LEMMA SameTool ==
  ASSUME NEW k \in Tools, tool'[k] = tool[k]
  PROVE  Aged(k)
BY DEF Aged

LEMMA PhaseFrame ==
  ASSUME NEW b \in Actors, Phase(b), act'[b] = act[b]
  PROVE  Phase(b)'
BY DEF Phase

LEMMA FootingFrame ==
  ASSUME TypeOK, NEW b \in Actors, Phase(b), Footing(b), act'[b] = act[b],
         \A k \in Tools : /\ tool[k].proc # "none" => tool'[k].proc # "none"
                          /\ tool[k].closed => tool'[k].closed,
         act[b].new # NoTool => tool'[act[b].new].stdin = tool[act[b].new].stdin,
         Reloading(b) => /\ mgr'.mu = mgr.mu
                         /\ mgr'.tracked[act[b].name] = mgr.tracked[act[b].name]
  PROVE  Footing(b)'
<1>0. /\ act[b].k \in Tools \cup {NoTool}
      /\ act[b].pc \in Shutting \cup {"closed"} => act[b].k \in Tools
  BY ActType, Points DEF Phase
<1>1. act'[b].k # NoTool => tool'[act'[b].k].proc # "none"
  BY <1>0, ActType DEF Footing
<1>2. act'[b].pc \in Shutting \cup {"closed"} => tool'[act'[b].k].closed
  BY <1>0 DEF Footing
<1>3. act'[b].new # NoTool /\ act'[b].why # "undo" => tool'[act'[b].new].stdin
  BY DEF Footing
<1>4. Reloading(b)' = Reloading(b)
  BY DEF Reloading
<1>5. Reloading(b) => mgr'.mu = b /\ mgr'.tracked[act'[b].name] = act'[b].k /\ act'[b].k # NoTool
  BY DEF Footing
<1> QED BY <1>1, <1>2, <1>3, <1>4, <1>5 DEF Footing

(* Of an operation that has a reason to close the tool in its hands ...    *)
LEMMA CloserFacts ==
  ASSUME IInv, NEW a \in Actors, act[a].why # "none"
  PROVE  /\ act[a].pc \in InClose /\ act[a].k \in Tools /\ tool[act[a].k].proc # "none"
         /\ \/ act[a].why = "swap" /\ mgr.mu = a /\ act[a].name \in Names
                 /\ mgr.tracked[act[a].name] = act[a].k
            \/ act[a].why # "swap" /\ act[a].k \in Owned(a)
                 /\ \A n \in Names : mgr.tracked[n] # act[a].k
<1>0. TypeOK /\ Phase(a) /\ Footing(a) /\ Owners
  BY DEF IInv
<1>1. act[a].pc \in InClose /\ act[a].k \in Tools /\ tool[act[a].k].proc # "none"
  BY <1>0, ActType DEF Phase, Footing
<1>2. CASE act[a].why = "swap"
  <2>1. act[a].op \in {"execute", "reload"} /\ act[a].name \in Names
    BY <1>0, <1>2 DEF Phase
  <2> QED BY <1>0, <1>1, <1>2, <2>1 DEF Footing, Reloading
<1>3. CASE act[a].why # "swap"
  <2>1. act[a].why \in {"refused", "undo", "all"}
    BY <1>0, <1>3, ActType DEF Reasons
  <2>2. act[a].k \in Owned(a)
    BY <2>1 DEF Owned
  <2> QED BY <1>0, <1>1, <1>3, <2>2 DEF Owners
<1> QED BY <1>1, <1>2, <1>3

(* ... and of one that has none.                                           *)
LEMMA EmptyFacts ==
  ASSUME NEW a \in Actors, act[a].why = "none", act[a].new = NoTool, act[a].rest = {}
  PROVE  Owned(a) = {} /\ \A k \in Tools : ~Holds(a, k)
BY Numbers DEF Owned, Holds

LEMMA NotClosing ==
  ASSUME NEW a \in Actors, Phase(a), act[a].why = "none"
  PROVE  act[a].pc \notin InClose /\ act[a].pc \notin Shutting /\ act[a].pc # "closed"
BY Points DEF Phase

(* Steps of an operation that closes nothing and owns nothing.             *)
LEMMA EmptyHanded ==
  ASSUME IInv, TypeOK', NEW a \in Actors,
         \A b \in Actors \ {a} : act'[b] = act[b],
         act[a].why = "none" /\ act[a].new = NoTool /\ act[a].rest = {},
         act'[a].why = "none" /\ act'[a].new = NoTool /\ act'[a].rest = {},
         \A k \in Tools : Aged(k),
         mgr'.tracked = mgr.tracked, mgr'.mu = mgr.mu \/ mgr.mu \in {NoOne, a},
         replaced' = replaced, Phase(a)', Footing(a)'
  PROVE  IInv'
<1>0. /\ TypeOK /\ (\A b \in Actors : Phase(b) /\ Footing(b))
      /\ InService /\ Owners /\ Broken /\ NoOrphan
  BY DEF IInv
<1>1. ASSUME NEW b \in Actors PROVE Phase(b)' /\ Footing(b)'
  <2>1. CASE b = a
    BY <2>1
  <2>2. CASE b # a
    <3>1. Reloading(b) => mgr'.mu = mgr.mu
      BY <1>0, <2>2, Numbers DEF Footing
    <3>2. act[b].new # NoTool => act[b].new \in Tools
      BY <1>0, ActType
    <3> QED BY <1>0, <2>2, <3>1, <3>2, PhaseFrame, FootingFrame DEF Aged
  <2> QED BY <2>1, <2>2
<1>2. \A b \in Actors : Owned(b)' = Owned(b) /\ \A k \in Tools : Holds(b, k)' = Holds(b, k)
  <2>1. Owned(a)' = Owned(a)
    BY Numbers DEF Owned
  <2>2. \A k \in Tools : Holds(a, k)' = Holds(a, k)
    BY Numbers DEF Holds
  <2>3. ASSUME NEW b \in Actors \ {a}
        PROVE  Owned(b)' = Owned(b) /\ \A k \in Tools : Holds(b, k)' = Holds(b, k)
    BY <2>3 DEF Owned, Holds
  <2> QED BY <2>1, <2>2, <2>3
<1>3. InService'
  <2> SUFFICES ASSUME NEW n \in Names, mgr.tracked[n] # NoTool
               PROVE  /\ tool'[mgr.tracked[n]].proc # "none" /\ tool'[mgr.tracked[n]].name = n
                      /\ ~tool'[mgr.tracked[n]].stdin =>
                           \E b \in Actors : /\ mgr'.mu = b /\ act'[b].why = "swap"
                                             /\ act'[b].k = mgr.tracked[n]
                                             /\ act'[b].pc \in {"exiting", "closed"} /\ act'[b].ok
    BY DEF InService
  <2>1. mgr.tracked[n] \in Tools
    BY <1>0, MgrType
  <2>2. tool'[mgr.tracked[n]].proc # "none" /\ tool'[mgr.tracked[n]].name = n
    BY <1>0, <2>1 DEF InService, Aged
  <2>3. ASSUME ~tool'[mgr.tracked[n]].stdin
        PROVE  \E b \in Actors : /\ mgr'.mu = b /\ act'[b].why = "swap"
                                 /\ act'[b].k = mgr.tracked[n]
                                 /\ act'[b].pc \in {"exiting", "closed"} /\ act'[b].ok
    <3>1. ~tool[mgr.tracked[n]].stdin
      BY <2>1, <2>3 DEF Aged
    <3>2. PICK b \in Actors : /\ mgr.mu = b /\ act[b].why = "swap" /\ act[b].k = mgr.tracked[n]
                              /\ act[b].pc \in {"exiting", "closed"} /\ act[b].ok
      BY <1>0, <3>1 DEF InService
    <3>3. b # a /\ mgr'.mu = b
      BY <3>2, Numbers
    <3> QED BY <3>2, <3>3
  <2> QED BY <2>2, <2>3
<1>4. Owners'
  <2>1. ASSUME NEW b \in Actors, NEW k \in Owned(b)
        PROVE  tool'[k].proc # "none"
    <3>1. k \in Tools /\ tool[k].proc # "none"
      <4>1. act[b].why \in {"refused", "undo", "all"} => act[b].k \in Tools
        BY CloserFacts
      <4>2. k \in Tools
        BY <1>0, <4>1, ActType DEF Owned
      <4> QED BY <1>0, <4>2 DEF Owners
    <3> QED BY <3>1 DEF Aged
  <2> QED BY <1>0, <1>2, <2>1 DEF Owners
<1>5. Broken'
  <2> SUFFICES ASSUME NEW k \in Tools
               PROVE  /\ IF tool'[k].proc = "none" THEN tool'[k].stdin /\ ~tool'[k].closed
                                                   ELSE tool'[k].name \in Names
                      /\ tool'[k].proc = "up" /\ tool'[k].closed =>
                           \E b \in Actors : act'[b].pc \in Shutting /\ act'[b].k = k
    BY DEF Broken
  <2>1. Aged(k)
    OBVIOUS
  <2>2. IF tool'[k].proc = "none" THEN tool'[k].stdin /\ ~tool'[k].closed ELSE tool'[k].name \in Names
    BY <1>0, <2>1 DEF Broken, Aged
  <2>3. ASSUME tool'[k].proc = "up", tool'[k].closed
        PROVE  \E b \in Actors : act'[b].pc \in Shutting /\ act'[b].k = k
    <3>1. tool[k].proc = "up" /\ tool[k].closed
      BY <2>1, <2>3 DEF Aged
    <3>2. PICK b \in Actors : act[b].pc \in Shutting /\ act[b].k = k
      BY <1>0, <3>1 DEF Broken
    <3>3. b # a
      BY <1>0, <3>2, NotClosing
    <3> QED BY <3>2, <3>3
  <2> QED BY <2>2, <2>3
<1>6. NoOrphan'
  <2> SUFFICES ASSUME NEW k \in Tools, tool'[k].proc = "up"
               PROVE  \/ \E n \in Names : mgr.tracked[n] = k
                      \/ \E b \in Actors : Holds(b, k)'
                      \/ k \in replaced
    BY DEF NoOrphan
  <2>1. tool[k].proc = "up"
    BY DEF Aged
  <2> QED BY <1>0, <1>2, <2>1 DEF NoOrphan
<1> QED BY <1>1, <1>3, <1>4, <1>5, <1>6 DEF IInv

(* Steps of the plugin processes, and steps that change nothing here.      *)
LEMMA NobodyActs ==
  ASSUME IInv, TypeOK', act' = act, mgr' = mgr, replaced' = replaced, \A k \in Tools : Aged(k)
  PROVE  IInv'
<1>0. /\ TypeOK /\ (\A b \in Actors : Phase(b) /\ Footing(b))
      /\ InService /\ Owners /\ Broken /\ NoOrphan
  BY DEF IInv
<1>1. ASSUME NEW b \in Actors PROVE Phase(b)' /\ Footing(b)'
  <2>2. act[b].new # NoTool => act[b].new \in Tools
    BY <1>0, ActType
  <2> QED BY <1>0, <2>2, PhaseFrame, FootingFrame DEF Aged
<1>2. \A b \in Actors : Owned(b)' = Owned(b) /\ \A k \in Tools : Holds(b, k)' = Holds(b, k)
  BY DEF Owned, Holds
<1>3. InService'
  <2>1. \A n \in Names : mgr.tracked[n] # NoTool => mgr.tracked[n] \in Tools
    BY <1>0, MgrType
  <2> QED BY <1>0, <2>1 DEF InService, Aged
<1>4. Owners'
  <2>1. ASSUME NEW b \in Actors, NEW k \in Owned(b)
        PROVE  tool'[k].proc # "none"
    <3>1. act[b].why \in {"refused", "undo", "all"} => act[b].k \in Tools
      BY CloserFacts
    <3>2. k \in Tools
      BY <1>0, <3>1, ActType DEF Owned
    <3> QED BY <1>0, <3>2 DEF Owners, Aged
  <2> QED BY <1>0, <1>2, <2>1 DEF Owners
<1>5. Broken'
  BY <1>0 DEF Broken, Aged
<1>6. NoOrphan'
  BY <1>0, <1>2 DEF NoOrphan, Aged
<1> QED BY <1>1, <1>3, <1>4, <1>5, <1>6 DEF IInv

(* Steps of an operation that is closing the tool in its hands.            *)
LEMMA CloseStep ==
  ASSUME IInv, TypeOK', NEW a \in Actors,
         \A b \in Actors \ {a} : act'[b] = act[b],
         act[a].why # "none",
         act'[a].op = act[a].op /\ act'[a].name = act[a].name /\ act'[a].k = act[a].k
           /\ act'[a].new = act[a].new /\ act'[a].why = act[a].why /\ act'[a].rest = act[a].rest,
         act'[a].pc \in Shutting \cup {"closed"}, act'[a].pc \in Shutting => act'[a].ok,
         act[a].pc # "closed",
         act[a].pc = "exiting" => act'[a].pc = "closed" /\ act'[a].ok = act[a].ok,
         \A j \in Tools \ {act[a].k} : tool'[j] = tool[j],
         tool'[act[a].k].name = tool[act[a].k].name,
         \/ tool'[act[a].k].proc = tool[act[a].k].proc
         \/ tool[act[a].k].proc = "up" /\ tool'[act[a].k].proc = "gone",
         \/ tool'[act[a].k].stdin = tool[act[a].k].stdin
         \/ act'[a].pc = "exiting" /\ act'[a].ok,
         tool'[act[a].k].closed,
         act'[a].pc = "closed" =>
           \/ tool'[act[a].k].proc # "up"
           \/ act[a].pc = "close" /\ tool[act[a].k].closed /\ tool[act[a].k].proc = "up",
         mgr' = mgr, replaced' = replaced
  PROVE  IInv'
<1>0. /\ TypeOK /\ (\A b \in Actors : Phase(b) /\ Footing(b))
      /\ InService /\ Owners /\ Broken /\ NoOrphan
  BY DEF IInv
<1>k. PICK k \in Tools : k = act[a].k
  BY CloserFacts
<1>f. /\ act[a].pc \in InClose /\ tool[k].proc # "none"
      /\ \/ act[a].why = "swap" /\ mgr.mu = a /\ act[a].name \in Names
              /\ mgr.tracked[act[a].name] = k
         \/ act[a].why # "swap" /\ k \in Owned(a) /\ \A n \in Names : mgr.tracked[n] # k
  BY <1>k, CloserFacts
<1>p. /\ act'[a].pc \in InClose
      /\ act'[a].pc \notin Executing /\ act'[a].pc \notin {"reload", "loading", "track", "closeNext"}
      /\ act[a].pc \notin Executing /\ act[a].pc \notin {"reload", "loading", "track", "closeNext"}
  BY <1>f, Points
<1>o. /\ \A b \in Actors : Owned(b)' = Owned(b)
      /\ \A b \in Actors : \A j \in Tools : Holds(b, j)' = Holds(b, j)
  <2>1. /\ Owned(a)' = Owned(a)
        /\ \A j \in Tools : Holds(a, j)' = Holds(a, j)
    <3>1. act[a].pc # "idle" /\ act'[a].pc # "idle"
      BY <1>f, <1>p, Points
    <3> QED BY <3>1 DEF Owned, Holds
  <2>2. ASSUME NEW b \in Actors \ {a}
        PROVE  Owned(b)' = Owned(b) /\ \A j \in Tools : Holds(b, j)' = Holds(b, j)
    BY DEF Owned, Holds
  <2> QED BY <2>1, <2>2
<1>t. \A j \in Tools : /\ tool[j].proc # "none" => tool'[j].proc # "none"
                       /\ tool'[j].name = tool[j].name
                       /\ tool[j].closed => tool'[j].closed
  <2> TAKE j \in Tools
  <2>1. CASE j = k BY <2>1, <1>k
  <2>2. CASE j # k BY <2>2, <1>k
  <2> QED BY <2>1, <2>2
<1>1. ASSUME NEW b \in Actors PROVE Phase(b)' /\ Footing(b)'
  <2>1. CASE b = a
    <3>1. Phase(a)'
      <4>1. Phase(a)
        BY <1>0
      <4> QED BY <4>1, <1>f, <1>p, <1>k, Numbers DEF Phase
    <3>2. act'[a].new # NoTool /\ act'[a].why # "undo" => tool'[act'[a].new].stdin
      <4> SUFFICES ASSUME act[a].new # NoTool, act[a].why # "undo"
                   PROVE  tool'[act[a].new].stdin
        OBVIOUS
      <4>1. act[a].why = "swap" /\ act[a].new \in Owned(a) /\ act[a].new \in Tools
        BY <1>0, <1>p, ActType DEF Phase, Owned
      <4>2. act[a].new # k
        BY <1>f, <4>1, <1>0 DEF Owners
      <4> QED BY <1>0, <1>k, <4>1, <4>2 DEF Footing
    <3>3. Reloading(a)' => mgr'.mu = a /\ mgr'.tracked[act'[a].name] = act'[a].k /\ act'[a].k # NoTool
      BY <1>p, <1>f, <1>k, Numbers DEF Reloading
    <3>4. act'[a].k # NoTool => tool'[act'[a].k].proc # "none"
      BY <1>k, <1>f, <1>t
    <3>5. Footing(a)'
      BY <3>2, <3>3, <3>4 DEF Footing
    <3> QED BY <2>1, <3>1, <3>5
  <2>2. CASE b # a
    <3>1. act[b].new # NoTool => tool'[act[b].new].stdin = tool[act[b].new].stdin
      <4> SUFFICES ASSUME act[b].new # NoTool
                   PROVE  tool'[act[b].new].stdin = tool[act[b].new].stdin
        OBVIOUS
      <4>1. act[b].new \in Tools /\ act[b].new \in Owned(b)
        BY <1>0, ActType DEF Owned
      <4>2. act[b].new # k
        BY <4>1, <1>f, <1>0, <2>2 DEF Owners
      <4> QED BY <4>1, <4>2, <1>k
    <3> QED BY <3>1, <1>0, <1>t, <2>2, PhaseFrame, FootingFrame
  <2> QED BY <2>1, <2>2
<1>3. InService'
  <2> SUFFICES ASSUME NEW n \in Names, mgr.tracked[n] # NoTool
               PROVE  /\ tool'[mgr.tracked[n]].proc # "none" /\ tool'[mgr.tracked[n]].name = n
                      /\ ~tool'[mgr.tracked[n]].stdin =>
                           \E b \in Actors : /\ mgr.mu = b /\ act'[b].why = "swap"
                                             /\ act'[b].k = mgr.tracked[n]
                                             /\ act'[b].pc \in {"exiting", "closed"} /\ act'[b].ok
    BY DEF InService
  <2>1. mgr.tracked[n] \in Tools
    BY <1>0, MgrType
  <2>2. tool'[mgr.tracked[n]].proc # "none" /\ tool'[mgr.tracked[n]].name = n
    BY <1>0, <1>t, <2>1 DEF InService
  <2>3. ASSUME ~tool'[mgr.tracked[n]].stdin
        PROVE  \E b \in Actors : /\ mgr.mu = b /\ act'[b].why = "swap"
                                 /\ act'[b].k = mgr.tracked[n]
                                 /\ act'[b].pc \in {"exiting", "closed"} /\ act'[b].ok
    <3>1. CASE ~tool[mgr.tracked[n]].stdin
      <4>1. PICK b \in Actors : /\ mgr.mu = b /\ act[b].why = "swap" /\ act[b].k = mgr.tracked[n]
                                /\ act[b].pc \in {"exiting", "closed"} /\ act[b].ok
        BY <1>0, <3>1 DEF InService
      <4>2. CASE b # a
        BY <4>1, <4>2
      <4>3. CASE b = a
        BY <4>1, <4>3
      <4> QED BY <4>2, <4>3
    <3>2. CASE tool[mgr.tracked[n]].stdin
      <4>1. mgr.tracked[n] = k /\ act'[a].pc = "exiting" /\ act'[a].ok
        BY <2>1, <2>3, <3>2, <1>k
      <4>2. act[a].why = "swap" /\ mgr.mu = a
        BY <4>1, <1>f
      <4> QED BY <4>1, <4>2, <1>k
    <3> QED BY <3>1, <3>2
  <2> QED BY <2>2, <2>3
<1>4. Owners'
  <2>1. ASSUME NEW b \in Actors, NEW j \in Owned(b)
        PROVE  tool'[j].proc # "none"
    <3>1. act[b].why \in {"refused", "undo", "all"} => act[b].k \in Tools
      BY CloserFacts
    <3>2. j \in Tools
      BY <1>0, <3>1, ActType DEF Owned
    <3> QED BY <1>0, <1>t, <3>2 DEF Owners
  <2> QED BY <1>0, <1>o, <2>1 DEF Owners
<1>5. Broken'
  <2> SUFFICES ASSUME NEW j \in Tools
               PROVE  /\ IF tool'[j].proc = "none" THEN tool'[j].stdin /\ ~tool'[j].closed
                                                   ELSE tool'[j].name \in Names
                      /\ tool'[j].proc = "up" /\ tool'[j].closed =>
                           \E b \in Actors : act'[b].pc \in Shutting /\ act'[b].k = j
    BY DEF Broken
  <2>1. IF tool'[j].proc = "none" THEN tool'[j].stdin /\ ~tool'[j].closed ELSE tool'[j].name \in Names
    <3>1. CASE j = k
      BY <3>1, <1>0, <1>f, <1>t DEF Broken
    <3>2. CASE j # k
      BY <3>2, <1>0, <1>k DEF Broken
    <3> QED BY <3>1, <3>2
  <2>2. ASSUME tool'[j].proc = "up", tool'[j].closed
        PROVE  \E b \in Actors : act'[b].pc \in Shutting /\ act'[b].k = j
    <3>1. CASE j = k /\ act'[a].pc \in Shutting
      BY <3>1, <1>k
    <3>2. CASE j # k \/ act'[a].pc \notin Shutting
      <4>1. /\ tool[j].proc = "up" /\ tool[j].closed
            /\ j # k \/ act[a].pc = "close"
        BY <3>2, <2>2, <1>k
      <4>2. PICK b \in Actors : act[b].pc \in Shutting /\ act[b].k = j
        BY <1>0, <4>1 DEF Broken
      <4>3. b # a
        BY <4>1, <4>2, <1>k DEF Shutting
      <4> QED BY <4>2, <4>3
    <3> QED BY <3>1, <3>2
  <2> QED BY <2>1, <2>2
<1>6. NoOrphan'
  <2>1. \A j \in Tools : tool'[j].proc = "up" => tool[j].proc = "up"
    BY <1>k
  <2> QED BY <2>1, <1>0, <1>o DEF NoOrphan
<1> QED BY <1>1, <1>3, <1>4, <1>5, <1>6 DEF IInv

-----------------------------------------------------------------------------
(* Operations that have nothing to close.                                  *)
Light == Executing \cup {"idle", "reload", "loading"}

LEMMA LightFacts ==
  ASSUME IInv, NEW a \in Actors, act[a].pc \in Light
  PROVE  /\ act[a].why = "none" /\ act[a].new = NoTool /\ act[a].rest = {}
         /\ act[a].k # NoTool => act[a].k \in Tools /\ tool[act[a].k].proc # "none"
         /\ act[a].op \in {"execute", "reload"} => act[a].name \in Names
<1>0. TypeOK /\ Phase(a) /\ Footing(a)
  BY DEF IInv
<1>1. act[a].pc \notin InClose /\ act[a].pc # "track" /\ act[a].pc # "closeNext"
  BY Points DEF Light
<1>2. act[a].k # NoTool => act[a].k \in Tools /\ tool[act[a].k].proc # "none"
  BY <1>0, ActType DEF Footing
<1> QED BY <1>0, <1>1, <1>2 DEF Phase

LEMMA LightStep ==
  ASSUME IInv, TypeOK', NEW a \in Actors,
         \A b \in Actors \ {a} : act'[b] = act[b],
         act[a].pc \in Light, act'[a].pc \in Light,
         act'[a].why = "none" /\ act'[a].new = NoTool /\ act'[a].rest = {},
         act'[a].pc \in {"enter", "queued", "await", "failed", "health"} => act'[a].k # NoTool,
         act'[a].pc \in Executing => act'[a].op = "execute",
         act'[a].pc = "reload" => act'[a].op \in {"execute", "reload"},
         act'[a].pc = "loading" => act'[a].op \in {"execute", "load", "reload"},
         act'[a].pc = "idle" => act'[a].op = "none",
         act'[a].op \in {"execute", "reload"} => act'[a].name \in Names,
         act'[a].k # NoTool => tool'[act'[a].k].proc # "none",
         act'[a].pc = "loading" /\ act'[a].op # "load" =>
           mgr'.mu = a /\ mgr'.tracked[act'[a].name] = act'[a].k /\ act'[a].k # NoTool,
         \A k \in Tools : Aged(k),
         mgr'.tracked = mgr.tracked, mgr'.mu = mgr.mu \/ mgr.mu \in {NoOne, a},
         replaced' = replaced
  PROVE  IInv'
<1>1. act[a].why = "none" /\ act[a].new = NoTool /\ act[a].rest = {}
  BY LightFacts
<1>2. act'[a].pc \notin InClose /\ act'[a].pc # "track" /\ act'[a].pc # "closeNext"
      /\ act'[a].pc \notin Shutting \cup {"closed"}
  BY Points DEF Light
<1>3. act'[a].op # "closeAll"
  BY Points DEF Light
<1>4. Phase(a)'
  BY <1>2, <1>3, Points DEF Phase
<1>5. Footing(a)'
  BY <1>2 DEF Footing, Reloading
<1> QED BY <1>1, <1>4, <1>5, EmptyHanded

LEMMA ReturnStep ==
  ASSUME IInv, NEW a \in Actors, act[a].pc \in Light, Return(a),
         tool' = tool, mgr' \in Manager, left' = left, crashed' \in BOOLEAN,
         mgr'.tracked = mgr.tracked, mgr'.mu = mgr.mu \/ mgr.mu \in {NoOne, a},
         replaced' = replaced
  PROVE  IInv'
<1>0. TypeOK
  BY DEF IInv
<1>1. /\ act' \in [Actors -> Activity] /\ act'[a] = Idle
      /\ \A b \in Actors \ {a} : act'[b] = act[b]
  BY <1>0, IdleType, ActChanges DEF Return
<1>2. TypeOK'
  BY <1>0, <1>1 DEF TypeOK
<1>3. \A k \in Tools : Aged(k)
  BY SameTool
<1>4. /\ Idle.why = "none" /\ Idle.new = NoTool /\ Idle.rest = {} /\ Idle.k = NoTool
      /\ Idle.pc = "idle" /\ Idle.op = "none"
  BY DEF Idle
<1>5. "idle" \in Light /\ "idle" \notin Executing
  BY Points DEF Light
<1> QED BY <1>1, <1>2, <1>3, <1>4, <1>5, LightStep

(* v is what becomes of an operation that was light and stays light.       *)
LEMMA MoveStep ==
  ASSUME IInv, NEW a \in Actors, NEW v \in Activity, act' = [act EXCEPT ![a] = v],
         act[a].pc \in Light, v.pc \in Light \ {"idle"},
         v.why = "none" /\ v.new = NoTool /\ v.rest = {},
         v.pc \in {"enter", "queued", "await", "failed", "health"} => v.k # NoTool,
         v.pc \in Executing => v.op = "execute",
         v.pc = "reload" => v.op \in {"execute", "reload"},
         v.pc = "loading" => v.op \in {"execute", "load", "reload"},
         v.op \in {"execute", "reload"} => v.name \in Names,
         v.k # NoTool => tool[v.k].proc # "none",
         v.pc = "loading" /\ v.op # "load" =>
           mgr'.mu = a /\ mgr'.tracked[v.name] = v.k /\ v.k # NoTool,
         tool' \in [Tools -> Tool], \A k \in Tools : Aged(k),
         mgr' \in Manager, left' \in Nat, crashed' \in BOOLEAN,
         mgr'.tracked = mgr.tracked, mgr'.mu = mgr.mu \/ mgr.mu \in {NoOne, a},
         replaced' = replaced
  PROVE  IInv'
<1>0. TypeOK
  BY DEF IInv
<1>1. /\ act' \in [Actors -> Activity] /\ act'[a] = v
      /\ \A b \in Actors \ {a} : act'[b] = act[b]
  BY <1>0, ActChanges
<1>2. TypeOK'
  BY <1>0, <1>1 DEF TypeOK
<1>3. v.k # NoTool => tool'[v.k].proc # "none"
  BY DEF Aged, Activity
<1> QED BY <1>1, <1>2, <1>3, LightStep

LEMMA CallSteps ==
  ASSUME IInv, NEW a \in Actors, Load(a) \/ \E n \in Names : Call(a, n) \/ AskReload(a, n)
  PROVE  IInv'
<1>0. TypeOK /\ "idle" \in Light /\ act[a].pc = "idle" /\ Actors # {}
  BY Points DEF IInv, Light, Load, Call, AskReload, At
<1>1. UNCHANGED <<tool, mgr, replaced, crashed>> /\ left' = left - 1 /\ left > 0
  BY DEF Load, Call, AskReload
<1>2. /\ left' \in Nat /\ mgr' \in Manager /\ tool' \in [Tools -> Tool] /\ crashed' \in BOOLEAN
      /\ \A k \in Tools : Aged(k)
  BY <1>0, <1>1, SameTool DEF TypeOK
<1>3. CASE Load(a)
  <2> DEFINE v == [Idle EXCEPT !.pc = "loading", !.op = "load"]
  <2>1. act' = [act EXCEPT ![a] = v]
    BY <1>3 DEF Load
  <2>2. v \in Activity /\ v.pc = "loading" /\ v.op = "load" /\ v.why = "none" /\ v.new = NoTool
        /\ v.rest = {} /\ v.k = NoTool
    BY IdleType, Points DEF Idle, Activity
  <2>3. v.pc \in Light \ {"idle"} /\ v.pc \notin Executing
    BY <2>2, Points DEF Light
  <2> HIDE DEF v
  <2> QED BY <1>0, <1>1, <1>2, <2>1, <2>2, <2>3, MoveStep
<1>4. ASSUME NEW n \in Names, Call(a, n) PROVE IInv'
  <2> DEFINE v == [Idle EXCEPT !.pc = "lookup", !.op = "execute", !.name = n, !.try = 1]
  <2>1. act' = [act EXCEPT ![a] = v]
    BY <1>4 DEF Call
  <2>2. v \in Activity /\ v.pc = "lookup" /\ v.op = "execute" /\ v.why = "none" /\ v.new = NoTool
        /\ v.rest = {} /\ v.k = NoTool /\ v.name = n
    BY IdleType, Points, Numbers DEF Idle, Activity
  <2>3. v.pc \in Light \ {"idle"}
    BY <2>2, Points DEF Light
  <2> HIDE DEF v
  <2> QED BY <1>0, <1>1, <1>2, <2>1, <2>2, <2>3, MoveStep
<1>5. ASSUME NEW n \in Names, AskReload(a, n) PROVE IInv'
  <2> DEFINE v == [Idle EXCEPT !.pc = "reload", !.op = "reload", !.name = n]
  <2>1. act' = [act EXCEPT ![a] = v]
    BY <1>5 DEF AskReload
  <2>2. v \in Activity /\ v.pc = "reload" /\ v.op = "reload" /\ v.why = "none" /\ v.new = NoTool
        /\ v.rest = {} /\ v.k = NoTool /\ v.name = n
    BY IdleType, Points DEF Idle, Activity
  <2>3. v.pc \in Light \ {"idle"} /\ v.pc \notin Executing
    BY <2>2, Points DEF Light
  <2> HIDE DEF v
  <2> QED BY <1>0, <1>1, <1>2, <2>1, <2>2, <2>3, MoveStep
<1> QED BY <1>3, <1>4, <1>5

(* A light operation that only moves on.                                   *)
LEMMA GotoType ==
  ASSUME TypeOK, NEW a \in Actors, NEW p \in Pcs
  PROVE  /\ [act[a] EXCEPT !.pc = p] \in Activity
         /\ [act[a] EXCEPT !.pc = p].pc = p
         /\ [act[a] EXCEPT !.pc = p].op = act[a].op /\ [act[a] EXCEPT !.pc = p].name = act[a].name
         /\ [act[a] EXCEPT !.pc = p].k = act[a].k /\ [act[a] EXCEPT !.pc = p].new = act[a].new
         /\ [act[a] EXCEPT !.pc = p].why = act[a].why /\ [act[a] EXCEPT !.pc = p].rest = act[a].rest
         /\ [act[a] EXCEPT !.pc = p].ok = act[a].ok
BY ActType DEF Activity

LEMMA ExecuteMoves ==
  ASSUME IInv, NEW a \in Actors, NEW p \in Executing, act[a].pc \in Executing,
         act' = [act EXCEPT ![a] = [act[a] EXCEPT !.pc = p]],
         p \in {"enter", "queued", "await", "failed", "health"} => act[a].k # NoTool,
         tool' = tool, mgr' \in Manager, mgr'.tracked = mgr.tracked, mgr'.mu = mgr.mu,
         UNCHANGED <<left, replaced, crashed>>
  PROVE  IInv'
<1> DEFINE v == [act[a] EXCEPT !.pc = p]
<1>0. TypeOK /\ act[a].pc \in Light /\ p \in Light \ {"idle"} /\ p \in Pcs
      /\ p \notin {"reload", "loading"} /\ act[a].op = "execute"
  BY Points DEF IInv, Light, Phase
<1>1. /\ v \in Activity /\ v.pc = p /\ v.op = act[a].op /\ v.name = act[a].name /\ v.k = act[a].k
      /\ v.new = act[a].new /\ v.why = act[a].why /\ v.rest = act[a].rest
  BY <1>0, GotoType
<1>2. left' \in Nat /\ tool' \in [Tools -> Tool] /\ crashed' \in BOOLEAN /\ \A k \in Tools : Aged(k)
  BY <1>0, SameTool DEF TypeOK
<1>3. act' = [act EXCEPT ![a] = v]
  OBVIOUS
<1>4. /\ act[a].why = "none" /\ act[a].new = NoTool /\ act[a].rest = {} /\ act[a].name \in Names
      /\ act[a].k # NoTool => tool[act[a].k].proc # "none"
  BY <1>0, LightFacts
<1> HIDE DEF v
<1>5. v.why = "none" /\ v.new = NoTool /\ v.rest = {} /\ v.name \in Names /\ v.op = "execute"
      /\ (v.k # NoTool => tool[v.k].proc # "none")
  BY <1>0, <1>1, <1>4
<1>6. v.pc \in Light \ {"idle"} /\ v.pc # "reload" /\ v.pc # "loading"
      /\ (v.pc \in {"enter", "queued", "await", "failed", "health"} => v.k # NoTool)
  BY <1>0, <1>1
<1> QED BY <1>0, <1>1, <1>2, <1>3, <1>5, <1>6, MoveStep

LEMMA BookkeepingSteps ==
  ASSUME IInv, NEW a \in Actors, Succeed(a) \/ Count(a) \/ MarkUnavailable(a) \/ Enter(a)
  PROVE  IInv'
<1>0. TypeOK /\ mgr \in Manager /\ act[a].pc \in Executing /\ act[a].pc \in Light
  BY Points DEF IInv, TypeOK, Light, Succeed, Count, MarkUnavailable, Enter, At
<1>n. act[a].name \in Names
  BY <1>0 DEF IInv, Phase
<1>1. CASE Succeed(a)
  <2>1. mgr' = [mgr EXCEPT !.failures[act[a].name] = 0, !.unavailable[act[a].name] = FALSE]
    BY <1>1 DEF Succeed
  <2>2. mgr' \in Manager /\ mgr'.tracked = mgr.tracked /\ mgr'.mu = mgr.mu
    BY <2>1, <1>0, <1>n DEF Manager
  <2> QED BY <1>0, <1>1, <2>2, ReturnStep DEF Succeed, TypeOK
<1>2. CASE Count(a)
  <2>1. mgr' = [mgr EXCEPT !.failures[act[a].name] = @ + 1] /\ UNCHANGED <<tool, left, replaced, crashed>>
    BY <1>2 DEF Count
  <2>2. mgr' \in Manager /\ mgr'.tracked = mgr.tracked /\ mgr'.mu = mgr.mu
    BY <2>1, <1>0, <1>n DEF Manager
  <2>3. CASE Return(a)
    BY <1>0, <2>1, <2>2, <2>3, ReturnStep DEF TypeOK
  <2>4. CASE Goto(a, "mark")
    <3>1. act' = [act EXCEPT ![a] = [act[a] EXCEPT !.pc = "mark"]]
      BY <2>4, <1>0 DEF Goto, TypeOK
    <3>2. "mark" \in Executing /\ "mark" \notin {"enter", "queued", "await", "failed", "health"}
      BY Points
    <3> QED BY <1>0, <2>1, <2>2, <3>1, <3>2, ExecuteMoves
  <2>5. CASE Goto(a, "health")
    <3>1. act' = [act EXCEPT ![a] = [act[a] EXCEPT !.pc = "health"]]
      BY <2>5, <1>0 DEF Goto, TypeOK
    <3>2. "health" \in Executing
      BY Points
    <3>3. act[a].k # NoTool
      BY <1>2 DEF Count, At, IInv, Phase
    <3> QED BY <1>0, <2>1, <2>2, <3>1, <3>2, <3>3, ExecuteMoves
  <2> QED BY <1>2, <2>3, <2>4, <2>5 DEF Count
<1>3. CASE MarkUnavailable(a)
  <2>1. mgr' = [mgr EXCEPT !.unavailable[act[a].name] = TRUE]
    BY <1>3 DEF MarkUnavailable
  <2>2. mgr' \in Manager /\ mgr'.tracked = mgr.tracked /\ mgr'.mu = mgr.mu
    BY <2>1, <1>0, <1>n DEF Manager
  <2> QED BY <1>0, <1>3, <2>2, ReturnStep DEF MarkUnavailable, TypeOK
<1>4. CASE Enter(a)
  <2>1. UNCHANGED <<tool, mgr, left, replaced, crashed>> /\ act[a].k # NoTool
    BY <1>4 DEF Enter, At, IInv, Phase
  <2>2. PICK p \in {"failed", "queued"} : act' = [act EXCEPT ![a] = [act[a] EXCEPT !.pc = p]]
    BY <1>4, <1>0 DEF Enter, Goto, TypeOK
  <2>3. p \in Executing
    BY Points
  <2> QED BY <1>0, <2>1, <2>2, <2>3, ExecuteMoves
<1> QED BY <1>1, <1>2, <1>3, <1>4

LEMMA LookupStep ==
  ASSUME IInv, NEW a \in Actors, Lookup(a) \/ HealthCheck(a)
  PROVE  IInv'
<1>0. /\ TypeOK /\ act[a] \in Activity /\ act[a].pc \in Executing /\ act[a].pc \in Light
      /\ UNCHANGED <<tool, mgr, left, replaced, crashed>>
  BY Points, ActType DEF IInv, Light, Lookup, HealthCheck, At
<1>1. /\ left' \in Nat /\ mgr' \in Manager /\ tool' \in [Tools -> Tool] /\ crashed' \in BOOLEAN
      /\ \A k \in Tools : Aged(k)
  BY <1>0, SameTool DEF TypeOK
<1>2. /\ act[a].op = "execute" /\ act[a].name \in Names
      /\ act[a].why = "none" /\ act[a].new = NoTool /\ act[a].rest = {}
  BY <1>0, LightFacts DEF IInv, Phase
<1>3. CASE Return(a)
  BY <1>0, <1>1, <1>3, ReturnStep
<1>4. CASE Lookup(a) /\ ~Return(a)
  <2>1. /\ act' = [act EXCEPT ![a].pc = "enter", ![a].k = mgr.tracked[act[a].name]]
        /\ mgr.tracked[act[a].name] # NoTool
    BY <1>4 DEF Lookup
  <2>2. PICK k \in Tools : k = mgr.tracked[act[a].name]
    BY <2>1, <1>0, <1>2, MgrType
  <2> DEFINE v == [act[a] EXCEPT !.pc = "enter", !.k = k]
  <2>3. act' = [act EXCEPT ![a] = v]
    BY <2>1, <2>2, <1>0 DEF TypeOK
  <2>4. /\ v \in Activity /\ v.pc = "enter" /\ v.op = "execute" /\ v.name \in Names /\ v.k = k
        /\ v.why = "none" /\ v.new = NoTool /\ v.rest = {}
    BY <1>0, <1>2, Points DEF Activity
  <2>5. tool[k].proc # "none" /\ k # NoTool
    BY <2>1, <2>2, <1>2 DEF IInv, InService
  <2>6. v.pc \in Light \ {"idle"} /\ v.pc # "loading" /\ v.pc # "reload"
    BY <2>4, Points DEF Light
  <2> HIDE DEF v
  <2> QED BY <1>0, <1>1, <2>3, <2>4, <2>5, <2>6, MoveStep
<1>5. CASE HealthCheck(a) /\ ~Return(a)
  <2> DEFINE v == [act[a] EXCEPT !.pc = "reload", !.k = NoTool]
  <2>1. act' = [act EXCEPT ![a] = v]
    BY <1>5, <1>0 DEF HealthCheck, TypeOK
  <2>2. /\ v \in Activity /\ v.pc = "reload" /\ v.op = "execute" /\ v.name \in Names /\ v.k = NoTool
        /\ v.why = "none" /\ v.new = NoTool /\ v.rest = {}
    BY <1>0, <1>2, Points DEF Activity
  <2>3. v.pc \in Light \ {"idle"} /\ v.pc \notin Executing /\ v.pc # "loading"
    BY <2>2, Points DEF Light
  <2> HIDE DEF v
  <2> QED BY <1>0, <1>1, <2>1, <2>2, <2>3, MoveStep
<1> QED BY <1>3, <1>4, <1>5

LEMMA BeginReloadStep ==
  ASSUME IInv, NEW a \in Actors, BeginReload(a)
  PROVE  IInv'
<1>0. /\ TypeOK /\ act[a] \in Activity /\ act[a].pc = "reload" /\ act[a].pc \in Light
      /\ UNCHANGED <<tool, left, replaced, crashed>> /\ mgr.mu = NoOne /\ mgr \in Manager
  BY Points, ActType DEF IInv, Light, BeginReload, At, Free, TypeOK
<1>1. /\ left' \in Nat /\ tool' \in [Tools -> Tool] /\ crashed' \in BOOLEAN
      /\ \A k \in Tools : Aged(k)
  BY <1>0, SameTool DEF TypeOK
<1>2. /\ act[a].op \in {"execute", "reload"} /\ act[a].name \in Names
      /\ act[a].why = "none" /\ act[a].new = NoTool /\ act[a].rest = {}
  BY <1>0, LightFacts DEF IInv, Phase
<1>3. CASE Return(a) /\ UNCHANGED mgr
  BY <1>0, <1>1, <1>3, ReturnStep
<1>4. CASE ~(Return(a) /\ UNCHANGED mgr)
  <2>1. /\ act' = [act EXCEPT ![a].pc = "loading", ![a].k = mgr.tracked[act[a].name]]
        /\ mgr.tracked[act[a].name] # NoTool /\ mgr' = [mgr EXCEPT !.mu = a]
    BY <1>4 DEF BeginReload
  <2>2. PICK k \in Tools : k = mgr.tracked[act[a].name]
    BY <2>1, <1>0, <1>2, MgrType
  <2> DEFINE v == [act[a] EXCEPT !.pc = "loading", !.k = k]
  <2>3. act' = [act EXCEPT ![a] = v]
    BY <2>1, <2>2, <1>0 DEF TypeOK
  <2>4. /\ v \in Activity /\ v.pc = "loading" /\ v.op = act[a].op /\ v.name = act[a].name /\ v.k = k
        /\ v.why = "none" /\ v.new = NoTool /\ v.rest = {}
    BY <1>0, <1>2, Points DEF Activity
  <2>5. tool[k].proc # "none" /\ k # NoTool
    BY <2>1, <2>2, <1>2 DEF IInv, InService
  <2>6. v.pc \in Light \ {"idle"} /\ v.pc \notin Executing
    BY <2>4, Points DEF Light
  <2>7. mgr' \in Manager /\ mgr'.mu = a /\ mgr'.tracked = mgr.tracked
    BY <2>1, <1>0 DEF Manager
  <2> HIDE DEF v
  <2> QED BY <1>0, <1>1, <1>2, <2>2, <2>3, <2>4, <2>5, <2>6, <2>7, MoveStep, ZenonT(40)
<1> QED BY <1>3, <1>4

LEMMA UnlockFacts ==
  ASSUME TypeOK, NEW a \in Actors, Unlock(a)
  PROVE  /\ mgr' \in Manager /\ mgr'.tracked = mgr.tracked
         /\ mgr'.mu = mgr.mu \/ mgr.mu = a
BY MgrType DEF Unlock, Manager

-----------------------------------------------------------------------------
(* Requests.                                                               *)
LEMMA FailingFacts ==
  ASSUME TypeOK, NEW a \in Actors, Failing(a)
  PROVE  \/ /\ act[a].pc \in {"queued", "await"}
            /\ act' = [act EXCEPT ![a] = [act[a] EXCEPT !.pc = "failed", !.request = 0]]
         \/ /\ act[a].pc \notin {"queued", "await"}
            /\ act' = [act EXCEPT ![a] = [act[a] EXCEPT !.pc = "closed", !.request = 0, !.ok = FALSE]]
BY DEF Failing, TypeOK

(* A tool.execute request moves on, and the tool may break.                *)
LEMMA ExecuteStep ==
  ASSUME IInv, NEW a \in Actors, NEW p \in {"await", "answered", "failed"}, NEW r \in Nat,
         act[a].pc \in {"queued", "await"},
         act' = [act EXCEPT ![a] = [act[a] EXCEPT !.pc = p, !.request = r]],
         tool' \in [Tools -> Tool], \A k \in Tools : Aged(k),
         UNCHANGED <<mgr, left, replaced, crashed>>
  PROVE  IInv'
<1>0. /\ TypeOK /\ act[a] \in Activity /\ act[a].pc \in Light /\ act[a].pc \in Executing
      /\ p \in Executing /\ p \in Light \ {"idle"} /\ p \in Pcs
  BY Points, ActType DEF IInv, Light
<1>1. /\ act[a].why = "none" /\ act[a].new = NoTool /\ act[a].rest = {} /\ act[a].name \in Names
      /\ act[a].k # NoTool /\ tool[act[a].k].proc # "none" /\ act[a].op = "execute"
  BY <1>0, LightFacts DEF IInv, Phase
<1> DEFINE v == [act[a] EXCEPT !.pc = p, !.request = r]
<1>2. /\ v \in Activity /\ v.pc = p /\ v.op = "execute" /\ v.name \in Names /\ v.k = act[a].k
      /\ v.why = "none" /\ v.new = NoTool /\ v.rest = {}
  BY <1>0, <1>1 DEF Activity
<1>3. act' = [act EXCEPT ![a] = v]
  OBVIOUS
<1> HIDE DEF v
<1>4. left' \in Nat /\ mgr' \in Manager /\ crashed' \in BOOLEAN
  BY <1>0 DEF TypeOK
<1>5. v.pc # "loading" /\ v.pc # "reload"
  BY <1>2
<1> QED BY <1>0, <1>1, <1>2, <1>3, <1>4, <1>5, MoveStep, ZenonT(40)

(* A request to shut down moves on, and the tool may break.                *)
LEMMA ShutStep ==
  ASSUME IInv, NEW a \in Actors, NEW p \in {"shutAwait", "hangup", "closed"}, NEW r \in Nat,
         NEW o \in BOOLEAN, act[a].pc \in {"shutQueued", "shutAwait"},
         act' = [act EXCEPT ![a] = [act[a] EXCEPT !.pc = p, !.request = r, !.ok = o]],
         p # "closed" => o,
         tool' \in [Tools -> Tool], \A j \in Tools : Aged(j),
         \A j \in Tools \ {act[a].k} : tool'[j] = tool[j],
         p = "closed" => tool'[act[a].k].proc # "up",
         UNCHANGED <<mgr, left, replaced, crashed>>
  PROVE  IInv'
<1>0. /\ TypeOK /\ act[a] \in Activity /\ act[a].pc \in Shutting /\ p \in Pcs
      /\ p \in Shutting \cup {"closed"} /\ act[a].pc # "closed" /\ act[a].pc # "exiting"
      /\ p # "exiting" /\ p # "close" /\ act[a].pc # "close"
  BY Points, ActType DEF IInv
<1>1. act[a].why # "none" /\ act[a].k \in Tools /\ tool[act[a].k].closed
  BY <1>0, Points, ActType DEF IInv, Phase, Footing
<1> DEFINE v == [act[a] EXCEPT !.pc = p, !.request = r, !.ok = o]
<1>2. /\ v \in Activity /\ v.pc = p /\ v.ok = o /\ v.op = act[a].op /\ v.name = act[a].name
      /\ v.k = act[a].k /\ v.why = act[a].why /\ v.new = act[a].new /\ v.rest = act[a].rest
  BY <1>0 DEF Activity
<1>3. act' = [act EXCEPT ![a] = v]
  OBVIOUS
<1> HIDE DEF v
<1>4. act' \in [Actors -> Activity] /\ act'[a] = v /\ \A b \in Actors \ {a} : act'[b] = act[b]
  BY <1>0, <1>2, <1>3, ActChanges
<1>5. TypeOK'
  BY <1>0, <1>4 DEF TypeOK
<1>6. act'[a].pc \in Shutting => act'[a].ok
  BY <1>2, <1>4 DEF Shutting
<1>7. Aged(act[a].k)
  BY <1>1
<1>8. /\ tool'[act[a].k].name = tool[act[a].k].name /\ tool'[act[a].k].closed
      /\ \/ tool'[act[a].k].proc = tool[act[a].k].proc
         \/ tool[act[a].k].proc = "up" /\ tool'[act[a].k].proc = "gone"
      /\ tool'[act[a].k].stdin = tool[act[a].k].stdin
  BY <1>1, <1>7 DEF Aged
<1>9. /\ act'[a].op = act[a].op /\ act'[a].name = act[a].name /\ act'[a].k = act[a].k
        /\ act'[a].new = act[a].new /\ act'[a].why = act[a].why /\ act'[a].rest = act[a].rest
      /\ act'[a].pc \in Shutting \cup {"closed"}
      /\ act'[a].pc = "closed" => tool'[act[a].k].proc # "up"
  BY <1>0, <1>2, <1>4
<1>10. act[a].why # "none" /\ act[a].pc # "closed" /\ act[a].pc # "exiting"
  BY <1>0, <1>1
<1> QED BY <1>4, <1>5, <1>6, <1>8, <1>9, <1>10, CloseStep

LEMMA RequestSteps ==
  ASSUME IInv, NEW a \in Actors, Send(a) \/ Receive(a) \/ Timeout(a)
  PROVE  IInv'
<1>0. /\ TypeOK /\ act[a] \in Activity /\ UNCHANGED <<mgr, left, replaced>>
      /\ tool \in [Tools -> Tool]
  BY ActType DEF IInv, Send, Receive, Timeout, TypeOK
<1>p. act[a].pc \in {"queued", "await", "shutQueued", "shutAwait"}
  BY DEF Send, Receive, Timeout, At, Queued, Awaiting
<1>k. PICK k \in Tools : k = act[a].k /\ tool[k].proc # "none" /\ tool[k] \in Tool
  <2>1. act[a].pc \in InClose \cup {"enter", "queued", "await", "failed", "health"}
    BY <1>p, Points
  <2>2. act[a].k # NoTool /\ act[a].k \in Tools
    BY <2>1, <1>0, ActType DEF IInv, Phase
  <2> QED BY <2>2, <1>0, ToolType DEF IInv, Footing
<1>s. act[a].pc \in {"shutQueued", "shutAwait"} => act[a].ok = TRUE
  BY Points, <1>0, ActType DEF IInv, Phase
<1>e. "await" \in {"await", "answered", "failed"} /\ "answered" \in {"await", "answered", "failed"}
      /\ "failed" \in {"await", "answered", "failed"}
      /\ "shutAwait" \in {"shutAwait", "hangup", "closed"} /\ "hangup" \in {"shutAwait", "hangup", "closed"}
      /\ "closed" \in {"shutAwait", "hangup", "closed"} /\ 0 \in Nat /\ FALSE \in BOOLEAN /\ TRUE \in BOOLEAN
  OBVIOUS
(* What becomes of the tool, and what of the operation.                    *)
<1>t. ASSUME NEW t \in Tool, tool' = [tool EXCEPT ![k] = t], t.name = tool[k].name, t.stdin = tool[k].stdin,
             t.proc = tool[k].proc \/ t.proc = "gone", tool[k].closed => t.closed,
             t.closed => tool[k].closed \/ t.proc = "gone"
      PROVE  /\ tool' \in [Tools -> Tool] /\ tool'[k] = t /\ (\A j \in Tools : Aged(j))
             /\ \A j \in Tools \ {act[a].k} : tool'[j] = tool[j]
  <2>1. /\ tool' \in [Tools -> Tool] /\ tool'[k] = t
        /\ \A j \in Tools \ {k} : tool'[j] = tool[j]
    BY <1>0, <1>t, ToolChanges
  <2>2. Aged(k)
    BY <2>1, <1>t, <1>k DEF Aged, Tool
  <2>3. \A j \in Tools \ {k} : Aged(j)
    BY <2>1, SameTool
  <2> QED BY <2>1, <2>2, <2>3, <1>k
<1>f. ASSUME NEW t \in Tool, tool' = [tool EXCEPT ![k] = t], t.name = tool[k].name, t.stdin = tool[k].stdin,
             t.proc = tool[k].proc \/ t.proc = "gone", tool[k].closed => t.closed,
             t.closed => tool[k].closed \/ t.proc = "gone",
             Failing(a), act[a].pc \in {"shutQueued", "shutAwait"} => t.proc # "up", crashed' = crashed
      PROVE  IInv'
  <2>1. /\ tool' \in [Tools -> Tool] /\ tool'[k] = t /\ (\A j \in Tools : Aged(j))
        /\ \A j \in Tools \ {act[a].k} : tool'[j] = tool[j]
    BY <1>t, <1>f
  <2>2. CASE act[a].pc \in {"queued", "await"}
    <3>1. act' = [act EXCEPT ![a] = [act[a] EXCEPT !.pc = "failed", !.request = 0]]
      BY <1>0, <1>f, <2>2, FailingFacts
    <3> QED BY <3>1, <2>1, <2>2, <1>0, <1>e, <1>f, ExecuteStep
  <2>3. CASE act[a].pc \in {"shutQueued", "shutAwait"}
    <3>1. act' = [act EXCEPT ![a] = [act[a] EXCEPT !.pc = "closed", !.request = 0, !.ok = FALSE]]
      BY <1>0, <1>f, <2>3, FailingFacts
    <3>2. tool'[act[a].k].proc # "up"
      BY <1>f, <1>k, <2>1, <2>3
    <3> QED BY <3>1, <3>2, <2>1, <2>3, <1>0, <1>e, <1>f, ShutStep
  <2> QED BY <1>p, <2>2, <2>3
<1>1. CASE Send(a)
  <2>1. CASE ~tool[k].stdin
    <3>1. crashed' = TRUE /\ UNCHANGED <<tool, act>>
      BY <1>1, <1>k, <2>1 DEF Send
    <3>2. TypeOK'
      BY <1>0, <3>1 DEF TypeOK
    <3> QED BY <3>1, <3>2, <1>0, SameTool, NobodyActs
  <2>2. CASE tool[k].stdin /\ tool[k].proc # "up"
    <3> DEFINE t == [tool[k] EXCEPT !.closed = TRUE]
    <3>1. tool' = [tool EXCEPT ![k] = t] /\ Failing(a) /\ crashed' = crashed
      BY <1>1, <1>k, <1>0, <2>2 DEF Send
    <3>2. /\ t \in Tool /\ t.name = tool[k].name /\ t.stdin = tool[k].stdin /\ t.proc = "gone" /\ t.closed
      BY <1>k, <2>2 DEF Tool
    <3> HIDE DEF t
    <3> QED BY <3>1, <3>2, <1>f
  <2>3. CASE tool[k].stdin /\ tool[k].proc = "up"
    <3> DEFINE t == [tool[k] EXCEPT !.rpc = a, !.id = tool[k].id + 1]
               p == IF act[a].pc = "queued" THEN "await" ELSE "shutAwait"
               r == tool[k].id + 1
    <3>1. /\ tool' = [tool EXCEPT ![k] = t] /\ crashed' = crashed
          /\ act' = [act EXCEPT ![a] = [act[a] EXCEPT !.request = r, !.pc = p]]
      BY <1>1, <1>k, <1>0, <2>3 DEF Send, TypeOK
    <3>2. r \in Nat
      BY <1>k DEF Tool
    <3>3. /\ t \in Tool /\ t.name = tool[k].name /\ t.stdin = tool[k].stdin
          /\ t.proc = tool[k].proc /\ t.closed = tool[k].closed
      BY <1>k, <3>2 DEF Tool
    <3>q. act[a].pc \in {"queued", "shutQueued"}
      BY <1>1 DEF Send, At, Queued
    <3> HIDE DEF t, r
    <3>4. /\ tool' \in [Tools -> Tool] /\ (\A j \in Tools : Aged(j))
          /\ \A j \in Tools \ {act[a].k} : tool'[j] = tool[j]
      BY <3>1, <3>3, <1>t
    <3>5. CASE act[a].pc = "queued"
      <4>1. act' = [act EXCEPT ![a] = [act[a] EXCEPT !.pc = "await", !.request = r]]
        BY <3>1, <3>5, <1>0 DEF Activity
      <4> QED BY <4>1, <3>1, <3>2, <3>4, <3>5, <1>0, <1>e, ExecuteStep
    <3>6. CASE act[a].pc = "shutQueued"
      <4>1. act' = [act EXCEPT ![a] = [act[a] EXCEPT !.pc = "shutAwait", !.request = r, !.ok = TRUE]]
        <5>1. [act[a] EXCEPT !.request = r, !.pc = "shutAwait"]
                = [act[a] EXCEPT !.pc = "shutAwait", !.request = r, !.ok = TRUE]
          BY <1>0, <1>s, <3>6 DEF Activity
        <5> QED BY <5>1, <3>1, <3>6
      <4> QED BY <4>1, <3>1, <3>2, <3>4, <3>6, <1>0, <1>e, ShutStep
    <3> QED BY <3>q, <3>5, <3>6
  <2> QED BY <2>1, <2>2, <2>3
<1>2. CASE Timeout(a)
  <2>1. tool' = [tool EXCEPT ![k] = Killed(tool[k])] /\ Failing(a) /\ crashed' = crashed
    BY <1>2, <1>k, <1>0 DEF Timeout
  <2> QED BY <2>1, <1>0, <1>f, KilledType
<1>3. CASE Receive(a)
  <2>1. CASE tool' = [tool EXCEPT ![k] = Killed(tool[k])] /\ Failing(a) /\ crashed' = crashed
    BY <2>1, <1>0, <1>f, KilledType
  <2> DEFINE t == [tool[k] EXCEPT !.rpc = NoOne, !.out = NoReply]
  <2>t. /\ t \in Tool /\ t.name = tool[k].name /\ t.stdin = tool[k].stdin
        /\ t.proc = tool[k].proc /\ t.closed = tool[k].closed
    BY <1>k DEF Tool, Reply, NoReply
  <2>2. CASE tool' = [tool EXCEPT ![k].rpc = NoOne, ![k].out = NoReply] /\ act[a].pc = "await" /\ Failing(a)
             /\ crashed' = crashed
    <3>1. tool' = [tool EXCEPT ![k] = t]
      BY <2>2, <1>0
    <3> HIDE DEF t
    <3>2. act[a].pc \notin {"shutQueued", "shutAwait"}
      BY <2>2
    <3> QED BY <3>1, <3>2, <2>2, <2>t, <1>f
  <2>3. CASE tool' = [tool EXCEPT ![k].rpc = NoOne, ![k].out = NoReply]
             /\ act[a].pc = "await" /\ act' = [act EXCEPT ![a].pc = "answered"] /\ crashed' = crashed
    <3>1. tool' = [tool EXCEPT ![k] = t]
      BY <2>3, <1>0
    <3> HIDE DEF t
    <3>2. tool' \in [Tools -> Tool] /\ (\A j \in Tools : Aged(j))
      BY <3>1, <2>t, <1>t
    <3>3. /\ act' = [act EXCEPT ![a] = [act[a] EXCEPT !.pc = "answered", !.request = act[a].request]]
          /\ act[a].request \in Nat
      <4>1. [act[a] EXCEPT !.pc = "answered"] = [act[a] EXCEPT !.pc = "answered", !.request = act[a].request]
        BY <1>0 DEF Activity
      <4> QED BY <4>1, <2>3, <1>0 DEF TypeOK, Activity
    <3> QED BY <3>2, <3>3, <2>3, <1>0, <1>e, ExecuteStep
  <2>4. CASE tool' = [tool EXCEPT ![k].rpc = NoOne, ![k].out = NoReply]
             /\ act[a].pc = "shutAwait" /\ act' = [act EXCEPT ![a].pc = "hangup", ![a].request = 0]
             /\ crashed' = crashed
    <3>1. tool' = [tool EXCEPT ![k] = t]
      BY <2>4, <1>0
    <3> HIDE DEF t
    <3>2. /\ tool' \in [Tools -> Tool] /\ (\A j \in Tools : Aged(j))
          /\ \A j \in Tools \ {act[a].k} : tool'[j] = tool[j]
      BY <3>1, <2>t, <1>t
    <3>3. act' = [act EXCEPT ![a] = [act[a] EXCEPT !.pc = "hangup", !.request = 0, !.ok = TRUE]]
      <4>1. [act[a] EXCEPT !.pc = "hangup", !.request = 0]
              = [act[a] EXCEPT !.pc = "hangup", !.request = 0, !.ok = TRUE]
        BY <1>0, <1>s, <2>4 DEF Activity
      <4> QED BY <4>1, <2>4, <1>0 DEF TypeOK
    <3> QED BY <3>2, <3>3, <2>4, <1>0, <1>e, ShutStep
  <2>5. act[a].pc \in {"await", "shutAwait"}
    BY <1>3 DEF Receive, At, Awaiting
  <2> HIDE DEF t
  <2>6. crashed' = crashed
    BY <1>3 DEF Receive
  <2>7. CASE tool[k].out.id = act[a].request /\ tool[k].out.kind = "ok"
    BY <1>3, <1>k, <2>3, <2>4, <2>5, <2>6, <2>7 DEF Receive
  <2>8. CASE ~(tool[k].out.id = act[a].request /\ tool[k].out.kind = "ok")
    BY <1>3, <1>k, <2>1, <2>2, <2>5, <2>6, <2>8 DEF Receive
  <2> QED BY <2>7, <2>8
<1> QED BY <1>1, <1>2, <1>3

-----------------------------------------------------------------------------
(* Closing a tool.                                                         *)
LEMMA CloseSteps ==
  ASSUME IInv, NEW a \in Actors, Close(a) \/ CloseStdin(a) \/ WaitExit(a)
  PROVE  IInv'
<1>0. /\ TypeOK /\ act[a] \in Activity /\ UNCHANGED <<mgr, left, replaced, crashed>>
      /\ tool \in [Tools -> Tool] /\ act[a].pc \in InClose /\ act[a].why # "none"
      /\ Phase(a) /\ Footing(a) /\ act[a].pc # "closed"
  BY ActType, Points DEF IInv, Close, CloseStdin, WaitExit, TypeOK, At, Phase
<1>k. PICK k \in Tools : k = act[a].k /\ tool[k].proc # "none" /\ tool[k] \in Tool
  BY <1>0, CloserFacts, ToolType
(* v is what becomes of the operation, and t of the tool.                  *)
<1>g. ASSUME NEW v \in Activity, NEW t \in Tool, act' = [act EXCEPT ![a] = v],
             tool' = [tool EXCEPT ![k] = t],
             v.op = act[a].op /\ v.name = act[a].name /\ v.k = act[a].k
               /\ v.new = act[a].new /\ v.why = act[a].why /\ v.rest = act[a].rest,
             v.pc \in {"shutQueued", "hangup", "exiting", "closed"}, v.ok,
             act[a].pc = "exiting" => v.pc = "closed" /\ v.ok = act[a].ok,
             t.name = tool[k].name, t.proc = tool[k].proc, t.closed,
             t.stdin = tool[k].stdin \/ v.pc = "exiting",
             v.pc = "closed" => t.proc # "up" \/ (act[a].pc = "close" /\ tool[k].closed /\ tool[k].proc = "up")
      PROVE  IInv'
  <2>1. act' \in [Actors -> Activity] /\ act'[a] = v /\ \A b \in Actors \ {a} : act'[b] = act[b]
    BY <1>0, <1>g, ActChanges
  <2>2. tool' \in [Tools -> Tool] /\ tool'[k] = t /\ \A j \in Tools \ {k} : tool'[j] = tool[j]
    BY <1>0, <1>g, ToolChanges
  <2>3. TypeOK'
    BY <1>0, <2>1, <2>2 DEF TypeOK
  <2>4. v.pc \in Shutting \cup {"closed"}
    BY <1>g, Points
  <2> QED BY <1>0, <1>k, <1>g, <2>1, <2>2, <2>3, <2>4, CloseStep
<1>1. CASE Close(a)
  <2> DEFINE p == CASE tool[k].closed -> "closed"
                    [] ~tool[k].closed /\ tool[k].proc = "gone" -> "hangup"
                    [] OTHER -> "shutQueued"
             v == [act[a] EXCEPT !.ok = TRUE, !.pc = p]
             t == [tool[k] EXCEPT !.closed = TRUE]
  <2>1. act' = [act EXCEPT ![a] = v] /\ tool' = [tool EXCEPT ![k] = t] /\ act[a].pc = "close"
    BY <1>1, <1>k, <1>0 DEF Close, TypeOK, At
  <2>2. /\ p \in {"closed", "hangup", "shutQueued"} /\ p \in Pcs
        /\ p = "closed" => tool[k].closed
    BY Points
  <2> HIDE DEF p
  <2>3. /\ v \in Activity /\ v.pc = p /\ v.ok = TRUE /\ v.op = act[a].op /\ v.name = act[a].name
        /\ v.k = act[a].k /\ v.new = act[a].new /\ v.why = act[a].why /\ v.rest = act[a].rest
    BY <1>0, <2>2 DEF Activity
  <2>4. /\ t \in Tool /\ t.name = tool[k].name /\ t.proc = tool[k].proc /\ t.closed
        /\ t.stdin = tool[k].stdin
    BY <1>k DEF Tool
  <2> HIDE DEF v, t
  <2>5. v.pc \in {"shutQueued", "hangup", "exiting", "closed"}
    BY <2>2, <2>3
  <2> QED BY <2>1, <2>2, <2>3, <2>4, <2>5, <1>g
<1>2. CASE CloseStdin(a)
  <2> DEFINE v == [act[a] EXCEPT !.pc = "exiting"]
             t == [tool[k] EXCEPT !.stdin = FALSE]
  <2>1. act' = [act EXCEPT ![a] = v] /\ tool' = [tool EXCEPT ![k] = t] /\ act[a].pc = "hangup"
    BY <1>2, <1>k, <1>0 DEF CloseStdin, TypeOK, At, Goto
  <2>o. act[a].ok /\ tool[k].closed
    BY <2>1, <1>0, <1>k, Points DEF Phase, Footing
  <2>3. /\ v \in Activity /\ v.pc = "exiting" /\ v.ok = act[a].ok /\ v.op = act[a].op /\ v.name = act[a].name
        /\ v.k = act[a].k /\ v.new = act[a].new /\ v.why = act[a].why /\ v.rest = act[a].rest
    BY <1>0, Points DEF Activity
  <2>4. /\ t \in Tool /\ t.name = tool[k].name /\ t.proc = tool[k].proc /\ t.closed = tool[k].closed
    BY <1>k DEF Tool
  <2> HIDE DEF v, t
  <2> QED BY <2>1, <2>o, <2>3, <2>4, <1>g
<1>3. CASE WaitExit(a)
  <2> DEFINE v == [act[a] EXCEPT !.pc = "closed"]
             t == tool[k]
  <2>1. act' = [act EXCEPT ![a] = v] /\ tool' = tool /\ act[a].pc = "exiting" /\ tool[k].proc = "gone"
    BY <1>3, <1>k, <1>0 DEF WaitExit, TypeOK, At, Goto
  <2>2. tool' = [tool EXCEPT ![k] = t]
    BY <2>1, <1>0
  <2>o. act[a].ok /\ tool[k].closed
    BY <2>1, <1>0, <1>k, Points DEF Phase, Footing
  <2>3. /\ v \in Activity /\ v.pc = "closed" /\ v.ok = act[a].ok /\ v.op = act[a].op /\ v.name = act[a].name
        /\ v.k = act[a].k /\ v.new = act[a].new /\ v.why = act[a].why /\ v.rest = act[a].rest
    BY <1>0, Points DEF Activity
  <2> HIDE DEF v
  <2> QED BY <2>1, <2>2, <2>o, <2>3, <1>k, <1>g
<1> QED BY <1>1, <1>2, <1>3

(* When a tool is closed, it has no process or somebody else closes it.    *)
LEMMA ClosedFacts ==
  ASSUME IInv, NEW a \in Actors, act[a].pc = "closed"
  PROVE  /\ act[a].why # "none" /\ act[a].k \in Tools
         /\ tool[act[a].k].proc = "up" =>
              \E b \in Actors \ {a} : act[b].pc \in Shutting /\ act[b].k = act[a].k
<1>0. TypeOK /\ Phase(a) /\ Footing(a) /\ Broken
  BY DEF IInv
<1>1. act[a].why # "none" /\ act[a].k \in Tools
  BY <1>0, Points, CloserFacts DEF Phase
<1>2. tool[act[a].k].closed
  BY <1>0 DEF Footing
<1>3. ASSUME tool[act[a].k].proc = "up"
      PROVE  \E b \in Actors \ {a} : act[b].pc \in Shutting /\ act[b].k = act[a].k
  <2>1. PICK b \in Actors : act[b].pc \in Shutting /\ act[b].k = act[a].k
    BY <1>0, <1>1, <1>2, <1>3 DEF Broken
  <2>2. b # a
    BY <2>1 DEF Shutting
  <2> QED BY <2>1, <2>2
<1> QED BY <1>1, <1>3

LEMMA ShuttingHolds ==
  ASSUME IInv, NEW b \in Actors, act[b].pc \in Shutting
  PROVE  Holds(b, act[b].k)
<1>1. act[b].pc # "idle" /\ act[b].why # "none"
  BY Points DEF IInv, Phase
<1> QED BY <1>1 DEF Holds

(* An operation lets go of tools, of which none is left up without a       *)
(* holder, and takes hold of none; the manager keeps what it tracks.       *)
LEMMA LetGo ==
  ASSUME IInv, TypeOK', NEW a \in Actors,
         \A b \in Actors \ {a} : act'[b] = act[b],
         act[a].pc = "closed" \/ act[a].pc = "closeNext",
         tool' = tool, replaced' = replaced, mgr'.tracked = mgr.tracked,
         mgr'.mu = mgr.mu \/ (mgr.mu = a /\ act[a].why # "swap"),
         act[a].why = "swap" => ~act[a].ok,
         Phase(a)', Footing(a)',
         Owned(a)' \subseteq Owned(a), act'[a].pc \notin Shutting,
         \A k \in Tools : Holds(a, k) =>
           Holds(a, k)' \/ (act[a].pc = "closed" /\ k = act[a].k)
  PROVE  IInv'
<1>0. /\ TypeOK /\ (\A b \in Actors : Phase(b) /\ Footing(b))
      /\ InService /\ Owners /\ Broken /\ NoOrphan
  BY DEF IInv
<1>1. ASSUME NEW b \in Actors PROVE Phase(b)' /\ Footing(b)'
  <2>1. CASE b = a
    BY <2>1
  <2>2. CASE b # a
    <3>1. Reloading(b) => mgr'.mu = mgr.mu
      BY <1>0, <2>2, Numbers DEF Footing
    <3> QED BY <1>0, <2>2, <3>1, PhaseFrame, FootingFrame
  <2> QED BY <2>1, <2>2
<1>2. ASSUME NEW b \in Actors \ {a}
      PROVE  Owned(b)' = Owned(b) /\ \A k \in Tools : Holds(b, k)' = Holds(b, k)
  BY DEF Owned, Holds
<1>3. InService'
  <2> SUFFICES ASSUME NEW n \in Names, mgr.tracked[n] # NoTool
               PROVE  /\ tool[mgr.tracked[n]].proc # "none" /\ tool[mgr.tracked[n]].name = n
                      /\ ~tool[mgr.tracked[n]].stdin =>
                           \E b \in Actors : /\ mgr'.mu = b /\ act'[b].why = "swap"
                                             /\ act'[b].k = mgr.tracked[n]
                                             /\ act'[b].pc \in {"exiting", "closed"} /\ act'[b].ok
    BY DEF InService
  <2>1. ASSUME ~tool[mgr.tracked[n]].stdin
        PROVE  \E b \in Actors : /\ mgr'.mu = b /\ act'[b].why = "swap"
                                 /\ act'[b].k = mgr.tracked[n]
                                 /\ act'[b].pc \in {"exiting", "closed"} /\ act'[b].ok
    <3>1. PICK b \in Actors : /\ mgr.mu = b /\ act[b].why = "swap" /\ act[b].k = mgr.tracked[n]
                              /\ act[b].pc \in {"exiting", "closed"} /\ act[b].ok
      BY <1>0, <2>1 DEF InService
    <3>2. b # a
      BY <3>1
    <3>3. mgr'.mu = b
      BY <3>1, <3>2
    <3> QED BY <3>1, <3>2, <3>3
  <2> QED BY <1>0, <2>1 DEF InService
<1>4. Owners'
  <2>1. \A b \in Actors : Owned(b)' \subseteq Owned(b)
    BY <1>2
  <2> QED BY <1>0, <2>1 DEF Owners
<1>5. Broken'
  <2> SUFFICES ASSUME NEW k \in Tools, tool[k].proc = "up", tool[k].closed
               PROVE  \E b \in Actors : act'[b].pc \in Shutting /\ act'[b].k = k
    BY <1>0 DEF Broken
  <2>1. PICK b \in Actors : act[b].pc \in Shutting /\ act[b].k = k
    BY <1>0 DEF Broken
  <2>2. b # a
    BY <2>1 DEF Shutting
  <2> QED BY <2>1, <2>2
<1>6. NoOrphan'
  <2> SUFFICES ASSUME NEW k \in Tools, tool[k].proc = "up",
                      ~\E n \in Names : mgr.tracked[n] = k, k \notin replaced
               PROVE  \E b \in Actors : Holds(b, k)'
    BY DEF NoOrphan
  <2>1. PICK b \in Actors : Holds(b, k)
    BY <1>0 DEF NoOrphan
  <2>2. CASE b # a
    BY <2>1, <2>2, <1>2
  <2>3. CASE b = a /\ ~Holds(a, k)'
    <3>1. act[a].pc = "closed" /\ k = act[a].k
      BY <2>1, <2>3
    <3>2. PICK c \in Actors \ {a} : act[c].pc \in Shutting /\ act[c].k = k
      BY <3>1, ClosedFacts
    <3>3. Holds(c, k)
      BY <3>2, ShuttingHolds
    <3> QED BY <3>3, <1>2
  <2> QED BY <2>1, <2>2, <2>3
<1> QED BY <1>1, <1>3, <1>4, <1>5, <1>6 DEF IInv

LEMMA IdlePhase ==
  ASSUME NEW a \in Actors, act'[a] = Idle
  PROVE  /\ Phase(a)' /\ Footing(a)' /\ Owned(a)' = {} /\ act'[a].pc \notin Shutting
         /\ \A k \in Tools : ~Holds(a, k)'
<1>1. /\ act'[a].why = "none" /\ act'[a].new = NoTool /\ act'[a].rest = {} /\ act'[a].k = NoTool
      /\ act'[a].pc = "idle" /\ act'[a].op = "none"
  BY DEF Idle
<1>2. /\ act'[a].pc \notin InClose /\ act'[a].pc \notin Shutting /\ act'[a].pc \notin Executing
  BY <1>1, Points
<1>3. Phase(a)'
  BY <1>1, <1>2 DEF Phase
<1>4. Footing(a)'
  BY <1>1, <1>2 DEF Footing, Reloading
<1>5. Owned(a)' = {}
  BY <1>1 DEF Owned
<1> QED BY <1>1, <1>2, <1>3, <1>4, <1>5 DEF Holds

LEMMA SwapFailsStep ==
  ASSUME IInv, NEW a \in Actors, SwapFails(a)
  PROVE  IInv'
<1>0. /\ TypeOK /\ act[a] \in Activity /\ UNCHANGED <<tool, mgr, left, replaced, crashed>>
      /\ act[a].pc = "closed" /\ act[a].why = "swap" /\ ~act[a].ok /\ Phase(a)
  BY ActType DEF IInv, SwapFails, At
<1>1. /\ act[a].new # NoTool /\ act[a].new \in Tools /\ act[a].op \in {"execute", "load", "reload"}
      /\ act[a].op # "load" /\ act[a].rest = {}
  BY <1>0, ActType DEF Phase
<1> DEFINE v == [act[a] EXCEPT !.pc = "close", !.k = act[a].new, !.why = "undo"]
<1>2. act' = [act EXCEPT ![a] = v]
  BY <1>0 DEF SwapFails, TypeOK
<1>3. /\ v \in Activity /\ v.pc = "close" /\ v.k = act[a].new /\ v.why = "undo" /\ v.new = act[a].new
      /\ v.op = act[a].op /\ v.name = act[a].name /\ v.rest = act[a].rest
  BY <1>0, <1>1, Points DEF Activity
<1> HIDE DEF v
<1>4. act' \in [Actors -> Activity] /\ act'[a] = v /\ \A b \in Actors \ {a} : act'[b] = act[b]
  BY <1>0, <1>2, <1>3, ActChanges
<1>5. TypeOK'
  BY <1>0, <1>4 DEF TypeOK
<1>6. v.pc \in InClose /\ v.pc \notin Shutting \cup {"closed"} /\ v.pc \notin Executing
  BY <1>3, Points DEF Shutting
<1>7. Phase(a)'
  BY <1>0, <1>1, <1>3, <1>4, <1>6 DEF Phase
<1>8. act[a].new \in Owned(a) /\ Owned(a)' \subseteq Owned(a)
  BY <1>0, <1>1, <1>3, <1>4 DEF Owned
<1>9. tool[act[a].new].proc # "none"
  BY <1>8 DEF IInv, Owners
<1>10. Footing(a)'
  BY <1>0, <1>3, <1>4, <1>6, <1>9 DEF Footing, Reloading
<1>11. ASSUME NEW k \in Tools, Holds(a, k)
       PROVE  Holds(a, k)' \/ (act[a].pc = "closed" /\ k = act[a].k)
  BY <1>0, <1>1, <1>3, <1>4, <1>11 DEF Holds
<1> QED BY <1>0, <1>4, <1>5, <1>6, <1>7, <1>8, <1>10, <1>11, LetGo

LEMMA LoadRefusedStep ==
  ASSUME IInv, NEW a \in Actors, LoadRefused(a)
  PROVE  IInv'
<1>0. /\ TypeOK /\ UNCHANGED <<tool, left, replaced, crashed>> /\ Return(a) /\ Unlock(a)
      /\ act[a].pc = "closed" /\ act[a].why \in {"refused", "undo"} /\ Phase(a)
  BY DEF IInv, LoadRefused, At
<1>1. act' \in [Actors -> Activity] /\ act'[a] = Idle /\ \A b \in Actors \ {a} : act'[b] = act[b]
  BY <1>0, IdleType, ActChanges DEF Return
<1>2. mgr' \in Manager /\ mgr'.tracked = mgr.tracked /\ (mgr'.mu = mgr.mu \/ mgr.mu = a)
  BY <1>0, UnlockFacts
<1>3. TypeOK'
  BY <1>0, <1>1, <1>2 DEF TypeOK
<1>4. /\ Phase(a)' /\ Footing(a)' /\ Owned(a)' = {} /\ act'[a].pc \notin Shutting
  BY <1>1, IdlePhase
<1>5. ASSUME NEW k \in Tools, Holds(a, k)
      PROVE  k = act[a].k
  <2>1. act[a].rest = {} /\ (act[a].new # NoTool => act[a].new = act[a].k)
    BY <1>0 DEF Phase
  <2> QED BY <1>5, <2>1, Numbers DEF Holds
<1>6. act[a].why # "swap"
  BY <1>0
<1> QED BY <1>0, <1>1, <1>2, <1>3, <1>4, <1>5, <1>6, LetGo

LEMMA CloseNextStep ==
  ASSUME IInv, NEW a \in Actors, CloseNext(a)
  PROVE  IInv'
<1>0. /\ TypeOK /\ act[a] \in Activity /\ UNCHANGED <<tool, mgr, left, replaced, crashed>>
      /\ act[a].pc \in {"closed", "closeNext"} /\ act[a].op = "closeAll" /\ Phase(a)
  BY ActType DEF IInv, CloseNext, At
<1>1. /\ act[a].why \in {"none", "all"} /\ act[a].new = NoTool
      /\ act[a].pc = "closed" \/ act[a].why = "none"
  BY <1>0, Points DEF Phase
<1>2. CASE act[a].rest = {}
  <2>1. act' \in [Actors -> Activity] /\ act'[a] = Idle /\ \A b \in Actors \ {a} : act'[b] = act[b]
    BY <1>0, <1>2, IdleType, ActChanges DEF CloseNext, Return
  <2>2. TypeOK'
    BY <1>0, <2>1 DEF TypeOK
  <2>3. /\ Phase(a)' /\ Footing(a)' /\ Owned(a)' = {} /\ act'[a].pc \notin Shutting
    BY <2>1, IdlePhase
  <2>4. ASSUME NEW k \in Tools, Holds(a, k)
        PROVE  act[a].pc = "closed" /\ k = act[a].k
    BY <2>4, <1>1, <1>2, Numbers DEF Holds
  <2> QED BY <1>0, <1>1, <2>1, <2>2, <2>3, <2>4, LetGo
<1>3. CASE act[a].rest # {}
  <2>1. PICK k \in act[a].rest : act' = [act EXCEPT ![a].pc = "close", ![a].k = k, ![a].why = "all",
                                                    ![a].rest = @ \ {k}]
    BY <1>3 DEF CloseNext
  <2>2. k \in Tools /\ k \in Owned(a) /\ k # NoTool
    BY <1>0, Numbers DEF Activity, Owned
  <2> DEFINE v == [act[a] EXCEPT !.pc = "close", !.k = k, !.why = "all", !.rest = @ \ {k}]
  <2>3. act' = [act EXCEPT ![a] = v]
    BY <2>1, <1>0 DEF TypeOK
  <2>4. /\ v \in Activity /\ v.pc = "close" /\ v.k = k /\ v.why = "all" /\ v.new = NoTool
        /\ v.op = "closeAll" /\ v.rest = act[a].rest \ {k}
    BY <1>0, <1>1, <2>2, Points DEF Activity
  <2> HIDE DEF v
  <2>5. act' \in [Actors -> Activity] /\ act'[a] = v /\ \A b \in Actors \ {a} : act'[b] = act[b]
    BY <1>0, <2>3, <2>4, ActChanges
  <2>6. TypeOK'
    BY <1>0, <2>5 DEF TypeOK
  <2>7. v.pc \in InClose /\ v.pc \notin Shutting \cup {"closed"} /\ v.pc \notin Executing
    BY <2>4, Points DEF Shutting
  <2>8. Phase(a)'
    BY <2>2, <2>4, <2>5, <2>7 DEF Phase
  <2>9. Owned(a)' \subseteq Owned(a) /\ tool[k].proc # "none"
    BY <1>0, <2>2, <2>4, <2>5 DEF Owned, IInv, Owners
  <2>10. Footing(a)'
    BY <1>0, <2>4, <2>5, <2>7, <2>9 DEF Footing, Reloading
  <2>11. ASSUME NEW j \in Tools, Holds(a, j)
         PROVE  Holds(a, j)' \/ (act[a].pc = "closed" /\ j = act[a].k)
    <3>1. act'[a].pc # "idle" /\ j # NoTool
      BY <2>4, <2>5, Numbers
    <3>2. CASE j \in act[a].rest
      BY <3>1, <3>2, <2>4, <2>5 DEF Holds
    <3>3. CASE j = act[a].k /\ act[a].why # "none"
      BY <3>3, <1>1
    <3> QED BY <2>11, <3>1, <3>2, <3>3, <1>1 DEF Holds
  <2>12. act[a].why # "swap" /\ act'[a].pc \notin Shutting
    BY <1>1, <2>5, <2>7
  <2> QED BY <1>0, <2>5, <2>6, <2>8, <2>9, <2>10, <2>11, <2>12, LetGo
<1> QED BY <1>2, <1>3

LEMMA CloseAllStep ==
  ASSUME IInv, NEW a \in Actors, CloseAll(a)
  PROVE  IInv'
<1>0. /\ TypeOK /\ (\A b \in Actors : Phase(b) /\ Footing(b)) /\ mgr \in Manager
      /\ InService /\ Owners /\ Broken /\ NoOrphan
      /\ UNCHANGED <<tool, replaced, crashed>> /\ act[a].pc = "idle" /\ mgr.mu = NoOne
      /\ left' = left - 1 /\ left > 0
  BY DEF IInv, CloseAll, At, Free, TypeOK
<1>1. act[a].why = "none" /\ act[a].new = NoTool /\ act[a].rest = {}
  BY LightFacts, <1>0, Points DEF Light
<1> DEFINE all == {mgr.tracked[n] : n \in Names} \ {NoTool}
           v == [Idle EXCEPT !.pc = "closeNext", !.op = "closeAll", !.rest = all]
<1>2. all \subseteq Tools
  BY <1>0, MgrType
<1>3. act' = [act EXCEPT ![a] = v]
  BY DEF CloseAll
<1>h. \A k : k \in all <=> k # NoTool /\ \E n \in Names : mgr.tracked[n] = k
  OBVIOUS
<1> HIDE DEF all
<1>4. /\ v \in Activity /\ v.pc = "closeNext" /\ v.op = "closeAll" /\ v.rest = all /\ v.k = NoTool
      /\ v.new = NoTool /\ v.why = "none"
  BY <1>2, IdleType, Points DEF Idle, Activity
<1> HIDE DEF v
<1>5. act' \in [Actors -> Activity] /\ act'[a] = v /\ \A b \in Actors \ {a} : act'[b] = act[b]
  BY <1>0, <1>3, <1>4, ActChanges
<1>6. mgr' \in Manager /\ mgr'.mu = NoOne /\ mgr'.tracked = [n \in Names |-> NoTool]
  <2>1. mgr' = [mgr EXCEPT !.tracked = [n \in Names |-> NoTool], !.failures = [n \in Names |-> 0],
                           !.unavailable = [n \in Names |-> FALSE]]
    BY DEF CloseAll
  <2> QED BY <2>1, <1>0 DEF Manager
<1>7. TypeOK'
  <2>1. left' \in Nat
    BY <1>0 DEF TypeOK
  <2> QED BY <1>0, <1>5, <1>6, <2>1 DEF TypeOK
<1>8. v.pc \notin InClose /\ v.pc \notin Shutting \cup {"closed"} /\ v.pc \notin Executing
  BY <1>4, Points
<1>9. Phase(a)' /\ Footing(a)'
  BY <1>4, <1>5, <1>8 DEF Phase, Footing, Reloading
<1>10. ASSUME NEW b \in Actors \ {a}
       PROVE  /\ Phase(b)' /\ Footing(b)' /\ Owned(b)' = Owned(b)
              /\ \A k \in Tools : Holds(b, k)' = Holds(b, k)
  <2>1. ~Reloading(b)
    BY <1>0, Numbers DEF Footing
  <2> QED BY <2>1, <1>0, <1>5, PhaseFrame, FootingFrame DEF Owned, Holds
<1>11. Owned(a)' = all /\ \A k \in all : Holds(a, k)'
  BY <1>4, <1>5 DEF Owned, Holds
<1>12. InService'
  BY <1>6 DEF InService
<1>13. Owners'
  <2>1. \A k \in all : tool[k].proc # "none" /\ k # NoTool /\ \A b \in Actors : k \notin Owned(b)
    BY <1>0, <1>h DEF InService, Owners
  <2>2. ASSUME NEW b \in Actors, NEW k \in Owned(b)'
        PROVE  tool'[k].proc # "none" /\ \A n \in Names : mgr'.tracked[n] # k
    <3>1. tool[k].proc # "none" /\ k # NoTool
      <4>1. CASE b = a
        BY <4>1, <2>1, <1>11
      <4>2. CASE b # a
        <5>1. k \in Owned(b) /\ tool[k].proc # "none"
          BY <4>2, <1>10, <1>0 DEF Owners
        <5>2. act[b].why \in {"refused", "undo", "all"} => act[b].k \in Tools
          BY CloserFacts
        <5>3. k \in Tools
          BY <1>0, <5>1, <5>2, ActType DEF Owned
        <5> QED BY <5>1, <5>3, Numbers
      <4> QED BY <4>1, <4>2
    <3> QED BY <3>1, <1>0, <1>6
  <2>3. ASSUME NEW b \in Actors, NEW c \in Actors, NEW k \in Owned(b)', k \in Owned(c)'
        PROVE  b = c
    BY <2>1, <2>3, <1>0, <1>10, <1>11 DEF Owners
  <2> QED BY <2>2, <2>3 DEF Owners
<1>14. Broken'
  <2> SUFFICES ASSUME NEW k \in Tools, tool[k].proc = "up", tool[k].closed
               PROVE  \E b \in Actors : act'[b].pc \in Shutting /\ act'[b].k = k
    BY <1>0 DEF Broken
  <2>1. PICK b \in Actors : act[b].pc \in Shutting /\ act[b].k = k
    BY <1>0 DEF Broken
  <2>2. b # a
    BY <2>1, <1>0 DEF Shutting
  <2> QED BY <2>1, <2>2, <1>5
<1>15. NoOrphan'
  <2> SUFFICES ASSUME NEW k \in Tools, tool[k].proc = "up", k \notin replaced
               PROVE  \E b \in Actors : Holds(b, k)'
    BY <1>0 DEF NoOrphan
  <2>1. CASE \E n \in Names : mgr.tracked[n] = k
    BY <2>1, <1>h, <1>11, Numbers
  <2>2. ASSUME NEW b \in Actors, Holds(b, k) PROVE \E c \in Actors : Holds(c, k)'
    <3>1. b # a
      BY <2>2, <1>1, Numbers DEF Holds
    <3> QED BY <2>2, <3>1, <1>10
  <2> QED BY <1>0, <2>1, <2>2 DEF NoOrphan
<1>16. \A b \in Actors : Phase(b)' /\ Footing(b)'
  BY <1>9, <1>10
<1> QED BY <1>7, <1>12, <1>13, <1>14, <1>15, <1>16 DEF IInv

-----------------------------------------------------------------------------
(* Loading.                                                                *)
LEMMA LoadPluginStep ==
  ASSUME IInv, NEW a \in Actors, LoadPlugin(a)
  PROVE  IInv'
<1>0. /\ TypeOK /\ (\A b \in Actors : Phase(b) /\ Footing(b))
      /\ InService /\ Owners /\ Broken /\ NoOrphan
      /\ UNCHANGED <<left, replaced, crashed>> /\ act[a].pc = "loading"
  BY DEF IInv, LoadPlugin, At
<1>1. act[a].pc \in Light
  BY <1>0 DEF Light
<1>2. CASE UNCHANGED tool /\ Unlock(a) /\ Return(a)
  BY <1>0, <1>1, <1>2, UnlockFacts, ReturnStep DEF TypeOK
<1>3. CASE ~(UNCHANGED tool /\ Unlock(a) /\ Return(a))
  <2>1. PICK k \in Tools, n \in Names :
          /\ tool[k].proc = "none" /\ tool' = Started(k, n) /\ mgr' = mgr
          /\ \/ act' = [act EXCEPT ![a].pc = "close", ![a].k = k, ![a].why = "refused"]
             \/ /\ act[a].op = "load"
                /\ act' = [act EXCEPT ![a].pc = "track", ![a].new = k]
             \/ /\ act[a].op # "load"
                /\ act' = [act EXCEPT ![a].pc = "close", ![a].new = k, ![a].why = "swap"]
    BY <1>3 DEF LoadPlugin, Unstarted
  <2> DEFINE t == [tool[k] EXCEPT !.proc = "up", !.name = n]
  <2>2. tool' = [tool EXCEPT ![k] = t]
    BY <1>0, <2>1 DEF Started, TypeOK
  <2>3. tool[k].stdin /\ ~tool[k].closed /\ tool[k] \in Tool
    BY <1>0, <2>1, ToolType DEF Broken
  <2>4. t \in Tool /\ t.proc = "up" /\ t.name = n /\ t.stdin /\ ~t.closed
    BY <2>3 DEF Tool
  <2> HIDE DEF t
  <2>5. tool' \in [Tools -> Tool] /\ tool'[k] = t /\ \A j \in Tools \ {k} : tool'[j] = tool[j]
    BY <1>0, <2>2, <2>4, ToolChanges
  (* Nobody has the new tool in its hands.                                 *)
  <2>6. /\ \A m \in Names : mgr.tracked[m] # k
        /\ \A b \in Actors : act[b].k # k /\ act[b].new # k /\ k \notin Owned(b)
    <3>1. k # NoTool
      BY Numbers
    <3>2. \A m \in Names : mgr.tracked[m] # k
      BY <1>0, <2>1, <3>1 DEF InService
    <3>3. \A b \in Actors : k \notin Owned(b)
      BY <1>0, <2>1 DEF Owners
    <3>4. \A b \in Actors : act[b].new # k
      BY <3>1, <3>3 DEF Owned
    <3>5. \A b \in Actors : act[b].k # k
      BY <1>0, <2>1, <3>1 DEF Footing
    <3> QED BY <3>2, <3>3, <3>4, <3>5
  <2>7. \A j \in Tools : /\ tool[j].proc # "none" => tool'[j].proc # "none"
                         /\ tool[j].closed => tool'[j].closed
    BY <2>1, <2>3, <2>5
  <2>8. /\ act[a] \in Activity /\ act[a].why = "none" /\ act[a].new = NoTool /\ act[a].rest = {}
        /\ act[a].k # NoTool => act[a].k \in Tools /\ tool[act[a].k].proc # "none"
        /\ act[a].op \in {"execute", "reload"} => act[a].name \in Names
    BY <1>0, <1>1, LightFacts, ActType
  <2>9. /\ act[a].op \in {"execute", "load", "reload"}
        /\ act[a].op # "load" => mgr.mu = a /\ mgr.tracked[act[a].name] = act[a].k /\ act[a].k # NoTool
    BY <1>0 DEF Phase, Footing, Reloading
  <2>g. ASSUME NEW v \in Activity, act' = [act EXCEPT ![a] = v],
               v.op = act[a].op, v.name = act[a].name, v.rest = {},
               \/ v.pc = "close" /\ v.k = k /\ v.why = "refused" /\ v.new = NoTool
               \/ v.pc = "track" /\ v.k = act[a].k /\ v.why = "none" /\ v.new = k
               \/ v.pc = "close" /\ v.k = act[a].k /\ v.why = "swap" /\ v.new = k /\ v.op # "load"
        PROVE  IInv'
    <3>1. act' \in [Actors -> Activity] /\ act'[a] = v /\ \A b \in Actors \ {a} : act'[b] = act[b]
      BY <1>0, <2>g, ActChanges
    <3>2. TypeOK'
      BY <1>0, <2>1, <2>5, <3>1 DEF TypeOK
    <3>3. /\ v.pc \notin Executing /\ v.pc \notin Shutting \cup {"closed"}
          /\ v.pc \in InClose <=> v.pc = "close"
          /\ k # NoTool
      BY <2>g, Points, Numbers DEF Shutting
    <3>4. Phase(a)'
      BY <2>g, <2>8, <2>9, <3>1, <3>3 DEF Phase
    <3>5. Footing(a)'
      <4>1. act'[a].k # NoTool => tool'[act'[a].k].proc # "none"
        BY <2>g, <2>4, <2>5, <2>7, <2>8, <3>1
      <4>2. act'[a].new # NoTool => tool'[act'[a].new].stdin
        BY <2>g, <2>4, <2>5, <3>1
      <4>3. Reloading(a)' => mgr'.mu = a /\ mgr'.tracked[act'[a].name] = act'[a].k /\ act'[a].k # NoTool
        BY <2>g, <2>1, <2>9, <3>1 DEF Reloading
      <4> QED BY <3>1, <3>3, <4>1, <4>2, <4>3 DEF Footing
    <3>6. ASSUME NEW b \in Actors \ {a}
          PROVE  /\ Phase(b)' /\ Footing(b)' /\ Owned(b)' = Owned(b)
                 /\ \A j \in Tools : Holds(b, j)' = Holds(b, j)
      <4>1. act[b].new # NoTool => tool'[act[b].new].stdin = tool[act[b].new].stdin
        BY <1>0, <2>5, <2>6, ActType
      <4> QED BY <4>1, <1>0, <2>1, <2>7, <3>1, PhaseFrame, FootingFrame DEF Owned, Holds
    <3>7. Owned(a) = {} /\ Owned(a)' = {k} /\ Holds(a, k)' /\ \A j \in Tools : ~Holds(a, j)
      <4>1. Owned(a) = {} /\ \A j \in Tools : ~Holds(a, j)
        BY <2>8, EmptyFacts
      <4>2. Owned(a)' = {k}
        BY <2>g, <3>1, <3>3 DEF Owned
      <4>3. Holds(a, k)'
        BY <2>g, <3>1, <3>3 DEF Holds
      <4> QED BY <4>1, <4>2, <4>3
    <3>8. InService'
      <4>1. \A m \in Names : mgr.tracked[m] # NoTool => tool'[mgr.tracked[m]] = tool[mgr.tracked[m]]
        BY <1>0, <2>5, <2>6, MgrType
      <4>2. \A b \in Actors : act[b].why = "swap" => act'[b] = act[b]
        BY <2>8, <3>1
      <4> QED BY <1>0, <2>1, <4>1, <4>2 DEF InService
    <3>9. Owners'
      <4>1. ASSUME NEW b \in Actors, NEW j \in Owned(b)'
            PROVE  tool'[j].proc # "none" /\ \A m \in Names : mgr'.tracked[m] # j
        <5>1. CASE b = a
          BY <4>1, <5>1, <3>7, <2>1, <2>4, <2>5, <2>6
        <5>2. CASE b # a
          <6>1. j \in Owned(b)
            BY <4>1, <5>2, <3>6
          <6>2. act[b].why \in {"refused", "undo", "all"} => act[b].k \in Tools
            BY CloserFacts
          <6>3. j \in Tools
            BY <1>0, <6>1, <6>2, ActType DEF Owned
          <6> QED BY <1>0, <2>1, <2>7, <6>1, <6>3 DEF Owners
        <5> QED BY <5>1, <5>2
      <4>2. ASSUME NEW b \in Actors, NEW c \in Actors, NEW j \in Owned(b)', j \in Owned(c)'
            PROVE  b = c
        BY <1>0, <4>2, <2>6, <3>6, <3>7 DEF Owners
      <4> QED BY <4>1, <4>2 DEF Owners
    <3>10. Broken'
      <4> SUFFICES ASSUME NEW j \in Tools
                   PROVE  /\ IF tool'[j].proc = "none" THEN tool'[j].stdin /\ ~tool'[j].closed
                                                       ELSE tool'[j].name \in Names
                          /\ tool'[j].proc = "up" /\ tool'[j].closed =>
                               \E b \in Actors : act'[b].pc \in Shutting /\ act'[b].k = j
        BY DEF Broken
      <4>1. CASE j = k
        BY <4>1, <2>4, <2>5
      <4>2. CASE j # k
        <5>1. tool'[j] = tool[j]
          BY <4>2, <2>5
        <5>2. act[a].pc \notin Shutting
          BY <1>0 DEF Shutting
        <5> QED BY <1>0, <3>1, <5>1, <5>2 DEF Broken
      <4> QED BY <4>1, <4>2
    <3>11. NoOrphan'
      <4> SUFFICES ASSUME NEW j \in Tools, tool'[j].proc = "up"
                   PROVE  \/ \E m \in Names : mgr'.tracked[m] = j
                          \/ \E b \in Actors : Holds(b, j)'
                          \/ j \in replaced'
        BY DEF NoOrphan
      <4>1. CASE j = k
        BY <4>1, <3>7
      <4>2. CASE j # k
        <5>1. tool[j].proc = "up"
          BY <4>2, <2>5
        <5> QED BY <1>0, <2>1, <3>6, <3>7, <5>1 DEF NoOrphan
      <4> QED BY <4>1, <4>2
    <3>12. \A b \in Actors : Phase(b)' /\ Footing(b)'
      BY <3>4, <3>5, <3>6
    <3> QED BY <3>2, <3>8, <3>9, <3>10, <3>11, <3>12 DEF IInv
  <2>10. CASE act' = [act EXCEPT ![a].pc = "close", ![a].k = k, ![a].why = "refused"]
    <3> DEFINE v == [act[a] EXCEPT !.pc = "close", !.k = k, !.why = "refused"]
    <3>1. act' = [act EXCEPT ![a] = v]
      BY <1>0, <2>10 DEF TypeOK
    <3>2. /\ v \in Activity /\ v.op = act[a].op /\ v.name = act[a].name /\ v.rest = {}
          /\ v.pc = "close" /\ v.k = k /\ v.why = "refused" /\ v.new = NoTool
      BY <2>8, Points DEF Activity
    <3> HIDE DEF v
    <3> QED BY <3>1, <3>2, <2>g
  <2>11. CASE /\ act[a].op = "load"
              /\ act' = [act EXCEPT ![a].pc = "track", ![a].new = k]
    <3> DEFINE v == [act[a] EXCEPT !.pc = "track", !.new = k]
    <3>1. act' = [act EXCEPT ![a] = v]
      BY <1>0, <2>11 DEF TypeOK
    <3>2. /\ v \in Activity /\ v.op = act[a].op /\ v.name = act[a].name /\ v.rest = {}
          /\ v.pc = "track" /\ v.k = act[a].k /\ v.why = "none" /\ v.new = k
      BY <2>8, Points DEF Activity
    <3> HIDE DEF v
    <3> QED BY <3>1, <3>2, <2>g
  <2>12. CASE /\ act[a].op # "load"
              /\ act' = [act EXCEPT ![a].pc = "close", ![a].new = k, ![a].why = "swap"]
    <3> DEFINE v == [act[a] EXCEPT !.pc = "close", !.new = k, !.why = "swap"]
    <3>1. act' = [act EXCEPT ![a] = v]
      BY <1>0, <2>12 DEF TypeOK
    <3>2. /\ v \in Activity /\ v.op = act[a].op /\ v.name = act[a].name /\ v.rest = {}
          /\ v.pc = "close" /\ v.k = act[a].k /\ v.why = "swap" /\ v.new = k /\ v.op # "load"
      BY <2>8, <2>12, Points DEF Activity
    <3> HIDE DEF v
    <3> QED BY <3>1, <3>2, <2>g
  <2> QED BY <2>1, <2>10, <2>11, <2>12
<1> QED BY <1>2, <1>3

(* The tool in the hands of an operation goes into service.                *)
LEMMA InstallStep ==
  ASSUME IInv, TypeOK', NEW a \in Actors,
         \A b \in Actors \ {a} : act'[b] = act[b],
         \/ act[a].pc = "track" /\ mgr.mu = NoOne
         \/ act[a].pc = "closed" /\ act[a].why = "swap",
         tool' = tool, mgr'.mu = NoOne,
         mgr'.tracked[tool[act[a].new].name] = act[a].new,
         \A n \in Names \ {tool[act[a].new].name} :
           mgr'.tracked[n] = IF act[a].why = "swap" /\ n = act[a].name THEN NoTool ELSE mgr.tracked[n],
         replaced \subseteq replaced',
         \A j \in Tools : j = mgr.tracked[tool[act[a].new].name]
           => j \in replaced' \/ (act[a].why = "swap" /\ j = act[a].k),
         Phase(a)', Footing(a)', Owned(a)' = {}
  PROVE  IInv'
<1>0. /\ TypeOK /\ (\A b \in Actors : Phase(b) /\ Footing(b))
      /\ InService /\ Owners /\ Broken /\ NoOrphan
  BY DEF IInv
<1>1. /\ act[a].new # NoTool /\ act[a].new \in Tools /\ act[a].rest = {}
      /\ act[a].pc \notin Shutting /\ act[a].why \in {"none", "swap"}
      /\ act[a].why = "swap" => act[a].pc = "closed"
  <2>1. CASE act[a].pc = "track"
    <3>1. act[a].pc \notin InClose /\ act[a].pc \notin Shutting
      BY <2>1, Points
    <3> QED BY <2>1, <3>1, <1>0, ActType DEF Phase
  <2>2. CASE act[a].pc = "closed" /\ act[a].why = "swap"
    <3>1. act[a].pc \notin Shutting
      BY <2>2 DEF Shutting
    <3> QED BY <2>2, <3>1, <1>0, ActType DEF Phase
  <2> QED BY <2>1, <2>2
<1>2. PICK k \in Tools : k = act[a].new
  BY <1>1
<1>3. PICK m \in Names : m = tool[k].name
  <2>1. k \in Owned(a)
    BY <1>1, <1>2 DEF Owned
  <2>2. tool[k].proc # "none"
    BY <2>1, <1>0 DEF Owners
  <2> QED BY <2>2, <1>0 DEF Broken
<1>4. /\ k \in Owned(a) /\ tool[k].proc # "none" /\ tool[k].stdin /\ k # NoTool
      /\ \A n \in Names : mgr.tracked[n] # k
  <2>1. k \in Owned(a)
    BY <1>1, <1>2 DEF Owned
  <2> QED BY <2>1, <1>0, <1>1, <1>2 DEF Owners, Footing
<1>5. act[a].why = "swap" => /\ mgr.mu = a /\ act[a].name \in Names
                             /\ mgr.tracked[act[a].name] = act[a].k /\ act[a].k \in Tools
  BY CloserFacts
<1>6. mgr.mu \in {NoOne, a}
  BY <1>5
<1>7. ASSUME NEW b \in Actors \ {a}
      PROVE  /\ Phase(b)' /\ Footing(b)' /\ Owned(b)' = Owned(b)
             /\ \A j \in Tools : Holds(b, j)' = Holds(b, j)
  <2>1. ~Reloading(b)
    BY <1>0, <1>6, Numbers DEF Footing
  <2> QED BY <2>1, <1>0, PhaseFrame, FootingFrame DEF Owned, Holds
<1>8. InService'
  <2> SUFFICES ASSUME NEW n \in Names, mgr'.tracked[n] # NoTool
               PROVE  /\ tool[mgr'.tracked[n]].proc # "none" /\ tool[mgr'.tracked[n]].name = n
                      /\ tool[mgr'.tracked[n]].stdin
    BY DEF InService
  <2>1. CASE n = m
    BY <2>1, <1>2, <1>3, <1>4
  <2>2. CASE n # m
    <3>1. mgr'.tracked[n] = mgr.tracked[n] /\ ~(act[a].why = "swap" /\ n = act[a].name)
      BY <2>2, <1>2, <1>3
    <3>2. tool[mgr.tracked[n]].proc # "none" /\ tool[mgr.tracked[n]].name = n
      BY <3>1, <1>0 DEF InService
    <3>3. ASSUME ~tool[mgr.tracked[n]].stdin PROVE FALSE
      <4>1. PICK b \in Actors : mgr.mu = b /\ act[b].why = "swap" /\ act[b].k = mgr.tracked[n]
        BY <3>1, <3>3, <1>0 DEF InService
      <4>2. b = a
        BY <4>1, <1>6, Numbers
      <4>3. mgr.tracked[act[a].name] = mgr.tracked[n] /\ act[a].name \in Names
        BY <4>1, <4>2, <1>5
      <4>4. tool[mgr.tracked[n]].name = act[a].name
        BY <4>3, <3>1, <1>0 DEF InService
      <4> QED BY <4>1, <4>2, <4>4, <3>1, <3>2
    <3> QED BY <3>1, <3>2, <3>3
  <2> QED BY <2>1, <2>2
<1>9. Owners'
  <2>1. ASSUME NEW b \in Actors \ {a}, NEW j \in Owned(b)
        PROVE  tool[j].proc # "none" /\ \A n \in Names : mgr'.tracked[n] # j
    <3>1. act[b].why \in {"refused", "undo", "all"} => act[b].k \in Tools
      BY CloserFacts
    <3>2. j \in Tools /\ j # NoTool
      BY <1>0, <3>1, ActType, Numbers DEF Owned
    <3>3. j # k
      BY <1>0, <1>4 DEF Owners
    <3>4. tool[j].proc # "none" /\ \A n \in Names : mgr.tracked[n] # j
      BY <1>0 DEF Owners
    <3> QED BY <3>2, <3>3, <3>4, <1>2, <1>3
  <2> QED BY <1>0, <1>7, <2>1 DEF Owners
<1>10. Broken'
  <2> SUFFICES ASSUME NEW j \in Tools, tool[j].proc = "up", tool[j].closed
               PROVE  \E b \in Actors : act'[b].pc \in Shutting /\ act'[b].k = j
    BY <1>0 DEF Broken
  <2>1. PICK b \in Actors : act[b].pc \in Shutting /\ act[b].k = j
    BY <1>0 DEF Broken
  <2>2. b # a
    BY <2>1, <1>1
  <2> QED BY <2>1, <2>2
<1>11. NoOrphan'
  <2> SUFFICES ASSUME NEW j \in Tools, tool[j].proc = "up", j \notin replaced', j # k
               PROVE  (\E n \in Names : mgr'.tracked[n] = j) \/ (\E b \in Actors : Holds(b, j)')
    BY <1>2, <1>3 DEF NoOrphan
  <2>1. CASE act[a].why = "swap" /\ j = act[a].k
    <3>1. act[a].pc = "closed"
      BY <2>1, <1>1
    <3>2. PICK c \in Actors \ {a} : act[c].pc \in Shutting /\ act[c].k = j
      BY <2>1, <3>1, ClosedFacts
    <3>3. Holds(c, j)
      BY <3>2, ShuttingHolds
    <3> QED BY <3>3, <1>7
  <2>2. CASE ~(act[a].why = "swap" /\ j = act[a].k)
    <3>1. ASSUME NEW n \in Names, mgr.tracked[n] = j
          PROVE  mgr'.tracked[n] = j
      <4>1. n # m
        BY <3>1, <2>2, <1>2, <1>3
      <4>2. ~(act[a].why = "swap" /\ n = act[a].name)
        BY <3>1, <2>2, <1>5
      <4> QED BY <3>1, <4>1, <4>2, <1>2, <1>3
    <3>2. ~Holds(a, j)
      BY <2>2, <1>1, <1>2 DEF Holds
    <3>3. ASSUME NEW b \in Actors, Holds(b, j) PROVE Holds(b, j)'
      BY <3>2, <3>3, <1>7
    <3> QED BY <3>1, <3>3, <1>0 DEF NoOrphan
  <2> QED BY <2>1, <2>2
<1>12. \A b \in Actors : Phase(b)' /\ Footing(b)'
  BY <1>7
<1> QED BY <1>8, <1>9, <1>10, <1>11, <1>12 DEF IInv

LEMMA TrackStep ==
  ASSUME IInv, NEW a \in Actors, Track(a)
  PROVE  IInv'
<1>0. /\ TypeOK /\ mgr \in Manager /\ act[a].pc = "track" /\ mgr.mu = NoOne /\ Return(a)
      /\ UNCHANGED <<tool, left, crashed>> /\ Phase(a)
  BY DEF IInv, TypeOK, Track, At, Free
<1>1. act[a].pc \notin InClose /\ act[a].new \in Tools /\ act[a].why = "none"
  BY <1>0, Points, ActType DEF Phase
<1>2. PICK k \in Tools : k = act[a].new
  BY <1>1
<1>3. PICK m \in Names : m = tool[k].name
  <2>1. k \in Owned(a)
    BY <1>2, Numbers DEF Owned
  <2> QED BY <2>1 DEF IInv, Owners, Broken
<1>4. /\ mgr' = [mgr EXCEPT !.tracked[m] = k, !.failures[m] = 0, !.unavailable[m] = FALSE]
      /\ replaced' = replaced \cup ({mgr.tracked[m]} \ {NoTool})
  BY <1>2, <1>3 DEF Track
<1>5. /\ mgr' \in Manager /\ mgr'.mu = NoOne /\ mgr'.tracked[m] = k
      /\ \A n \in Names \ {m} : mgr'.tracked[n] = mgr.tracked[n]
  BY <1>0, <1>4 DEF Manager
<1>6. act' \in [Actors -> Activity] /\ act'[a] = Idle /\ \A b \in Actors \ {a} : act'[b] = act[b]
  BY <1>0, IdleType, ActChanges DEF Return
<1>7. TypeOK'
  <2>1. mgr.tracked[m] \in Tools \cup {NoTool}
    BY <1>0 DEF Manager
  <2>2. replaced' \subseteq Tools
    BY <1>0, <1>4, <2>1 DEF TypeOK
  <2> QED BY <1>0, <1>5, <1>6, <2>2 DEF TypeOK
<1>8. Phase(a)' /\ Footing(a)' /\ Owned(a)' = {}
  BY <1>6, IdlePhase
<1>9. /\ replaced \subseteq replaced'
      /\ \A j \in Tools : j = mgr.tracked[m] => j \in replaced'
  BY <1>4, Numbers
<1> QED BY <1>0, <1>1, <1>2, <1>3, <1>5, <1>6, <1>7, <1>8, <1>9, InstallStep

LEMMA SwapStep ==
  ASSUME IInv, NEW a \in Actors, Swap(a)
  PROVE  IInv'
<1>0. /\ TypeOK /\ mgr \in Manager /\ act[a] \in Activity /\ act[a].pc = "closed" /\ act[a].why = "swap"
      /\ UNCHANGED <<tool, left, crashed>> /\ Phase(a)
  BY ActType DEF IInv, TypeOK, Swap, At
<1>1. /\ act[a].new \in Tools /\ act[a].op \in {"execute", "reload"} /\ act[a].rest = {}
      /\ act[a].name \in Names /\ mgr.tracked[act[a].name] = act[a].k
  BY <1>0, ActType, CloserFacts DEF Phase
<1>2. PICK k \in Tools : k = act[a].new
  BY <1>1
<1>3. PICK m \in Names : m = tool[k].name
  <2>1. k \in Owned(a)
    BY <1>2, Numbers DEF Owned
  <2> QED BY <2>1 DEF IInv, Owners, Broken
<1>n. PICK n \in Names : n = act[a].name
  BY <1>1
<1>4. /\ mgr' = [mgr EXCEPT !.mu = NoOne,
                   !.tracked = [[@ EXCEPT ![n] = NoTool] EXCEPT ![m] = k],
                   !.failures = [[@ EXCEPT ![n] = 0] EXCEPT ![m] = mgr.failures[n]],
                   !.unavailable = [@ EXCEPT ![n] = FALSE, ![m] = FALSE]]
      /\ replaced' = replaced \cup ({mgr.tracked[m]} \ {NoTool, mgr.tracked[n]})
  BY <1>2, <1>3, <1>n DEF Swap
<1>5. /\ mgr'.mu = NoOne /\ mgr'.tracked = [[mgr.tracked EXCEPT ![n] = NoTool] EXCEPT ![m] = k]
      /\ mgr'.failures = [[mgr.failures EXCEPT ![n] = 0] EXCEPT ![m] = mgr.failures[n]]
      /\ mgr'.unavailable = [mgr.unavailable EXCEPT ![n] = FALSE, ![m] = FALSE]
      /\ mgr' = [mu |-> mgr'.mu, tracked |-> mgr'.tracked, failures |-> mgr'.failures,
                 unavailable |-> mgr'.unavailable]
  BY <1>0, <1>4 DEF Manager
<1>6. mgr' \in Manager
  <2>1. mgr'.tracked \in [Names -> Tools \cup {NoTool}]
    BY <1>0, <1>5 DEF Manager
  <2>2. mgr'.failures \in [Names -> Nat]
    BY <1>0, <1>5 DEF Manager
  <2>3. mgr'.unavailable \in [Names -> BOOLEAN]
    BY <1>0, <1>5 DEF Manager
  <2> QED BY <1>5, <2>1, <2>2, <2>3 DEF Manager
<1>7. /\ mgr'.tracked[m] = k
      /\ \A i \in Names \ {m} : mgr'.tracked[i] = IF i = n THEN NoTool ELSE mgr.tracked[i]
  BY <1>0, <1>5 DEF Manager
<1>8. replaced' \subseteq Tools /\ replaced \subseteq replaced'
      /\ \A j \in Tools : j = mgr.tracked[m] => j \in replaced' \/ j = act[a].k
  <2>1. mgr.tracked[m] \in Tools \cup {NoTool}
    BY <1>0 DEF Manager
  <2> QED BY <1>0, <1>1, <1>4, <1>n, <2>1, Numbers DEF TypeOK
<1>9. CASE act[a].op = "execute"
  <2> DEFINE v == [act[a] EXCEPT !.pc = "lookup", !.try = 2, !.why = "none", !.k = NoTool, !.new = NoTool]
  <2>1. act' = [act EXCEPT ![a] = v]
    BY <1>0, <1>9 DEF Swap, TypeOK
  <2>2. /\ v \in Activity /\ v.pc = "lookup" /\ v.why = "none" /\ v.k = NoTool /\ v.new = NoTool
        /\ v.op = "execute" /\ v.name \in Names /\ v.rest = {}
    BY <1>0, <1>1, <1>9, Points, Numbers DEF Activity
  <2> HIDE DEF v
  <2>3. act' \in [Actors -> Activity] /\ act'[a] = v /\ \A b \in Actors \ {a} : act'[b] = act[b]
    BY <1>0, <2>1, <2>2, ActChanges
  <2>4. TypeOK'
    BY <1>0, <1>6, <1>8, <2>3 DEF TypeOK
  <2>5. v.pc \in Executing /\ v.pc \notin InClose /\ v.pc \notin Shutting \cup {"closed"}
    BY <2>2, Points
  <2>6. Phase(a)' /\ Footing(a)' /\ Owned(a)' = {}
    BY <2>2, <2>3, <2>5 DEF Phase, Footing, Reloading, Owned
  <2> QED BY <1>0, <1>2, <1>3, <1>n, <1>5, <1>7, <1>8, <2>3, <2>4, <2>6, InstallStep
<1>10. CASE act[a].op # "execute"
  <2>1. act' \in [Actors -> Activity] /\ act'[a] = Idle /\ \A b \in Actors \ {a} : act'[b] = act[b]
    BY <1>0, <1>10, IdleType, ActChanges DEF Swap, Return
  <2>2. TypeOK'
    BY <1>0, <1>6, <1>8, <2>1 DEF TypeOK
  <2>3. Phase(a)' /\ Footing(a)' /\ Owned(a)' = {}
    BY <2>1, IdlePhase
  <2> QED BY <1>0, <1>2, <1>3, <1>n, <1>5, <1>7, <1>8, <2>1, <2>2, <2>3, InstallStep
<1> QED BY <1>9, <1>10

-----------------------------------------------------------------------------
(* The processes, and the invariance.                                      *)
LEMMA ProcessStep ==
  ASSUME IInv, NEW k \in Tools, Process(k)
  PROVE  IInv'
<1>0. /\ TypeOK /\ tool[k] \in Tool /\ tool[k].proc = "up"
      /\ UNCHANGED <<mgr, act, left, replaced, crashed>> /\ tool \in [Tools -> Tool]
  BY ToolType DEF IInv, Process, Answer, Die, EndOfInput, Alive, TypeOK
<1>1. ASSUME NEW t \in Tool, tool' = [tool EXCEPT ![k] = t], t.name = tool[k].name,
             t.stdin = tool[k].stdin, t.closed = tool[k].closed, t.proc \in {"up", "gone"}
      PROVE  IInv'
  <2>1. /\ tool' \in [Tools -> Tool] /\ tool'[k] = t
        /\ \A j \in Tools \ {k} : tool'[j] = tool[j]
    BY <1>0, <1>1, ToolChanges
  <2>2. Aged(k)
    BY <1>0, <1>1, <2>1 DEF Aged, Tool
  <2>3. \A j \in Tools : Aged(j)
    BY <2>1, <2>2, SameTool
  <2>4. TypeOK'
    BY <1>0, <2>1 DEF TypeOK
  <2> QED BY <1>0, <2>3, <2>4, NobodyActs
<1>2. CASE Answer(k)
  <2>1. PICK reply \in {[id |-> tool[k].id, kind |-> "ok"], [id |-> tool[k].id, kind |-> "error"],
                        [id |-> tool[k].id - 1, kind |-> "ok"]} :
          tool' = [tool EXCEPT ![k].out = reply]
    BY <1>2 DEF Answer
  <2>2. tool[k].id \in Nat /\ tool[k].id - 1 \in Nat
    BY <1>0, <1>2 DEF Answer, Tool
  <2>3. reply \in Reply
    BY <2>2 DEF Reply
  <2> DEFINE t == [tool[k] EXCEPT !.out = reply]
  <2>4. tool' = [tool EXCEPT ![k] = t]
    BY <1>0, <2>1
  <2>5. /\ t \in Tool /\ t.name = tool[k].name /\ t.stdin = tool[k].stdin
        /\ t.closed = tool[k].closed /\ t.proc = "up"
    BY <1>0, <2>3 DEF Tool
  <2> HIDE DEF t
  <2> QED BY <2>4, <2>5, <1>1
<1>3. CASE Die(k) \/ EndOfInput(k)
  <2> DEFINE t == [tool[k] EXCEPT !.proc = "gone"]
  <2>1. tool' = [tool EXCEPT ![k] = t]
    BY <1>0, <1>3 DEF Die, EndOfInput
  <2>2. /\ t \in Tool /\ t.name = tool[k].name /\ t.stdin = tool[k].stdin
        /\ t.closed = tool[k].closed /\ t.proc = "gone"
    BY <1>0 DEF Tool
  <2> HIDE DEF t
  <2> QED BY <2>1, <2>2, <1>1
<1> QED BY <1>2, <1>3 DEF Process

LEMMA Initially == Init => IInv
<1> SUFFICES ASSUME Init PROVE IInv
  OBVIOUS
<1>1. PICK loaded \in SUBSET {1}, n \in Names :
        /\ tool = [k \in Tools |-> IF k \in loaded
                                  THEN [NewTool EXCEPT !.proc = "up", !.name = n]
                                  ELSE NewTool]
        /\ mgr = [mu |-> NoOne,
                  tracked |-> [m \in Names |-> IF m = n /\ loaded # {} THEN 1 ELSE NoTool],
                  failures |-> [m \in Names |-> 0],
                  unavailable |-> [m \in Names |-> FALSE]]
  BY DEF Init
<1>2. 1 \in Tools /\ NoTool # 1
  BY BoundsAssumption DEF Tools, NoTool
<1> DEFINE up == [NewTool EXCEPT !.proc = "up", !.name = n]
<1>3. /\ NewTool \in Tool /\ NewTool.proc = "none" /\ NewTool.stdin /\ ~NewTool.closed
      /\ up \in Tool /\ up.proc = "up" /\ up.stdin /\ ~up.closed /\ up.name = n
  BY DEF NewTool, Tool, Reply, NoReply
<1>4. \A k \in Tools : tool[k] = IF k = 1 /\ loaded # {} THEN up ELSE NewTool
  BY <1>1
<1> HIDE DEF up
<1>5. /\ mgr \in Manager /\ mgr.mu = NoOne
      /\ \A m \in Names : mgr.tracked[m] = IF m = n /\ loaded # {} THEN 1 ELSE NoTool
  BY <1>1, <1>2 DEF Manager
<1>6. tool \in [Tools -> Tool]
  BY <1>1, <1>3 DEF up
<1>7. \A a \in Actors : act[a] = Idle
  BY DEF Init
<1>8. TypeOK
  BY <1>5, <1>6, IdleType, BoundsAssumption DEF TypeOK, Init
<1>9. /\ Idle.pc = "idle" /\ Idle.why = "none" /\ Idle.new = NoTool /\ Idle.rest = {}
      /\ Idle.k = NoTool /\ Idle.op = "none"
  BY DEF Idle
<1>10. /\ Idle.pc \notin InClose /\ Idle.pc \notin Shutting \cup {"closed"} /\ Idle.pc \notin Executing
  BY <1>9, Points
<1>11. ASSUME NEW a \in Actors
       PROVE  Phase(a) /\ Footing(a) /\ Owned(a) = {}
  BY <1>7, <1>9, <1>10 DEF Phase, Footing, Reloading, Owned
<1>12. InService
  BY <1>2, <1>3, <1>4, <1>5 DEF InService
<1>13. Owners
  BY <1>11 DEF Owners
<1>14. Broken
  BY <1>3, <1>4 DEF Broken
<1>15. NoOrphan
  BY <1>2, <1>3, <1>4, <1>5 DEF NoOrphan
<1> QED BY <1>8, <1>11, <1>12, <1>13, <1>14, <1>15 DEF IInv

LEMMA Step == IInv /\ [Next]_vars => IInv'
<1> SUFFICES ASSUME IInv, [Next]_vars PROVE IInv'
  OBVIOUS
<1>1. CASE UNCHANGED vars
  <2>1. TypeOK' /\ \A k \in Tools : Aged(k)
    BY <1>1, SameTool DEF vars, IInv, TypeOK
  <2> QED BY <1>1, <2>1, NobodyActs DEF vars
<1>2. ASSUME NEW k \in Tools, Process(k) PROVE IInv'
  BY <1>2, ProcessStep
<1>3. ASSUME NEW a \in Actors, Begin(a) PROVE IInv'
  BY <1>3, CallSteps, CloseAllStep DEF Begin
<1>4. ASSUME NEW a \in Actors, Proceed(a) PROVE IInv'
  <2>1. CASE Lookup(a) \/ HealthCheck(a)
    BY <2>1, LookupStep
  <2>2. CASE Succeed(a) \/ Count(a) \/ MarkUnavailable(a) \/ Enter(a)
    BY <2>2, BookkeepingSteps
  <2>3. CASE Send(a) \/ Receive(a) \/ Timeout(a)
    BY <2>3, RequestSteps
  <2>4. CASE Close(a) \/ CloseStdin(a) \/ WaitExit(a)
    BY <2>4, CloseSteps
  <2>5. CASE BeginReload(a) \/ LoadPlugin(a) \/ Track(a)
    BY <2>5, BeginReloadStep, LoadPluginStep, TrackStep
  <2>6. CASE Swap(a) \/ SwapFails(a) \/ LoadRefused(a) \/ CloseNext(a)
    BY <2>6, SwapStep, SwapFailsStep, LoadRefusedStep, CloseNextStep
  <2> QED BY <1>4, <2>1, <2>2, <2>3, <2>4, <2>5, <2>6 DEF Proceed
<1> QED BY <1>1, <1>2, <1>3, <1>4 DEF Next

LEMMA Invariance == Spec => []IInv
BY Initially, Step, PTL DEF Spec

-----------------------------------------------------------------------------
(* The records of the manager, the tools and the operations keep their     *)
(* types, whatever plugins answer (manager.go, external.go).               *)
THEOREM TypeCorrect == Spec => []TypeOK
<1>1. IInv => TypeOK
  BY DEF IInv
<1> QED BY <1>1, Invariance, PTL

(* A plugin process that is up is tracked by the manager, or in the hands  *)
(* of the load, reload or close that will stop it, or had its name taken   *)
(* by a second Load, which overwrites the maps of manager.go unasked:      *)
(* failed handshakes, refused contracts and failed swaps leave none.       *)
THEOREM NoProcessIsOrphaned == Spec => []NoOrphan
<1>1. IInv => NoOrphan
  BY DEF IInv
<1> QED BY <1>1, Invariance, PTL

(* Outside a reload, no tool in the manager's map has had its stdin closed *)
(* by Close (external.go), so that an execution that finds it may still    *)
(* write, and one that is closed or broken has no process any more: Close  *)
(* of a reload that fails kills it before the lock is released, and leaves *)
(* the dead tool in the map.                                               *)
THEOREM TrackedWorks == Spec => []TrackedWorksOrIsGone
<1>1. IInv => TrackedWorksOrIsGone
  <2> SUFFICES ASSUME IInv, Free, NEW n \in Names, mgr.tracked[n] # NoTool
               PROVE  /\ tool[mgr.tracked[n]].stdin
                      /\ tool[mgr.tracked[n]].closed => tool[mgr.tracked[n]].proc = "gone"
    BY DEF TrackedWorksOrIsGone
  <2> DEFINE k == mgr.tracked[n]
  <2>1. /\ k \in Tools /\ tool[k] \in Tool /\ tool[k].proc # "none"
        /\ \A a \in Actors : mgr.mu # a
    <3>1. mgr.tracked \in [Names -> Tools \cup {NoTool}] /\ tool \in [Tools -> Tool]
      BY DEF IInv, TypeOK, Manager
    <3>2. k \in Tools
      BY <3>1
    <3>3. tool[k].proc # "none"
      BY DEF IInv, InService
    <3>4. mgr.mu = NoOne
      BY DEF Free
    <3> HIDE DEF k
    <3> QED BY <3>1, <3>2, <3>3, <3>4, Numbers
  <2>2. tool[k].stdin
    BY <2>1 DEF IInv, InService
  <2>3. ASSUME tool[k].closed, tool[k].proc = "up" PROVE FALSE
    <3>1. PICK a \in Actors : act[a].pc \in Shutting /\ act[a].k = k
      BY <2>1, <2>3 DEF IInv, Broken
    <3>2. Phase(a) /\ Footing(a) /\ act[a] \in Activity
      BY <3>1 DEF IInv, TypeOK
    <3>3. act[a].why \in {"refused", "swap", "undo", "all"}
      BY <3>1, <3>2 DEF Phase, InClose, Activity, Reasons
    <3>4. act[a].why # "swap"
      BY <2>1, <3>1, <3>2 DEF Footing, Reloading
    <3>5. k \in Owned(a)
      BY <3>1, <3>3, <3>4 DEF Owned
    <3> QED BY <3>1, <3>5 DEF IInv, Owners
  <2> QED BY <2>1, <2>2, <2>3 DEF Tool
<1> QED BY <1>1, Invariance, PTL
=============================================================================
