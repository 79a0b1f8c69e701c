----------------------- MODULE SessionManager_proofs -----------------------
(***************************************************************************)
(* Proofs about SessionManager for any sets of sessions, actors and        *)
(* callers (finite or not) and any cap, and at the end about the server    *)
(* process around it (ServerLifecycle): inside it the manager behaves as it*)
(* does alone, and an exit with status zero loses nothing.                 *)
(*                                                                         *)
(* The argument: admission is closed before anybody waits, so once a Wait  *)
(* returned nothing can be live again; and every entry the copy of the     *)
(* table misses would have been added after admission closed.              *)
(***************************************************************************)
EXTENDS ServerLifecycle, FiniteSetTheorems, TLAPS

(* A result is recorded exactly from "finished" on.                        *)
FinalInv ==
  \A a \in Actors :
    act[a].finalized <=> ~At(a, {"free", "spawned", "attached", "running"})

(* The state of an actor is final exactly when a result is recorded; the    *)
(* last conjunct of TypeOK.                                                *)
TerminalInv ==
  \A a \in Actors : act[a].finalized <=> act[a].state \in TerminalStates

(* The counter of the WaitGroup counts the live goroutines.                *)
WgInv ==
  /\ IsFiniteSet(Live)
  /\ IsFiniteSet(Occupied)
  /\ wg = Cardinality(Live)

(* What a call of Shutdown may rely on: admission is closed, a Wait that   *)
(* returned found nothing live, and nil is only returned after it.         *)
ShutInv ==
  \A c \in Callers :
    /\ down[c].pc # "idle" => ~accepting
    /\ down[c].waitDone => Live = {} /\ down[c].pc # "idle"
    /\ down[c].ret = "nil" => down[c].waitDone

(* While cancelAllActive runs, an entry is marked or still to be marked.   *)
CancelInv ==
  \A c \in Callers : down[c].pc = "cancelling" =>
    \A a \in InTable : act[a].cancelled \/ a \in down[c].targets

(* The inductive invariant.                                                *)
IInv ==
  /\ TypeOK
  /\ FinalInv
  /\ TableInv
  /\ WgInv
  /\ ShutInv
  /\ CancelInv
  /\ CancelAllReachesEveryone

-----------------------------------------------------------------------------
(* The classification of a finished run is one of the terminal states.     *)
LEMMA ClassifyIsTerminal ==
  \A status, runErr, cancelled :
    ClassifyActorState(status, runErr, cancelled) \in TerminalStates
BY DEF ClassifyActorState, TerminalStates

(* Every step of a goroutine other than its first and last and the one     *)
(* that leaves the table keeps the sets the counters count.                *)
LEMMA SetsKept ==
  ASSUME \A b \in Actors : \/ act'[b].pc = act[b].pc
                           \/ /\ At(b, {"spawned", "attached", "running"})
                              /\ At(b, {"spawned", "attached", "running", "finished"})'
                           \/ /\ At(b, {"removed", "persisted"})
                              /\ At(b, {"removed", "persisted", "doneClosed"})'
  PROVE  Live' = Live /\ InTable' = InTable
BY Zenon DEF Live, InTable, At

(* What the steps need to know of the two sets of states.                  *)
LEMMA StateFacts ==
  /\ {"pending", "running"} \cup TerminalStates \subseteq ActorStates
  /\ "pending" \notin TerminalStates
  /\ "running" \notin TerminalStates
BY DEF ActorStates, TerminalStates

-----------------------------------------------------------------------------
(* Types, and the point at which a result is recorded.                     *)
LEMMA TypeInit == Init => TypeOK /\ FinalInv
BY StateFacts
   DEF Init, TypeOK, FinalInv, At, FreshActor, IdleCall, Actor, Call, Positions

(* Every step keeps the records of the actors typed.                       *)
LEMMA ActTypeStep ==
  ASSUME act \in [Actors -> Actor], [Next]_vars
  PROVE  act' \in [Actors -> Actor]
<1>1. ASSUME NEW s \in SessionIDs, NEW a \in Actors, Start(s, a)
      PROVE  act' \in [Actors -> Actor]
  <2>1. [act[a] EXCEPT !.pc = "spawned", !.sid = s] \in Actor
    BY DEF Actor, Positions
  <2>2. act' = [act EXCEPT ![a] = [act[a] EXCEPT !.pc = "spawned", !.sid = s]]
    BY <1>1 DEF Start, Admitted
  <2>3. QED
    BY <2>1, <2>2
<1>2. ASSUME NEW a \in Actors, AttachCancel(a)
      PROVE  act' \in [Actors -> Actor]
  BY <1>2, ZenonT(40) DEF AttachCancel, Actor, Positions
<1>3. ASSUME NEW a \in Actors, TransitionToRunning(a)
      PROVE  act' \in [Actors -> Actor]
  <2>1. "running" \in ActorStates /\ "running" \in Positions
    BY DEF ActorStates, Positions
  <2>2. QED
    BY <1>3, <2>1, ZenonT(40) DEF TransitionToRunning, Actor
<1>4. ASSUME NEW a \in Actors, NEW status, NEW runErr, Finish(a, status, runErr)
      PROVE  act' \in [Actors -> Actor]
  <2> DEFINE st == ClassifyActorState(status, runErr, act[a].cancelled)
             r == [act[a] EXCEPT !.pc = "finished", !.state = st, !.finalized = TRUE]
  <2>1. "finished" \in Positions /\ st \in ActorStates
    BY ClassifyIsTerminal, StateFacts DEF Positions
  <2>2. act' = [act EXCEPT ![a] = r]
    BY <1>4 DEF Finish
  <2> HIDE DEF st
  <2>3. r \in Actor
    BY <2>1 DEF Actor
  <2>4. QED
    BY <2>2, <2>3
<1>5. ASSUME NEW a \in Actors, RemoveActor(a) \/ PersistFinal(a) \/ WgDone(a)
      PROVE  act' \in [Actors -> Actor]
  <2>1. PICK p \in Positions : act' = [act EXCEPT ![a].pc = p]
    BY <1>5 DEF RemoveActor, PersistFinal, WgDone, Positions
  <2>2. QED
    BY <2>1 DEF Actor
<1>6. ASSUME NEW a \in Actors, CloseDone(a)
      PROVE  act' \in [Actors -> Actor]
  BY <1>6, ZenonT(40) DEF CloseDone, Actor, Positions
<1>7. ASSUME NEW a \in Actors, MarkCancelled(a)
      PROVE  act' \in [Actors -> Actor]
  BY <1>7, ZenonT(40) DEF MarkCancelled, Actor
<1>8. CASE UNCHANGED act
  BY <1>8
<1>9. QED
  BY <1>1, <1>2, <1>3, <1>4, <1>5, <1>6, <1>7, <1>8
     DEF Next, RunActor, RunReturns, NewRunnerFails, ShutdownStep, vars, Cancel, CancelNext,
         ShutdownBegin, WaitReturns, ShutdownDrained, CancelAllBegin, CancelAllEnd, ShutdownGivesUp

(* Every step keeps the types and the point at which a result is recorded. *)
LEMMA TypeStep == TypeOK /\ FinalInv /\ [Next]_vars => TypeOK' /\ FinalInv'
<1> SUFFICES ASSUME TypeOK, FinalInv, [Next]_vars
             PROVE  TypeOK' /\ FinalInv'
  OBVIOUS
<1>1. act' \in [Actors -> Actor]
  BY ActTypeStep DEF TypeOK
<1> USE DEF TerminalInv
<1>2. ASSUME NEW a \in Actors, MarkCancelled(a)
      PROVE  FinalInv' /\ TerminalInv'
  BY <1>2, StateFacts DEF TypeOK, FinalInv, At, MarkCancelled, Actor
<1>3. ASSUME NEW a \in Actors, RunActor(a)
      PROVE  FinalInv' /\ TerminalInv'
  <2>1. ASSUME NEW status, NEW runErr, Finish(a, status, runErr)
        PROVE  FinalInv' /\ TerminalInv'
    <3>1. ClassifyActorState(status, runErr, act[a].cancelled) \in TerminalStates
      BY ClassifyIsTerminal
    <3>2. QED
      BY <2>1, <3>1 DEF TypeOK, FinalInv, At, Finish, Actor
  <2>2. ASSUME TransitionToRunning(a)
        PROVE  FinalInv' /\ TerminalInv'
    BY <2>2, StateFacts DEF TypeOK, FinalInv, At, TransitionToRunning, Actor
  <2>3. ASSUME \/ AttachCancel(a) \/ RemoveActor(a) \/ PersistFinal(a)
               \/ CloseDone(a) \/ WgDone(a)
        PROVE  FinalInv' /\ TerminalInv'
    BY <2>3 DEF TypeOK, FinalInv, At, Actor, AttachCancel, RemoveActor, PersistFinal,
                CloseDone, WgDone
  <2>4. QED
    BY <1>3, <2>1, <2>2, <2>3 DEF RunActor, RunReturns, NewRunnerFails

<1>4. ASSUME NEW s \in SessionIDs, NEW a \in Actors, Start(s, a)
      PROVE  FinalInv' /\ TerminalInv'
  BY <1>4 DEF TypeOK, FinalInv, At, Start, Admitted, Actor
<1>5. ASSUME UNCHANGED act
      PROVE  FinalInv' /\ TerminalInv'
  BY <1>5 DEF TypeOK, FinalInv, At
<1> HIDE DEF TerminalInv
<1>6. FinalInv' /\ TerminalInv'
  BY <1>2, <1>3, <1>4, <1>5
     DEF Next, ShutdownStep, vars, Cancel, CancelNext, ShutdownBegin, WaitReturns,
         ShutdownDrained, CancelAllBegin, CancelAllEnd, ShutdownGivesUp
<1>7. /\ actors' \in [SessionIDs -> Actors \cup {NoActor}]
      /\ activeCount' \in Nat
      /\ accepting' \in BOOLEAN
      /\ wg' \in Int
  <2>1. ASSUME NEW a \in Actors, RunActor(a)
        PROVE  /\ actors' \in [SessionIDs -> Actors \cup {NoActor}]
               /\ activeCount' \in Nat
               /\ accepting' \in BOOLEAN
               /\ wg' \in Int
    <3>1. CASE RemoveActor(a)
      <4>1. activeCount' \in Nat
        BY <3>1 DEF TypeOK, RemoveActor
      <4>2. actors' \in [SessionIDs -> Actors \cup {NoActor}]
        BY <3>1 DEF TypeOK, RemoveActor
      <4>3. QED
        BY <3>1, <4>1, <4>2 DEF TypeOK, RemoveActor
    <3>2. CASE WgDone(a)
      BY <3>2 DEF TypeOK, WgDone
    <3>3. CASE UNCHANGED <<actors, activeCount, accepting, wg>>
      BY <3>3 DEF TypeOK
    <3>4. QED
      BY <2>1, <3>1, <3>2, <3>3
         DEF RunActor, AttachCancel, TransitionToRunning, NewRunnerFails, RunReturns,
             Finish, PersistFinal, CloseDone
  <2>2. ASSUME NEW s \in SessionIDs, NEW a \in Actors, Start(s, a)
        PROVE  /\ actors' \in [SessionIDs -> Actors \cup {NoActor}]
               /\ activeCount' \in Nat
               /\ accepting' \in BOOLEAN
               /\ wg' \in Int
    BY <2>2 DEF TypeOK, Start, Admitted
  <2>3. QED
    BY <2>1, <2>2
       DEF TypeOK, Next, ShutdownStep, vars, Cancel, CancelNext, ShutdownBegin, WaitReturns,
           ShutdownDrained, CancelAllBegin, CancelAllEnd, ShutdownGivesUp
<1>8. down' \in [Callers -> Call]
  <2>1. ASSUME NEW c \in Callers, ShutdownBegin(c) \/ WaitReturns(c) \/ CancelAllEnd(c)
        PROVE  down' \in [Callers -> Call]
    <3>1. CASE ShutdownBegin(c)
      BY <3>1 DEF TypeOK, Call, ShutdownBegin
    <3>2. CASE WaitReturns(c)
      BY <3>2, ZenonT(40) DEF TypeOK, Call, WaitReturns
    <3>3. CASE CancelAllEnd(c)
      BY <3>3 DEF TypeOK, Call, CancelAllEnd
    <3>4. QED
      BY <2>1, <3>1, <3>2, <3>3
  <2>2. ASSUME NEW c \in Callers, NEW r \in {"nil", "ctxErr"},
               down' = [down EXCEPT ![c].pc = "returned", ![c].ret = r]
        PROVE  down' \in [Callers -> Call]
    <3>1. [down[c] EXCEPT !.pc = "returned", !.ret = r] \in Call
      BY <2>2 DEF TypeOK, Call
    <3>2. down' = [down EXCEPT ![c] = [down[c] EXCEPT !.pc = "returned", !.ret = r]]
      BY <2>2 DEF TypeOK
    <3>3. QED
      BY <3>1, <3>2 DEF TypeOK
  <2>3. ASSUME NEW c \in Callers, NEW branch \in {"timer", "ctx"}, CancelAllBegin(c, branch)
        PROVE  down' \in [Callers -> Call]
    <3> DEFINE copy == {actors[s] : s \in Occupied}
    <3>1. copy \subseteq Actors
      BY DEF TypeOK, Occupied
    <3>2. down' = [down EXCEPT ![c] = [down[c] EXCEPT !.pc = "cancelling", !.branch = branch,
                                                      !.targets = copy]]
      BY <2>3 DEF TypeOK, CancelAllBegin
    <3> HIDE DEF copy
    <3>3. [down[c] EXCEPT !.pc = "cancelling", !.branch = branch, !.targets = copy] \in Call
      BY <3>1 DEF TypeOK, Call
    <3>4. QED
      BY <3>2, <3>3 DEF TypeOK
  <2>4. ASSUME NEW c \in Callers, NEW a \in Actors, CancelNext(c, a)
        PROVE  down' \in [Callers -> Call]
    BY <2>4 DEF TypeOK, Call, CancelNext
  <2>5. QED
    BY <2>1, <2>2, <2>3, <2>4
       DEF TypeOK, Next, ShutdownStep, vars, Cancel, Start, Admitted, RunActor, AttachCancel,
           TransitionToRunning, NewRunnerFails, RunReturns, Finish, RemoveActor, PersistFinal,
           CloseDone, WgDone, ShutdownDrained, ShutdownGivesUp
<1>9. QED
  BY <1>1, <1>6, <1>7, <1>8 DEF TypeOK, TerminalInv

-----------------------------------------------------------------------------
(* The four kinds of step, by what they do to the sets that are counted.   *)
Admits(s, a) ==
  /\ Start(s, a)
  /\ a \notin Live
  /\ Live' = Live \cup {a}
  /\ InTable' = InTable \cup {a}

Leaves(a) ==
  /\ RemoveActor(a)
  /\ a \in InTable
  /\ Live' = Live
  /\ InTable' = InTable \ {a}

Ends(a) ==
  /\ WgDone(a)
  /\ a \in Live
  /\ Live' = Live \ {a}
  /\ InTable' = InTable

Keeps ==
  /\ UNCHANGED <<actors, activeCount, wg>>
  /\ accepting' \in {FALSE, accepting}
  /\ Live' = Live
  /\ InTable' = InTable
  /\ \A a \in Actors : act'[a].sid = act[a].sid

(* Every step admits an actor, takes one out of the table, ends one, or    *)
(* leaves the sets that the counters count as they are.                    *)
LEMMA StepKinds ==
  ASSUME TypeOK, [Next]_vars
  PROVE  \/ \E s \in SessionIDs, a \in Actors : Admits(s, a)
         \/ \E a \in Actors : Leaves(a)
         \/ \E a \in Actors : Ends(a)
         \/ Keeps
<1>1. act \in [Actors -> Actor]
  BY DEF TypeOK
<1>2. ASSUME NEW s \in SessionIDs, NEW a \in Actors, Start(s, a)
      PROVE  Admits(s, a)
  BY <1>1, <1>2 DEF Admits, Start, Admitted, Live, InTable, At, Actor
<1>3. ASSUME NEW a \in Actors, RemoveActor(a)
      PROVE  Leaves(a)
  BY <1>1, <1>3 DEF Leaves, RemoveActor, Live, InTable, At, Actor
<1>4. ASSUME NEW a \in Actors, WgDone(a)
      PROVE  Ends(a)
  BY <1>1, <1>4 DEF Ends, WgDone, Live, InTable, At, Actor
<1>5. ASSUME NEW a \in Actors, AttachCancel(a)
      PROVE  Keeps
  BY <1>1, <1>5 DEF Keeps, AttachCancel, Live, InTable, At, Actor
<1>6. ASSUME NEW a \in Actors, TransitionToRunning(a)
      PROVE  Keeps
  BY <1>1, <1>6 DEF Keeps, TransitionToRunning, Live, InTable, At, Actor
<1>7. ASSUME NEW a \in Actors, NEW status, NEW runErr, Finish(a, status, runErr)
      PROVE  Keeps
  BY <1>1, <1>7 DEF Keeps, Finish, Live, InTable, At, Actor
<1>8. ASSUME NEW a \in Actors, PersistFinal(a)
      PROVE  Keeps
  BY <1>1, <1>8 DEF Keeps, PersistFinal, Live, InTable, At, Actor
<1>9. ASSUME NEW a \in Actors, CloseDone(a)
      PROVE  Keeps
  BY <1>1, <1>9 DEF Keeps, CloseDone, Live, InTable, At, Actor
<1>10. ASSUME NEW a \in Actors, Cancel(a)
       PROVE  Keeps
  BY <1>1, <1>10 DEF Keeps, Cancel, MarkCancelled, Live, InTable, At, Actor
<1>11. ASSUME NEW c \in Callers, NEW a \in Actors, CancelNext(c, a)
       PROVE  Keeps
  BY <1>1, <1>11 DEF Keeps, CancelNext, MarkCancelled, Live, InTable, At, Actor
<1>12. ASSUME UNCHANGED <<actors, activeCount, wg, act>>, accepting' \in {FALSE, accepting}
       PROVE  Keeps
  BY <1>12 DEF Keeps, Live, InTable, At
<1>13. ASSUME NEW c \in Callers, ShutdownStep(c)
       PROVE  Keeps
  <2>1. \/ \E a \in Actors : CancelNext(c, a)
        \/ UNCHANGED <<actors, activeCount, wg, act>> /\ accepting' \in {FALSE, accepting}
    BY <1>13 DEF ShutdownStep, ShutdownBegin, WaitReturns, ShutdownDrained, CancelAllBegin,
                 CancelAllEnd, ShutdownGivesUp
  <2>2. QED
    BY <1>11, <1>12, <2>1
<1>14. ASSUME UNCHANGED vars
       PROVE  Keeps
  BY <1>12, <1>14 DEF vars
<1>15. QED
  BY <1>2, <1>3, <1>4, <1>5, <1>6, <1>7, <1>8, <1>9, <1>10, <1>13, <1>14
     DEF Next, RunActor, RunReturns, NewRunnerFails

-----------------------------------------------------------------------------
(* Every step keeps the table, the cap and the active count in agreement.  *)
LEMMA TableStep ==
  ASSUME TypeOK, TypeOK', TableInv, WgInv, [Next]_vars
  PROVE  TableInv' /\ WgInv'
<1>1. ASSUME NEW s \in SessionIDs, NEW a \in Actors, Admits(s, a)
      PROVE  TableInv' /\ WgInv'
  <2>1. Occupied' = Occupied \cup {s} /\ s \notin Occupied
    BY <1>1, NoActorAssumption DEF Admits, Start, Admitted, Occupied, TypeOK
  <2>2. IsFiniteSet(Occupied') /\ Cardinality(Occupied') = Cardinality(Occupied) + 1
    BY <2>1, FS_AddElement DEF WgInv
  <2>3. IsFiniteSet(Live') /\ Cardinality(Live') = Cardinality(Live) + 1
    BY <1>1, FS_AddElement DEF WgInv, Admits
  <2>4. wg' = wg + 1 /\ activeCount' = activeCount + 1 /\ activeCount' <= Cap
    BY <1>1, CapAssumption DEF Admits, Start, Admitted, TypeOK
  <2>5. act'[a].sid = s /\ \A b \in Actors \ {a} : act'[b].sid = act[b].sid
    BY <1>1 DEF Admits, Start, Admitted, TypeOK, Actor
  <2>6. actors'[s] = a /\ \A t \in SessionIDs \ {s} : actors'[t] = actors[t]
    BY <1>1 DEF Admits, Start, Admitted, TypeOK
  <2>7. s \notin Occupied /\ a \notin InTable /\ InTable' = InTable \cup {a}
    BY <1>1, <2>1 DEF Admits, Live, InTable, At
  <2>8. InTable \subseteq Actors /\ InTable' \subseteq Actors
    BY DEF InTable
  <2>9. \A t \in Occupied' : actors'[t] \in InTable' /\ act'[actors'[t]].sid = t
    BY <2>1, <2>5, <2>6, <2>7, <2>8 DEF TableInv, Occupied
  <2>10. \A b \in InTable' : act'[b].sid \in SessionIDs /\ actors'[act'[b].sid] = b
    <3>1. ASSUME NEW b \in InTable
          PROVE  act'[b].sid \in SessionIDs /\ actors'[act'[b].sid] = b
      <4>1. b \in Actors /\ b # a /\ b # NoActor
        BY <2>7, <2>8, NoActorAssumption
      <4>2. act[b].sid \in SessionIDs /\ actors[act[b].sid] = b
        BY <3>1 DEF TableInv
      <4>3. act[b].sid # s
        BY <2>7, <4>1, <4>2 DEF Occupied
      <4>4. QED
        BY <2>5, <2>6, <4>1, <4>2, <4>3
    <3>2. QED
      BY <2>5, <2>6, <2>7, <3>1
  <2>11. QED
    BY <2>2, <2>3, <2>4, <2>9, <2>10 DEF TableInv, WgInv
<1>2. ASSUME NEW a \in Actors, Leaves(a)
      PROVE  TableInv' /\ WgInv'
  <2> DEFINE s == act[a].sid
  <2>1. s \in SessionIDs /\ actors[s] = a /\ s \in Occupied
    BY <1>2, NoActorAssumption DEF Leaves, TableInv, Occupied
  <2>2. actors'[s] = NoActor /\ \A t \in SessionIDs \ {s} : actors'[t] = actors[t]
    BY <1>2, <2>1 DEF Leaves, RemoveActor, TypeOK
  <2>3. Occupied' = Occupied \ {s}
    BY <2>1, <2>2 DEF Occupied
  <2>4. \A b \in Actors : act'[b].sid = act[b].sid
    BY <1>2 DEF Leaves, RemoveActor, TypeOK, Actor
  <2>5. InTable' = InTable \ {a} /\ InTable \subseteq Actors
    BY <1>2 DEF Leaves, InTable
  <2> HIDE DEF s
  <2>6. /\ IsFiniteSet(Occupied')
        /\ Cardinality(Occupied') = Cardinality(Occupied) - 1
        /\ Cardinality(Occupied) \in Nat \ {0}
    BY <2>1, <2>3, FS_RemoveElement, FS_EmptySet, FS_CardinalityType DEF WgInv
  <2>7. activeCount' = activeCount - 1
    BY <1>2, <2>6 DEF Leaves, RemoveActor, TableInv
  <2>8. \A t \in Occupied' : actors'[t] \in InTable' /\ act'[actors'[t]].sid = t
    <3>1. ASSUME NEW t \in Occupied'
          PROVE  actors'[t] \in InTable' /\ act'[actors'[t]].sid = t
      <4>1. t \in Occupied /\ t # s /\ t \in SessionIDs
        BY <2>3 DEF Occupied
      <4>2. actors[t] \in InTable /\ act[actors[t]].sid = t
        BY <4>1 DEF TableInv
      <4>3. actors[t] # a
        BY <4>1, <4>2 DEF s
      <4>4. QED
        BY <2>2, <2>4, <2>5, <4>1, <4>2, <4>3
    <3>2. QED
      BY <3>1
  <2>9. \A b \in InTable' : act'[b].sid \in SessionIDs /\ actors'[act'[b].sid] = b
    <3>1. ASSUME NEW b \in InTable'
          PROVE  act'[b].sid \in SessionIDs /\ actors'[act'[b].sid] = b
      <4>1. b \in InTable /\ b # a /\ b \in Actors
        BY <2>5
      <4>2. act[b].sid \in SessionIDs /\ actors[act[b].sid] = b
        BY <4>1 DEF TableInv
      <4>3. act[b].sid # s
        BY <2>1, <4>1, <4>2
      <4>4. QED
        BY <2>2, <2>4, <4>1, <4>2, <4>3
    <3>2. QED
      BY <3>1
  <2>10. wg' = wg /\ Live' = Live
    BY <1>2 DEF Leaves, RemoveActor
  <2>11. QED
    BY <2>6, <2>7, <2>8, <2>9, <2>10, CapAssumption DEF TableInv, WgInv
<1>3. ASSUME NEW a \in Actors, Ends(a)
      PROVE  TableInv' /\ WgInv'
  <2>1. IsFiniteSet(Live') /\ Cardinality(Live') = Cardinality(Live) - 1
    BY <1>3, FS_RemoveElement DEF Ends, WgInv
  <2>2. UNCHANGED <<actors, activeCount>> /\ wg' = wg - 1 /\ InTable' = InTable
    BY <1>3 DEF Ends, WgDone
  <2>3. \A b \in Actors : act'[b].sid = act[b].sid
    BY <1>3 DEF Ends, WgDone, TypeOK, Actor
  <2>4. QED
    BY <2>1, <2>2, <2>3 DEF TableInv, WgInv, Occupied, InTable
<1>4. ASSUME Keeps
      PROVE  TableInv' /\ WgInv'
  BY <1>4 DEF Keeps, TableInv, WgInv, Occupied, InTable
<1>5. QED
  BY <1>1, <1>2, <1>3, <1>4, StepKinds

-----------------------------------------------------------------------------
(* Shutdown: a step of a goroutine cannot spoil what a call relies on.     *)
ShutGoal == ShutInv /\ CancelInv /\ CancelAllReachesEveryone

(* No step takes the mark off a cancelled actor.                           *)
LEMMA CancelledKept ==
  ASSUME TypeOK, [Next]_vars
  PROVE  \A a \in Actors : act[a].cancelled => act'[a].cancelled
<1>1. act \in [Actors -> Actor]
  BY DEF TypeOK
<1>2. ASSUME NEW a \in Actors, MarkCancelled(a)
      PROVE  \A b \in Actors : act[b].cancelled => act'[b].cancelled
  BY <1>1, <1>2 DEF MarkCancelled, Actor
<1>3. ASSUME NEW a \in Actors, RunActor(a)
      PROVE  \A b \in Actors : act[b].cancelled => act'[b].cancelled
  <2>1. ASSUME NEW status, NEW runErr, Finish(a, status, runErr)
        PROVE  \A b \in Actors : act[b].cancelled => act'[b].cancelled
    BY <1>1, <2>1 DEF Finish, Actor
  <2>2. ASSUME AttachCancel(a) \/ TransitionToRunning(a) \/ CloseDone(a)
        PROVE  \A b \in Actors : act[b].cancelled => act'[b].cancelled
    BY <1>1, <2>2 DEF AttachCancel, TransitionToRunning, CloseDone, Actor
  <2>3. ASSUME RemoveActor(a) \/ PersistFinal(a) \/ WgDone(a)
        PROVE  \A b \in Actors : act[b].cancelled => act'[b].cancelled
    BY <1>1, <2>3 DEF RemoveActor, PersistFinal, WgDone, Actor
  <2>4. QED
    BY <1>3, <2>1, <2>2, <2>3 DEF RunActor, RunReturns, NewRunnerFails
<1>4. ASSUME NEW s \in SessionIDs, NEW a \in Actors, Start(s, a)
      PROVE  \A b \in Actors : act[b].cancelled => act'[b].cancelled
  BY <1>1, <1>4 DEF Start, Admitted, Actor
<1>5. ASSUME UNCHANGED act
      PROVE  \A b \in Actors : act[b].cancelled => act'[b].cancelled
  BY <1>5
<1>6. QED
  BY <1>2, <1>3, <1>4, <1>5
     DEF Next, ShutdownStep, vars, Cancel, CancelNext, ShutdownBegin, WaitReturns,
         ShutdownDrained, CancelAllBegin, CancelAllEnd, ShutdownGivesUp

(* The sets only shrink once a call of Shutdown has begun.                 *)
LEMMA ShrinkOnly ==
  ASSUME TypeOK, [Next]_vars, ~accepting
  PROVE  Live' \subseteq Live /\ InTable' \subseteq InTable /\ ~accepting'
<1>1. ASSUME NEW s \in SessionIDs, NEW a \in Actors, Admits(s, a)
      PROVE  FALSE
  BY <1>1 DEF Admits, Start, Admitted
<1>2. ASSUME NEW a \in Actors, Leaves(a)
      PROVE  Live' \subseteq Live /\ InTable' \subseteq InTable /\ ~accepting'
  BY <1>2 DEF Leaves, RemoveActor
<1>3. ASSUME NEW a \in Actors, Ends(a)
      PROVE  Live' \subseteq Live /\ InTable' \subseteq InTable /\ ~accepting'
  BY <1>3 DEF Ends, WgDone
<1>4. ASSUME Keeps
      PROVE  Live' \subseteq Live /\ InTable' \subseteq InTable /\ ~accepting'
  <2>1. CASE accepting' = FALSE
    BY <1>4, <2>1 DEF Keeps
  <2>2. CASE accepting' = accepting
    BY <1>4, <2>2 DEF Keeps
  <2>3. QED
    BY <1>4, <2>1, <2>2 DEF Keeps
<1>5. \/ \E s \in SessionIDs, a \in Actors : Admits(s, a)
      \/ \E a \in Actors : Leaves(a)
      \/ \E a \in Actors : Ends(a)
      \/ Keeps
  BY StepKinds
<1>6. QED
  BY <1>1, <1>2, <1>3, <1>4, <1>5

(* Every step keeps what the calls of Shutdown rely on.                    *)
LEMMA ShutStep ==
  ASSUME IInv, [Next]_vars
  PROVE  ShutGoal'
<1>1. /\ down \in [Callers -> Call]
      /\ InTable \subseteq Actors
      /\ \A a \in Actors : act[a].cancelled => act'[a].cancelled
  BY CancelledKept DEF IInv, TypeOK, InTable
<1>2. ASSUME ~accepting
      PROVE  Live' \subseteq Live /\ InTable' \subseteq InTable /\ ~accepting'
  BY <1>2, ShrinkOnly DEF IInv
<1>3. ASSUME UNCHANGED down
      PROVE  ShutGoal'
  <2> SUFFICES ASSUME NEW c \in Callers
               PROVE  /\ down'[c].pc # "idle" => ~accepting'
                      /\ down'[c].waitDone => Live' = {} /\ down'[c].pc # "idle"
                      /\ down'[c].ret = "nil" => down'[c].waitDone
                      /\ down'[c].pc = "cancelling" =>
                           \A a \in InTable' : act'[a].cancelled \/ a \in down'[c].targets
                      /\ down'[c].pc \in {"drain", "select2"} =>
                           \A a \in InTable' : act'[a].cancelled
    BY DEF ShutGoal, ShutInv, CancelInv, CancelAllReachesEveryone
  <2>1. CASE down[c].pc = "idle"
    BY <1>3, <2>1 DEF IInv, ShutInv
  <2>2. CASE down[c].pc # "idle"
    <3>1. ~accepting
      BY <2>2 DEF IInv, ShutInv
    <3>2. QED
      BY <1>1, <1>2, <1>3, <3>1 DEF IInv, ShutInv, CancelInv, CancelAllReachesEveryone
  <2>3. QED
    BY <2>1, <2>2
<1>4. ASSUME UNCHANGED act
      PROVE  Live' = Live /\ InTable' = InTable
  BY <1>4 DEF Live, InTable, At
<1>5. ASSUME NEW c \in Callers, ShutdownBegin(c)
      PROVE  ShutGoal'
  BY <1>1, <1>4, <1>5
     DEF IInv, ShutGoal, ShutInv, CancelInv, CancelAllReachesEveryone, ShutdownBegin, Call
<1>6. ASSUME NEW c \in Callers, WaitReturns(c)
      PROVE  ShutGoal'
  <2>1. Live = {}
    BY <1>6, FS_EmptySet DEF IInv, WgInv, WaitReturns
  <2>2. QED
    BY <1>1, <1>4, <1>6, <2>1
       DEF IInv, ShutGoal, ShutInv, CancelInv, CancelAllReachesEveryone, WaitReturns, Call
<1>7. ASSUME NEW c \in Callers, ShutdownDrained(c)
      PROVE  ShutGoal'
  BY <1>1, <1>4, <1>7
     DEF IInv, ShutGoal, ShutInv, CancelInv, CancelAllReachesEveryone, ShutdownDrained, Call
<1>8. ASSUME NEW c \in Callers, NEW branch \in {"timer", "ctx"}, CancelAllBegin(c, branch)
      PROVE  ShutGoal'
  <2> DEFINE copy == {actors[s] : s \in Occupied}
  <2>1. InTable \subseteq copy
    BY NoActorAssumption, <1>1 DEF IInv, TableInv, Occupied
  <2>2. down' = [down EXCEPT ![c] = [down[c] EXCEPT !.pc = "cancelling", !.branch = branch,
                                                    !.targets = copy]]
    BY <1>1, <1>8 DEF CancelAllBegin
  <2>3. UNCHANGED <<act, accepting>> /\ down[c].pc = "select"
    BY <1>8 DEF CancelAllBegin
  <2> HIDE DEF copy
  <2>4. QED
    BY <1>1, <1>4, <2>1, <2>2, <2>3
       DEF IInv, ShutGoal, ShutInv, CancelInv, CancelAllReachesEveryone, Call
<1>9. ASSUME NEW c \in Callers, NEW a \in Actors, CancelNext(c, a)
      PROVE  ShutGoal'
  <2>1. ~accepting /\ ~accepting'
    BY <1>9 DEF CancelNext, IInv, ShutInv
  <2>2. act'[a].cancelled
    BY <1>9 DEF CancelNext, MarkCancelled, IInv, TypeOK, Actor
  <2>3. Live' \subseteq Live /\ InTable' \subseteq InTable
    BY <1>2, <2>1
  <2>4. down' = [down EXCEPT ![c].targets = @ \ {a}]
    BY <1>9 DEF CancelNext
  <2>5. QED
    BY <1>1, <2>1, <2>2, <2>3, <2>4
       DEF IInv, ShutGoal, ShutInv, CancelInv, CancelAllReachesEveryone, Call
<1>10. ASSUME NEW c \in Callers, CancelAllEnd(c)
       PROVE  ShutGoal'
  BY <1>1, <1>4, <1>10
     DEF IInv, ShutGoal, ShutInv, CancelInv, CancelAllReachesEveryone, CancelAllEnd, Call
<1>11. ASSUME NEW c \in Callers, ShutdownGivesUp(c)
       PROVE  ShutGoal'
  BY <1>1, <1>4, <1>11
     DEF IInv, ShutGoal, ShutInv, CancelInv, CancelAllReachesEveryone, ShutdownGivesUp, Call
<1>12. QED
  BY <1>3, <1>5, <1>6, <1>7, <1>8, <1>9, <1>10, <1>11
     DEF Next, ShutdownStep, vars, Cancel, Start, Admitted, RunActor, AttachCancel, TransitionToRunning,
         NewRunnerFails, RunReturns, Finish, RemoveActor, PersistFinal, CloseDone, WgDone

-----------------------------------------------------------------------------
(* The inductive invariant holds in every reachable state.                 *)
THEOREM Invariance == Spec => []IInv
<1>1. Init => IInv
  <2> SUFFICES ASSUME Init
               PROVE  IInv
    OBVIOUS
  <2>1. TypeOK /\ FinalInv
    BY TypeInit
  <2>2. Live = {} /\ InTable = {} /\ Occupied = {}
    BY DEF Init, Live, InTable, Occupied, At, FreshActor
  <2>3. TableInv /\ WgInv
    BY <2>2, FS_EmptySet, CapAssumption DEF Init, TableInv, WgInv
  <2>4. ShutInv /\ CancelInv /\ CancelAllReachesEveryone
    BY DEF Init, IdleCall, ShutInv, CancelInv, CancelAllReachesEveryone
  <2>5. QED
    BY <2>1, <2>3, <2>4 DEF IInv
<1>2. IInv /\ [Next]_vars => IInv'
  <2> SUFFICES ASSUME IInv, [Next]_vars
               PROVE  IInv'
    OBVIOUS
  <2>1. TypeOK' /\ FinalInv'
    BY TypeStep DEF IInv
  <2>2. TableInv' /\ WgInv'
    BY <2>1, TableStep DEF IInv
  <2>3. QED
    BY <2>1, <2>2, ShutStep DEF IInv, ShutGoal
<1>3. QED
  BY <1>1, <1>2, PTL DEF Spec

(* The fields of the manager keep their types, for any number of sessions, *)
(* actors and callers of Shutdown.                                         *)
THEOREM TypesCorrect == Spec => []TypeOK
BY Invariance, PTL DEF IInv

(* Start, completeActor and the deferred calls of runActor keep the table, *)
(* the active count and the cap in agreement: a session never has two      *)
(* actors and the cap is never exceeded.                                   *)
THEOREM TableCorrect == Spec => []TableInv
BY Invariance, PTL DEF IInv

(* Shutdown that returns nil leaves no goroutine of an actor behind.       *)
THEOREM DrainCorrect == Spec => []DrainedMeansGone
<1>1. IInv => DrainedMeansGone
  BY DEF IInv, ShutInv, DrainedMeansGone
<1>2. QED
  BY <1>1, Invariance, PTL

(* cancelAllActive misses no actor, although it works on a copy that it    *)
(* took before it marked the first one.                                    *)
THEOREM CancelAllCorrect == Spec => []CancelAllReachesEveryone
BY Invariance, PTL DEF IInv

(* No wg.Add happens after a wg.Wait of Shutdown has begun: Start refuses. *)
THEOREM WaitGroupCorrect == Spec => WaitGroupNeverGrows
<1>1. IInv /\ [Next]_vars => [(\E c \in Callers : down[c].pc # "idle") => wg' <= wg]_vars
  <2> SUFFICES ASSUME IInv, [Next]_vars, NEW c \in Callers, down[c].pc # "idle"
               PROVE  wg' <= wg
    BY DEF vars
  <2>1. ~accepting /\ wg \in Int
    BY DEF IInv, ShutInv, TypeOK
  <2>2. wg' = wg \/ wg' = wg - 1
    BY <2>1, StepKinds DEF IInv, Admits, Start, Admitted, Leaves, RemoveActor, Ends, WgDone, Keeps
  <2>3. QED
    BY <2>1, <2>2
<1>2. QED
  BY <1>1, Invariance, PTL DEF Spec, WaitGroupNeverGrows

(* A recorded result is final, and an actor marked before it finished is   *)
(* recorded as cancelled.                                                  *)
Final(a) ==
  /\ act[a].finalized => act'[a].state = act[a].state
  /\ ~act[a].finalized /\ act'[a].finalized /\ act[a].cancelled
       => act'[a].state = "cancelled"

(* The state that finish records is never changed again, and an actor that *)
(* was cancelled before finish is recorded as cancelled.                   *)
THEOREM ResultsCorrect == Spec => ResultsAreFinal
<1>1. ASSUME IInv, [Next]_vars
      PROVE  \A a \in Actors : Final(a)
  <2>1. act \in [Actors -> Actor] /\ FinalInv
    BY <1>1 DEF IInv, TypeOK
  <2>2. ASSUME NEW a \in Actors, NEW status, NEW runErr, Finish(a, status, runErr)
        PROVE  \A b \in Actors : Final(b)
    <3>1. act[a].cancelled => ClassifyActorState(status, runErr, act[a].cancelled) = "cancelled"
      BY DEF ClassifyActorState
    <3>2. QED
      BY <2>1, <2>2, <3>1 DEF Final, FinalInv, Finish, At, Actor
  <2>3. ASSUME NEW a \in Actors, TransitionToRunning(a)
        PROVE  \A b \in Actors : Final(b)
    BY <2>1, <2>3 DEF Final, FinalInv, TransitionToRunning, At, Actor
  <2>4. ASSUME NEW a \in Actors, AttachCancel(a) \/ CloseDone(a) \/ MarkCancelled(a)
        PROVE  \A b \in Actors : Final(b)
    BY <2>1, <2>4 DEF Final, AttachCancel, CloseDone, MarkCancelled, Actor
  <2>5. ASSUME NEW a \in Actors, RemoveActor(a) \/ PersistFinal(a) \/ WgDone(a)
        PROVE  \A b \in Actors : Final(b)
    BY <2>1, <2>5 DEF Final, RemoveActor, PersistFinal, WgDone, Actor
  <2>6. ASSUME NEW s \in SessionIDs, NEW a \in Actors, Start(s, a)
        PROVE  \A b \in Actors : Final(b)
    BY <2>1, <2>6 DEF Final, Start, Admitted, Actor
  <2>7. ASSUME UNCHANGED act
        PROVE  \A b \in Actors : Final(b)
    BY <2>7 DEF Final
  <2>8. QED
    BY <1>1, <2>2, <2>3, <2>4, <2>5, <2>6, <2>7
       DEF Next, RunActor, RunReturns, NewRunnerFails, ShutdownStep, vars, Cancel, CancelNext,
           ShutdownBegin, WaitReturns, ShutdownDrained, CancelAllBegin, CancelAllEnd,
           ShutdownGivesUp
<1>2. IInv /\ [Next]_vars => [\A a \in Actors : Final(a)]_vars
  BY <1>1
<1>3. QED
  BY <1>2, Invariance, PTL DEF Spec, ResultsAreFinal, Final

-----------------------------------------------------------------------------
(* Every step of the manager is a step of the slots or leaves them alone.  *)
LEMMA SlotsStep ==
  ASSUME IInv, [Next]_vars
  PROVE  [Slots!Next]_(Slots!slotVars)
<1> DEFINE drained == \E c \in Callers : down[c].waitDone
<1>1. /\ down \in [Callers -> Call]
      /\ act \in [Actors -> Actor]
      /\ InTable \subseteq Live /\ Live \subseteq Actors
  BY DEF IInv, TypeOK, InTable, Live, At
<1>2. ASSUME NEW s \in SessionIDs, NEW a \in Actors, Admits(s, a)
      PROVE  Slots!Next
  <2>1. a \notin Slots!Holding
    BY <1>1, <1>2 DEF Admits, IInv, TableInv, Slots!Holding, Slots!Taken, Occupied
  <2>2. Slots!Cardinality(Slots!Taken) < Cap
    <3>1. Slots!Cardinality(Slots!Taken) = Cardinality(Slots!Taken)
      BY DEF Slots!Cardinality, Cardinality, Slots!IsFiniteSet, IsFiniteSet
    <3>2. QED
      BY <1>2, <3>1 DEF Admits, Start, Admitted, IInv, TableInv, Slots!Taken, Occupied
  <2>3. (Live \ InTable)' = Live \ InTable /\ drained' = drained
    BY <1>1, <1>2 DEF Admits, Start, Admitted
  <2>4. Slots!Admit(s, a)
    BY <1>2, <2>1, <2>2, <2>3 DEF Admits, Start, Admitted, Slots!Admit, Slots!Taken
  <2>5. QED
    BY <2>4 DEF Slots!Next
<1>3. ASSUME NEW a \in Actors, Leaves(a)
      PROVE  Slots!Next
  <2>1. act[a].sid \in SessionIDs /\ actors[act[a].sid] = a
    BY <1>3 DEF Leaves, IInv, TableInv
  <2>2. (Live \ InTable)' = (Live \ InTable) \cup {a}
    BY <1>1, <1>3 DEF Leaves
  <2>3. Slots!Retire(act[a].sid)
    BY <1>3, <2>1, <2>2, NoActorAssumption DEF Leaves, RemoveActor, Slots!Retire, Slots!Taken
  <2>4. QED
    BY <2>1, <2>3 DEF Slots!Next
<1>4. ASSUME NEW a \in Actors, Ends(a)
      PROVE  Slots!Next
  <2>1. a \in Live \ InTable
    BY <1>4 DEF Ends, WgDone, InTable, At
  <2>2. (Live \ InTable)' = (Live \ InTable) \ {a}
    BY <1>1, <1>4 DEF Ends
  <2>3. Slots!End(a)
    BY <1>4, <2>1, <2>2 DEF Ends, WgDone, Slots!End
  <2>4. QED
    BY <2>3 DEF Slots!Next
<1>5. ASSUME NEW c \in Callers, ShutdownBegin(c)
      PROVE  Slots!Next
  <2>1. UNCHANGED <<Live, InTable>> /\ drained' = drained
    BY <1>1, <1>5 DEF ShutdownBegin, Live, InTable, At, Call
  <2>2. Slots!Close
    BY <1>5, <2>1 DEF ShutdownBegin, Slots!Close
  <2>3. QED
    BY <2>2 DEF Slots!Next
<1>6. ASSUME NEW c \in Callers, WaitReturns(c)
      PROVE  Slots!Next
  <2>1. Live = {}
    BY <1>6, FS_EmptySet DEF IInv, WgInv, WaitReturns
  <2>2. Slots!Taken = {}
    BY <1>1, <2>1 DEF IInv, TableInv, Slots!Taken, Occupied
  <2>3. UNCHANGED <<Live, InTable>> /\ drained'
    BY <1>1, <1>6 DEF WaitReturns, Live, InTable, At, Call
  <2>4. ~accepting
    BY <1>6 DEF IInv, ShutInv, WaitReturns
  <2>5. Slots!ReportDrained
    BY <1>6, <2>1, <2>2, <2>3, <2>4 DEF WaitReturns, Slots!ReportDrained
  <2>6. QED
    BY <2>5 DEF Slots!Next
<1>7. ASSUME UNCHANGED accepting, UNCHANGED actors, UNCHANGED Live, UNCHANGED InTable,
             drained' = drained
      PROVE  UNCHANGED Slots!slotVars
  BY <1>7 DEF Slots!slotVars

<1>8. ASSUME NEW c \in Callers, ShutdownStep(c)
      PROVE  [Slots!Next]_(Slots!slotVars)
  <2>1. ASSUME UNCHANGED <<actors, accepting, act>>, drained' = drained
        PROVE  UNCHANGED Slots!slotVars
    BY <1>7, <2>1 DEF Live, InTable, At
  <2>2. ASSUME ShutdownDrained(c) \/ CancelAllEnd(c) \/ ShutdownGivesUp(c)
        PROVE  UNCHANGED Slots!slotVars
    BY <1>1, <2>1, <2>2 DEF ShutdownDrained, CancelAllEnd, ShutdownGivesUp, Call
  <2>3. ASSUME NEW branch \in {"timer", "ctx"}, CancelAllBegin(c, branch)
        PROVE  UNCHANGED Slots!slotVars
    <3> DEFINE copy == {actors[s] : s \in Occupied}
    <3>1. down' = [down EXCEPT ![c].pc = "cancelling", ![c].branch = branch,
                               ![c].targets = copy]
      BY <2>3 DEF CancelAllBegin
    <3> HIDE DEF copy
    <3>2. drained' = drained
      BY <1>1, <3>1 DEF Call
    <3>3. QED
      BY <2>1, <2>3, <3>2 DEF CancelAllBegin
  <2>4. ASSUME NEW a \in Actors, CancelNext(c, a)
        PROVE  UNCHANGED Slots!slotVars
    <3>1. drained' = drained
      BY <1>1, <2>4 DEF CancelNext, Call
    <3>2. UNCHANGED <<Live, InTable>>
      BY <1>1, <2>4 DEF CancelNext, MarkCancelled, Live, InTable, At, Actor
    <3>3. QED
      BY <1>7, <2>4, <3>1, <3>2 DEF CancelNext
  <2>5. QED
    BY <1>5, <1>6, <1>8, <2>2, <2>3, <2>4 DEF ShutdownStep
<1>9. ASSUME ~ \E c \in Callers : ShutdownStep(c)
      PROVE  UNCHANGED <<accepting, down>>
  BY <1>9 DEF Next, vars, Cancel, Start, Admitted, RunActor, AttachCancel, TransitionToRunning,
              NewRunnerFails, RunReturns, Finish, RemoveActor, PersistFinal, CloseDone, WgDone
<1>10. ASSUME Keeps, UNCHANGED <<accepting, down>>
       PROVE  UNCHANGED Slots!slotVars
  BY <1>7, <1>10 DEF Keeps
<1>11. QED
  <2>1. CASE \E c \in Callers : ShutdownStep(c)
    BY <1>8, <2>1
  <2>2. CASE ~ \E c \in Callers : ShutdownStep(c)
    <3>1. \/ \E s \in SessionIDs, a \in Actors : Admits(s, a)
          \/ \E a \in Actors : Leaves(a)
          \/ \E a \in Actors : Ends(a)
          \/ Keeps
      BY StepKinds DEF IInv
    <3>2. QED
      BY <1>2, <1>3, <1>4, <1>9, <1>10, <2>2, <3>1
  <2>3. QED
    BY <2>1, <2>2

(* Every behaviour of the manager is one of the slots: admission, cap and  *)
(* what "drained" means, whatever the goroutines do in between.            *)
THEOREM Refinement == Spec => ImplementsSlots
<1>1. Init => Slots!Init
  BY DEF Init, Slots!Init, Live, InTable, At, FreshActor, IdleCall
<1>2. IInv /\ [Next]_vars => [Slots!Next]_(Slots!slotVars)
  BY SlotsStep
<1>3. QED
  BY <1>1, <1>2, Invariance, PTL DEF Spec, ImplementsSlots, Slots!Spec

-----------------------------------------------------------------------------
(* The manager inside the process.                                         *)

(* Every step of the process is a step of the manager, or leaves it alone. *)
LEMMA ServerStepIsManagerStep ==
  ASSUME [ServerNext]_allVars
  PROVE  [Next]_vars
<1>1. CASE MainStep
  BY <1>1 DEF MainStep, Signal, ServeFails, HttpDrained, HttpTimeout, ManagerReturned
<1>2. CASE ManagerShutdownStep
  <2>1. Main \in Callers /\ ShutdownStep(Main)
    BY <1>2, MainAssumption DEF ManagerShutdownStep
  <2> QED BY <2>1 DEF Next
<1>3. CASE \E s \in SessionIDs : PostArrives(s) \/ PostFails(s)
  BY <1>3 DEF PostArrives, PostFails
<1>4. CASE \E s \in SessionIDs, a \in Actors : PostStarts(s, a)
  <2>1. PICK s \in SessionIDs, a \in Actors : Start(s, a)
    BY <1>4 DEF PostStarts
  <2> QED BY <2>1 DEF Next
<1>5. CASE \E a \in Actors : StreamOpens(a) \/ StreamEnds(a) \/ ClientLeaves(a)
  BY <1>5 DEF StreamOpens, StreamEnds, ClientLeaves
<1>6. CASE \E a \in Actors : ActorStep(a)
  <2>1. PICK a \in Actors : RunActor(a)
    BY <1>6 DEF ActorStep
  <2> QED BY <2>1 DEF Next
<1>7. CASE UNCHANGED allVars
  BY <1>7 DEF allVars
<1> QED BY <1>1, <1>2, <1>3, <1>4, <1>5, <1>6, <1>7 DEF ServerNext

(* The process implements the session manager: the HTTP handlers and run   *)
(* call it only as its callers may, so each of its theorems holds inside   *)
(* the server too.                                                         *)
THEOREM ServerImplementsManager == ServerSpec => Spec
<1>1. ServerInit => Init
  BY DEF ServerInit
<1>2. [ServerNext]_allVars => [Next]_vars
  BY ServerStepIsManagerStep
<1> QED BY <1>1, <1>2, PTL DEF ServerSpec, Spec

-----------------------------------------------------------------------------
(* How far the shutdown of the process has come, and what holds there.     *)

(* run calls Shutdown only after the HTTP server has drained.              *)
OpenForHandlers == srv \in {"serving", "httpShutdown"} => accepting

(* Without handlers there is neither a request nor a stream.               *)
HandlersGone == srv = "managerShutdown" => posts = {} /\ streams = {}

(* What is known of the process once it has returned.                      *)
ExitTold ==
  /\ exit # "none" => srv = "exited"
  /\ ~accepting => posts = {}
  /\ exit = "ok" => down[Main].ret = "nil" /\ posts = {} /\ streams = {}

ServerInv == ServerTypeOK /\ OpenForHandlers /\ HandlersGone /\ ExitTold

(* The process starts with its listener and its manager open.              *)
LEMMA ServerInitInv == ServerInit => ServerInv
BY DEF ServerInit, Init, ServerInv, ServerTypeOK, OpenForHandlers, HandlersGone, ExitTold

(* Actors and new sessions leave the manager open, or as closed as it was. *)
LEMMA ActorsKeepAdmission ==
  ASSUME NEW a \in Actors, RunActor(a) \/ (\E s \in SessionIDs : Start(s, a))
  PROVE  accepting' = accepting /\ down' = down
BY DEF RunActor, Start, AttachCancel, TransitionToRunning, NewRunnerFails, RunReturns, Finish,
       RemoveActor, PersistFinal, CloseDone, WgDone

(* A step that leaves the manager alone and changes the process.           *)
LEMMA MainKeeps ==
  ASSUME ServerInv, MainStep
  PROVE  ServerInv'
<1>1. accepting' = accepting /\ down' = down /\ posts' = posts /\ streams' = streams
  BY DEF MainStep, Signal, ServeFails, HttpDrained, HttpTimeout, ManagerReturned, vars
<1>2. ServerTypeOK'
  BY <1>1 DEF MainStep, Signal, ServeFails, HttpDrained, HttpTimeout, ManagerReturned,
              ServerInv, ServerTypeOK
<1>3. OpenForHandlers'
  BY <1>1 DEF MainStep, Signal, ServeFails, HttpDrained, HttpTimeout, ManagerReturned,
              ServerInv, OpenForHandlers
<1>4. HandlersGone'
  BY <1>1 DEF MainStep, Signal, ServeFails, HttpDrained, HttpTimeout, ManagerReturned,
              ServerInv, HandlersGone
<1>5. ExitTold'
  BY <1>1 DEF MainStep, Signal, ServeFails, HttpDrained, HttpTimeout, ManagerReturned,
              ServerInv, HandlersGone, ExitTold
<1> QED BY <1>2, <1>3, <1>4, <1>5 DEF ServerInv

(* Every step of the process keeps what is known of its shutdown.          *)
LEMMA ServerStep ==
  ASSUME ServerInv, [ServerNext]_allVars
  PROVE  ServerInv'
<1> USE DEF ServerInv, ServerTypeOK, OpenForHandlers, HandlersGone, ExitTold
<1>1. CASE MainStep
  BY <1>1, MainKeeps
<1>2. CASE ManagerShutdownStep
  BY <1>2 DEF ManagerShutdownStep, serverVars
<1>3. CASE \E s \in SessionIDs : PostArrives(s) \/ PostFails(s)
  BY <1>3 DEF PostArrives, PostFails, Running, vars
<1>4. CASE \E s \in SessionIDs, a \in Actors : PostStarts(s, a)
  <2>1. PICK s \in SessionIDs, a \in Actors : PostStarts(s, a)
    BY <1>4
  <2>2. accepting' = accepting /\ down' = down
    BY <2>1, ActorsKeepAdmission DEF PostStarts
  <2> QED BY <2>1, <2>2 DEF PostStarts, Running
<1>5. CASE \E a \in Actors : StreamOpens(a) \/ StreamEnds(a) \/ ClientLeaves(a)
  BY <1>5 DEF StreamOpens, StreamEnds, ClientLeaves, Running, vars
<1>6. CASE \E a \in Actors : ActorStep(a)
  <2>1. PICK a \in Actors : ActorStep(a)
    BY <1>6
  <2>2. accepting' = accepting /\ down' = down
    BY <2>1, ActorsKeepAdmission DEF ActorStep
  <2> QED BY <2>1, <2>2 DEF ActorStep, serverVars
<1>7. CASE UNCHANGED allVars
  BY <1>7 DEF allVars, serverVars, vars
<1> QED BY <1>1, <1>2, <1>3, <1>4, <1>5, <1>6, <1>7 DEF ServerNext

(* serverApp.run closes in order: the listener, then the handlers, then    *)
(* the manager, and only then does it return.                              *)
THEOREM ServerInvariance == ServerSpec => []ServerInv
<1>1. ServerInv /\ [ServerNext]_allVars => ServerInv'
  BY ServerStep
<1> QED BY ServerInitInv, <1>1, PTL DEF ServerSpec

(* The manager closes after the handlers, so serverApp.run turns no        *)
(* accepted request away, and an exit with status zero means that every    *)
(* session has ended and stored its result.                                *)
THEOREM CleanExit == ServerSpec => []CleanExitLosesNothing
<1>1. ServerInv /\ DrainedMeansGone => CleanExitLosesNothing
  BY MainAssumption DEF ServerInv, ExitTold, DrainedMeansGone, CleanExitLosesNothing
<1> QED BY <1>1, ServerImplementsManager, DrainCorrect, ServerInvariance, PTL
=============================================================================
