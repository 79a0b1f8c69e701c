---------------------------- MODULE SessionSlots ----------------------------
(***************************************************************************)
(* What the session manager promises to the chat service and to the        *)
(* server, without goroutines and locks: a session holds at most one slot, *)
(* at most Cap slots are taken, a run that gave its slot back may still be *)
(* storing its result, admission closes for good, and "drained" is only    *)
(* reported when nothing runs and nothing is being stored any more.        *)
(***************************************************************************)
EXTENDS Naturals, FiniteSets

CONSTANTS SessionIDs, Actors, Cap, NoActor

VARIABLES slot,     \* session id -> the run that holds its slot, or NoActor
          ending,   \* runs that left their slot and are not over yet
          open,     \* are sessions admitted?
          drained   \* has a shutdown reported that everything ended?

slotVars == <<slot, ending, open, drained>>

Taken == {s \in SessionIDs : slot[s] # NoActor}
Holding == {slot[s] : s \in Taken}

Init ==
  /\ slot = [s \in SessionIDs |-> NoActor]
  /\ ending = {}
  /\ open = TRUE
  /\ drained = FALSE

Admit(s, a) ==
  /\ open
  /\ s \notin Taken
  /\ a \notin Holding \cup ending
  /\ Cardinality(Taken) < Cap
  /\ slot' = [slot EXCEPT ![s] = a]
  /\ UNCHANGED <<ending, open, drained>>

Retire(s) ==
  /\ s \in Taken
  /\ slot' = [slot EXCEPT ![s] = NoActor]
  /\ ending' = ending \cup {slot[s]}
  /\ UNCHANGED <<open, drained>>

End(a) ==
  /\ a \in ending
  /\ ending' = ending \ {a}
  /\ UNCHANGED <<slot, open, drained>>

Close ==
  /\ open' = FALSE
  /\ UNCHANGED <<slot, ending, drained>>

ReportDrained ==
  /\ ~open
  /\ Taken = {}
  /\ ending = {}
  /\ drained' = TRUE
  /\ UNCHANGED <<slot, ending, open>>

Next ==
  \/ \E s \in SessionIDs, a \in Actors : Admit(s, a)
  \/ \E s \in SessionIDs : Retire(s)
  \/ \E a \in Actors : End(a)
  \/ Close
  \/ ReportDrained

Spec == Init /\ [][Next]_slotVars
=============================================================================
