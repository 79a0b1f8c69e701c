---------------------------- MODULE SubtaskOrder ----------------------------
(***************************************************************************)
(* What a scheduler of subtasks promises: it hands out each subtask at     *)
(* most once, and only when everything it depends on is complete.          *)
(***************************************************************************)
CONSTANT Subtasks
VARIABLES deps,      \* the subtasks each subtask depends on
          started,   \* subtasks handed out
          completed  \* subtasks reported complete

vars == <<deps, started, completed>>

Init == /\ deps \in [Subtasks -> SUBSET Subtasks]
        /\ started = {}
        /\ completed = {}

Start(batch) ==
  /\ batch \cap started = {}
  /\ \A i \in batch : deps[i] \subseteq completed
  /\ started' = started \cup batch
  /\ UNCHANGED <<deps, completed>>

Complete(i) ==
  /\ i \notin completed
  /\ completed' = completed \cup {i}
  /\ UNCHANGED <<deps, started>>

Next == (\E batch \in SUBSET Subtasks : Start(batch)) \/ (\E i \in Subtasks : Complete(i))

Spec == Init /\ [][Next]_vars
=============================================================================
