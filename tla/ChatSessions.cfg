\* Two sessions, three requests, two runs, one slot: replies, resumes, failures
\* of the store and one restart of the process overlap in every order.
\* A request or a run may stop short, so there are states without a next step.
SPECIFICATION Spec
CONSTANTS
  N = 2
  Requests = {r1, r2, r3}
  Actors = {a1, a2}
  Cap = 1
  NoActor = NoActor
  EndStatuses = {"success", "interrupted"}
SYMMETRY Symmetry
INVARIANTS
  TurnsFormATree
  NoZombie
  LastRunDecides
CHECK_DEADLOCK FALSE
