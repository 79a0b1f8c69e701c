\* Three starts over three sessions, of which two may run at a time, and one
\* call of Shutdown.  The system stops when every actor has exited.
SPECIFICATION Spec
CONSTANTS
  SessionIDs = {s1, s2, s3}
  Actors = {a1, a2, a3}
  Callers = {c1}
  Cap = 2
  NoActor = NoActor
SYMMETRY Symmetry
INVARIANTS
  TableInv
  DrainedMeansGone
  CancelAllReachesEveryone
PROPERTIES
  WaitGroupNeverGrows
  ResultsAreFinal
  ImplementsSlots
CHECK_DEADLOCK FALSE
