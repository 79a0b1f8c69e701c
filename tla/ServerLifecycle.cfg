\* Two starts over two sessions.  The system stops when the process exits.
SPECIFICATION ServerFairSpec
CONSTANTS
  SessionIDs = {s1, s2}
  Actors = {a1, a2}
  Callers = {main}
  Main = main
  Cap = 2
  NoActor = NoActor
INVARIANTS
  CleanExitLosesNothing
PROPERTIES
  SignalLeadsToExit
  StartedSessionsEnd
CHECK_DEADLOCK FALSE
