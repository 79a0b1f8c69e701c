\* A cancellation between spawn and attachCancel is lost: with a runner that
\* only answers to its context, a shutdown that drains never returns.
SPECIFICATION CooperativeSpec
CONSTANTS
  SessionIDs = {s1, s2}
  Actors = {a1, a2}
  Callers = {c1}
  Cap = 1
  NoActor = NoActor
PROPERTIES
  ShutdownReturns
CHECK_DEADLOCK FALSE
