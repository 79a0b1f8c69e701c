\* Every graph of four subtasks, every order of reports.  The client stops
\* when all subtasks are complete.
SPECIFICATION FairSpec
CONSTANT N = 4
INVARIANTS
  SortIsLegal
PROPERTIES
  KeepsOrder
  NobodyForgotten
CHECK_DEADLOCK FALSE
