\* Decompositions of up to three subtasks in two slots, a second one behind
\* the first or rejected, room for every result.  The run stops when the call
\* has returned.
SPECIFICATION FairSpec
CONSTANTS
  TaskLists <- MCTaskLists
  Agents <- MCAgents
  MaxWorkers = 2
  ResultCap = 4
INVARIANTS
  DependenciesFirst
  NobodySendsOnClosed
  OutcomeIsHonest
PROPERTIES
  CallReturns
CHECK_DEADLOCK FALSE
