\* Two callers and an administrator with two operations between them, one tool
\* name, two processes.  The system stops when the operations are used up.
SPECIFICATION FairSpec
CONSTANTS
  Callers = {c1, c2}
  Admins = {admin}
  Names = {echo}
  NoOne = NoOne
  MaxProcs = 2
  MaxOps = 2
INVARIANTS
  NoOrphan
  TrackedWorksOrIsGone
PROPERTIES
  OperationsEnd
CHECK_DEADLOCK FALSE
