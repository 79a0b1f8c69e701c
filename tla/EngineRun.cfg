\* Up to three steps and three attempts, and limits that have to be corrected.
\* The run stops when Run has returned.
SPECIFICATION FairSpec
CONSTANTS
  StepConfigs <- MCStepConfigs
  RetryConfigs <- MCRetryConfigs
INVARIANTS
  EndIsJustified
  StoreKeepsTheRun
  CompleteTellsTheTruth
  CancelStopsTools
PROPERTIES
  RunReturns
CHECK_DEADLOCK FALSE
