SPECIFICATION FairSpec
CONSTANTS
  NumProcesses = 2
  Sessions = {s}
  Providers = {acme}
  Nobody = Nobody
  MaxFailures = 1
  MaxKills = 1
INVARIANTS
  OutcomeIsStored
  PluginIsKept
PROPERTIES
  SuccessStands
  CommandEnds
CHECK_DEADLOCK FALSE
