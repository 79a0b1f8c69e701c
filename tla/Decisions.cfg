SPECIFICATION DecisionSpec
CONSTANTS
  Iterations <- IterationsMC
  Delegates <- DelegatesMC
  Merges <- MergesMC
  Loads <- LoadsMC
  Requests <- RequestsMC
  Strategies <- StrategiesMC
  Calls <- CallsMC
  Plugins <- PluginsMC
INVARIANTS
  SuccessIsEarned
  StoredFormsLoad
  LoadRespectsPrecedence
  BindingsStand
  CallsStayInBounds
CHECK_DEADLOCK FALSE
