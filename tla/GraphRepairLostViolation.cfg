SPECIFICATION Spec
CONSTANTS
  NodeCount = 2
  Deps <- PairDeps
  Refs <- PairDeps
  MaxConcurrency = 1
  MaxAttempts <- Once2
  MaxRepairs <- Once2
  Repairable = {1}
  MayOmitOutput = {}
  UseAsyncio = FALSE
  MaxCalls = 2
  MaxCrashes = 1
PROPERTY RepairsSurvive
CHECK_DEADLOCK FALSE
