\* Two independent nodes one after the other, one of them repairable, in one
\* call.
SPECIFICATION StopFairSpec
CONSTANTS
  NodeCount = 2
  Deps <- Free2
  Refs <- Free2
  MaxConcurrency = 1
  MaxAttempts <- Once2
  MaxRepairs <- Once2
  Repairable = {1}
  MayOmitOutput = {}
  UseAsyncio = FALSE
  MaxCalls = 1
  MaxCrashes = 0
  WebThread = 101
  HookThread = 102
  Nobody = 0
  MaxLaunches = 3
INVARIANT NoProgramAfterCall
PROPERTY StopEndsCall
CHECK_DEADLOCK FALSE
