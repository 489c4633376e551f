\* Two nodes listed before the root both need, one slot, the threaded loop;
\* tools need not end.
SPECIFICATION DriverFairSpec
CONSTANTS
  NodeCount = 3
  Deps <- ForkDeps
  Refs <- ForkDeps
  MaxConcurrency = 1
  MaxAttempts <- OnceEach3
  MaxRepairs <- OnceEach3
  Repairable = {1}
  MayOmitOutput = {3}
  UseAsyncio = FALSE
  MaxCalls = 2
  MaxCrashes = 1
INVARIANT BlockedHasCause
PROPERTIES DriverStops PromptCancel
CHECK_DEADLOCK FALSE
