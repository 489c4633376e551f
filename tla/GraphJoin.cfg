\* Two parallel nodes and a join, the asyncio loop; crash, cancel, resume, retry.
SPECIFICATION Spec
CONSTANTS
  NodeCount = 3
  Deps <- JoinDeps
  Refs <- JoinRefs
  MaxConcurrency = 2
  MaxAttempts <- TwiceFirst3
  MaxRepairs <- OnceEach3
  Repairable = {1, 3}
  MayOmitOutput = {1}
  UseAsyncio = TRUE
  MaxCalls = 3
  MaxCrashes = 2
INVARIANTS TypeOK DependencyOrder StoreKeepsUp AttemptBudget
PROPERTIES SucceededForever LifecycleSpec
CHECK_DEADLOCK FALSE
