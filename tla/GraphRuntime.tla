---------------------------- MODULE GraphRuntime ----------------------------
(***************************************************************************)
(* One graph run of runtime/: the scheduler loop that drives it            *)
(* (scheduler.py), the SQLite store that keeps it (store.py) and the       *)
(* engine calls that create, start, resume and retry it (engine.py).       *)
(*                                                                         *)
(* The driver is the thread inside a blocking engine call.  Its steps are  *)
(* cut at every write to the store, because the process can die between    *)
(* two of them.  Tool threads run beside it and end when they please; a    *)
(* cancel request can arrive at any moment.  At most one engine call is    *)
(* in progress: nothing in runtime/ enforces that, its callers do.         *)
(***************************************************************************)
EXTENDS Naturals, FiniteSets, NodeStates

CONSTANTS
  NodeCount,        \* nodes of the template, numbered in template order
  Deps,             \* depends_on of each node
  Refs,             \* the dependencies whose outputs its params refer to
  MaxConcurrency,   \* the scheduler's max_concurrency
  MaxAttempts,      \* max_attempts of each node
  MaxRepairs,       \* max_repair_attempts of each node
  Repairable,       \* the nodes for which a repair handler is registered
  MayOmitOutput,    \* the nodes whose tool may leave out a referenced output
  UseAsyncio,       \* TRUE: run_async drives the run; FALSE: _run_threaded
  MaxCalls,         \* bound: engine calls in a behaviour
  MaxCrashes        \* bound: deaths of the process in a behaviour

Node == 1..NodeCount

\* _detect_cycle: no way along the dependencies comes back to its start, so in
\* any set of nodes one depends on none of the others, nor on itself.
Acyclic == \A S \in (SUBSET Node) \ {{}} : \E n \in S : Deps[n] \cap S = {}

\* GraphTemplate.validate, without which no engine takes a template: known
\* nodes, references to dependencies alone, attempts and repairs in range.
ValidTemplate ==
  /\ Deps \in [Node -> SUBSET Node]
  /\ Refs \in [Node -> SUBSET Node]
  /\ \A n \in Node : Refs[n] \subseteq Deps[n]
  /\ MaxAttempts \in [Node -> Nat \ {0}]
  /\ MaxRepairs \in [Node -> Nat]
  /\ Acyclic

ASSUME NodeCountAssumption == NodeCount \in Nat
ASSUME TemplateAssumption ==
  /\ ValidTemplate
  /\ Repairable \subseteq Node
  /\ MayOmitOutput \subseteq Node
ASSUME SchedulerAssumption ==
  /\ MaxConcurrency \in Nat \ {0}
  /\ UseAsyncio \in BOOLEAN
ASSUME BoundsAssumption == MaxCalls \in Nat /\ MaxCrashes \in Nat

VARIABLES
  nodes,          \* the GraphRun.nodes the driver holds
  saved,          \* the node rows of the store (no row: a fresh NodeRun)
  savedRun,       \* the status column of the run's row
  fut,            \* the future of each dispatched node, or "none"
  pc,             \* where the driver is
  todo,           \* the nodes the driver's current pass has yet to handle
  event,          \* the cancel_event given to the scheduler, or "absent"
  calls,          \* engine calls made so far
  crashes,        \* drives that died with their process
  raises          \* drives that an exception ended

memory  == <<nodes, fut, pc, todo, event>>
history == <<calls, crashes, raises>>
vars    == <<nodes, saved, savedRun, fut, pc, todo, event, calls, crashes, raises>>

----------------------------------------------------------------------------
\* NodeRun.  `resolved` is params_resolved; `tweaks` counts the repairs that
\* the node's params carry; `outputs` is "partial" when a key that another
\* node refers to is missing.
NodeRun == [state: NodeState, attempt: Nat, repairs: Nat, resolved: BOOLEAN,
            tweaks: Nat, outputs: {"none", "partial", "full"}]

FreshNode == [state |-> "pending", attempt |-> 0, repairs |-> 0,
              resolved |-> FALSE, tweaks |-> 0, outputs |-> "none"]

\* A row has every field of a NodeRun but params_resolved.
Row(node) == [node EXCEPT !.resolved = FALSE]

\* save_node_run: the driver's NodeRun n becomes `node`, and so does its row.
SaveNode(n, node) ==
  /\ nodes' = [nodes EXCEPT ![n] = node]
  /\ saved' = [saved EXCEPT ![n] = Row(node)]

Outcome == {"ok", "ok_partial", "repairable", "fatal"}
Futures == {n \in Node : fut[n] # "none"}
DoneFutures == {n \in Node : fut[n] \in Outcome}
NoFutures == [n \in Node |-> "none"]

Stopped == {"idle", "raised", "crashed"}
Driving == pc \notin Stopped

First(n, S) == n \in S /\ \A m \in S : n <= m

Dead == {"failed", "cancelled", "blocked", "skipped"}
DepsSucceeded(ns, n) == \A d \in Deps[n] : ns[d].state = "succeeded"

\* Mutant: one succeeded dependency is enough.
FindReadyNodes_AnyDep(ns) ==
  {n \in Node : /\ ns[n].state \in {"pending", "ready"}
                /\ Deps[n] = {} \/ \E d \in Deps[n] : ns[d].state = "succeeded"}

FindReadyNodes(ns) ==
  {n \in Node : ns[n].state \in {"pending", "ready"} /\ DepsSucceeded(ns, n)}

\* Mutants of the pass below: it blocks whoever must wait; it blocks nobody.
IsBlockedPass_Waiting(B) ==
  \A n \in Node : n \in B <=> nodes[n].state = "pending" /\ ~DepsSucceeded(nodes, n)
IsBlockedPass_Never(B) == B = {}

\* The nodes that one pass of process_blocked marks: the pass goes through
\* the template once, so that a node marked earlier in it counts as dead.
IsBlockedPass(B) ==
  \A n \in Node :
    n \in B <=> /\ nodes[n].state = "pending"
                /\ \E d \in Deps[n] : \/ nodes[d].state \in Dead
                                      \/ d \in B /\ d < n

\* resolve_params finds every reference.
Resolvable(n) ==
  \A d \in Refs[n] : nodes[d].state = "succeeded" /\ nodes[d].outputs = "full"

----------------------------------------------------------------------------
\* engine.create: the run's row is saved, its nodes are not.
Init ==
  /\ nodes = [n \in Node |-> FreshNode]
  /\ saved = [n \in Node |-> FreshNode]
  /\ savedRun = "created"
  /\ fut = NoFutures
  /\ pc = "idle"
  /\ todo = {}
  /\ event = "absent"
  /\ calls = 0 /\ crashes = 0 /\ raises = 0

\* The engine calls.  Each loads the run anew.
EngineCall ==
  /\ ~Driving
  /\ calls < MaxCalls
  /\ calls' = calls + 1
  /\ UNCHANGED <<fut, crashes, raises>>

Start ==
  /\ EngineCall
  /\ savedRun \notin TerminalRunStates
  /\ nodes' = saved
  /\ event' = "clear"
  /\ pc' = "launch"
  /\ UNCHANGED <<saved, savedRun, todo>>

InFlight == {"running", "ready", "repairing"}

\* store.resume_run resets in-flight nodes in memory and saves the run's row
\* alone; engine.resume hands no cancel_event to the scheduler.
Resume ==
  /\ EngineCall
  /\ savedRun \notin TerminalRunStates
  /\ nodes' = [n \in Node |->
                 [saved[n] EXCEPT !.state = IF @ \in InFlight THEN "pending" ELSE @]]
  /\ savedRun' = "validated"
  /\ event' = "absent"
  /\ pc' = "launch"
  /\ UNCHANGED <<saved, todo>>

DefaultTargets == {n \in Node : saved[n].state \in {"failed", "blocked"}}

\* engine.retry, on the caller's choice of nodes or on every failed or
\* blocked one; each target is reset and saved, then the run is started.
Retry ==
  /\ EngineCall
  /\ \E targets \in {DefaultTargets} \cup (SUBSET Node \ {{}}) : todo' = targets
  /\ nodes' = saved
  /\ event' = "absent"
  /\ pc' = "retry"
  /\ UNCHANGED <<saved, savedRun>>

\* Mutant: any node can be retried.
RetryReset_AnyState(n) ==
  /\ pc = "retry" /\ n \in todo
  /\ SaveNode(n, FreshNode)
  /\ todo' = todo \ {n}
  /\ UNCHANGED <<savedRun, fut, pc, event, history>>

RetryReset(n) ==
  /\ pc = "retry" /\ n \in todo
  /\ CanTransition(nodes[n].state, "pending")
  /\ SaveNode(n, [FreshNode EXCEPT !.outputs = nodes[n].outputs])
  /\ todo' = todo \ {n}
  /\ UNCHANGED <<savedRun, fut, pc, event, history>>

\* node.transition raises: the targets already reset stay reset.
RetryRefused(n) ==
  /\ pc = "retry" /\ n \in todo
  /\ ~CanTransition(nodes[n].state, "pending")
  /\ pc' = "raised"
  /\ nodes' = saved
  /\ todo' = {}
  /\ UNCHANGED <<saved, savedRun, fut, event, history>>

RetryCommit ==
  /\ pc = "retry" /\ todo = {}
  /\ savedRun' = "validated"
  /\ nodes' = saved
  /\ pc' = "launch"
  /\ UNCHANGED <<saved, fut, todo, event, history>>

----------------------------------------------------------------------------
\* GraphScheduler.run.
Launch ==
  /\ pc = "launch"
  /\ savedRun' = "running"
  /\ pc' = "tick"
  /\ UNCHANGED <<nodes, saved, fut, todo, event, history>>

\* Top of the loop: block what can no longer run, then choose what to
\* dispatch, in template order, within the free slots.
Schedule ==
  /\ pc = "tick" /\ event # "set"
  /\ \E B \in SUBSET Node :
       /\ IsBlockedPass(B)
       /\ nodes' = [n \in Node |->
                      IF n \in B THEN [nodes[n] EXCEPT !.state = "blocked"] ELSE nodes[n]]
  /\ LET ready == FindReadyNodes(nodes')
         slots == MaxConcurrency - Cardinality(Futures)
     IN  todo' = {n \in ready : Cardinality({m \in ready : m < n}) < slots}
  /\ pc' = "dispatch"
  /\ UNCHANGED <<saved, savedRun, fut, event, history>>

\* Mutant: the dispatch is not saved.
Dispatch_Unsaved(n) ==
  /\ pc = "dispatch" /\ First(n, todo)
  /\ nodes' = [nodes EXCEPT ![n].state = "running", ![n].attempt = @ + 1]
  /\ fut' = [fut EXCEPT ![n] = "executing"]
  /\ todo' = todo \ {n}
  /\ UNCHANGED <<saved, savedRun, pc, event, history>>

\* _prepare_dispatch and the submission of _execute_tool.
Dispatch(n) ==
  /\ pc = "dispatch" /\ First(n, todo)
  /\ nodes[n].resolved \/ Resolvable(n)
  /\ SaveNode(n, [nodes[n] EXCEPT !.state = "running",
                                  !.attempt = @ + 1,
                                  !.resolved = TRUE,
                                  !.tweaks = IF nodes[n].resolved THEN @ ELSE 0])
  /\ fut' = [fut EXCEPT ![n] = "executing"]
  /\ todo' = todo \ {n}
  /\ UNCHANGED <<savedRun, pc, event, history>>

\* resolve_params raises through the loop; the pool waits for its threads.
ResolveFails(n) ==
  /\ pc = "dispatch" /\ First(n, todo)
  /\ ~nodes[n].resolved /\ ~Resolvable(n)
  /\ pc' = "raising"
  /\ todo' = {}
  /\ raises' = raises + 1
  /\ UNCHANGED <<nodes, saved, savedRun, fut, event, calls, crashes>>

\* The done futures are listed once; run_async waits until there is one.
Collect ==
  /\ pc = "dispatch" /\ todo = {}
  /\ UseAsyncio /\ Futures # {} => DoneFutures # {}
  /\ todo' = DoneFutures
  /\ pc' = IF UseAsyncio /\ Futures = {} THEN "settle" ELSE "collect"
  /\ UNCHANGED <<nodes, saved, savedRun, fut, event, history>>

\* _finish pops the future of n, and ends with a save of n.
Finish(n, node) ==
  /\ SaveNode(n, node)
  /\ fut' = [fut EXCEPT ![n] = "none"]
  /\ todo' = todo \ {n}
  /\ UNCHANGED <<savedRun, event, history>>

FinishSucceeded(n) ==
  /\ pc = "collect" /\ n \in todo
  /\ fut[n] \in {"ok", "ok_partial"}
  /\ Finish(n, [nodes[n] EXCEPT
                  !.state = "succeeded",
                  !.outputs = IF fut[n] = "ok" THEN "full" ELSE "partial"])
  /\ UNCHANGED pc

MayRepair(n) ==
  /\ fut[n] = "repairable"
  /\ n \in Repairable
  /\ nodes[n].repairs < MaxRepairs[n]

\* _handle_failure without a repair: a plain retry or the end of the node.
FinishFailed(n) ==
  /\ pc = "collect" /\ n \in todo
  /\ fut[n] \in {"repairable", "fatal"} /\ ~MayRepair(n)
  /\ Finish(n, [nodes[n] EXCEPT
                  !.state = IF nodes[n].attempt < MaxAttempts[n] THEN "ready" ELSE "failed"])
  /\ UNCHANGED pc

\* _handle_failure saves "repairing" before it calls the repair handler ...
BeginRepair(n) ==
  /\ pc = "collect" /\ n \in todo
  /\ MayRepair(n)
  /\ SaveNode(n, [nodes[n] EXCEPT !.state = "repairing"])
  /\ pc' = "repair"
  /\ UNCHANGED <<savedRun, fut, todo, event, history>>

\* Mutants of the handler's answer: repair_attempts never moves, or counts down.
Repair_NotCounted(n, repaired) ==
  /\ pc = "repair" /\ n \in todo /\ nodes[n].state = "repairing"
  /\ Finish(n, [nodes[n] EXCEPT !.state = IF repaired THEN "ready" ELSE "failed"])
  /\ pc' = "collect"
Repair_CountsDown(n, repaired) ==
  /\ pc = "repair" /\ n \in todo /\ nodes[n].state = "repairing"
  /\ Finish(n, [nodes[n] EXCEPT !.state = "ready", !.repairs = @ - 1])
  /\ pc' = "collect"

\* ... whose answer is saved with the incremented repair_attempts.
Repair(n, repaired) ==
  /\ pc = "repair" /\ n \in todo /\ nodes[n].state = "repairing"
  /\ Finish(n, [nodes[n] EXCEPT
                  !.state = IF repaired THEN "ready" ELSE "failed",
                  !.repairs = @ + 1,
                  !.tweaks = IF repaired THEN @ + 1 ELSE @])
  /\ pc' = "collect"

\* run_async looks for the end only in a tick that awaited nothing.
Collected ==
  /\ pc = "collect" /\ todo = {}
  /\ pc' = IF UseAsyncio THEN "tick" ELSE "settle"
  /\ UNCHANGED <<nodes, saved, savedRun, fut, todo, event, history>>

AllTerminal == \A n \in Node : nodes[n].state \in TerminalNodeStates
\* Mutant: no tool at work means that the run is over.
AtEnd_NoFutures == Futures = {}
AtEnd == Futures = {} /\ FindReadyNodes(nodes) = {} /\ AllTerminal

\* The driver returns; the run object it drove is dropped.
Settle ==
  /\ pc = "settle" /\ AtEnd
  /\ savedRun' = DetermineRunStatus({nodes[n].state : n \in Node})
  /\ nodes' = saved
  /\ pc' = "idle"
  /\ event' = "absent"
  /\ UNCHANGED <<saved, fut, todo, history>>

NextTick ==
  /\ pc = "settle" /\ ~AtEnd
  /\ pc' = "tick"
  /\ UNCHANGED <<nodes, saved, savedRun, fut, todo, event, history>>

----------------------------------------------------------------------------
\* Mutant of the cancel below: it waits for the tools.
CancelBegin_WhenIdle ==
  /\ pc = "tick" /\ event = "set" /\ Futures = {}
  /\ todo' = {}
  /\ pc' = "cancel"
  /\ UNCHANGED <<nodes, saved, savedRun, fut, event, history>>

\* _cancel: every running node with a future is cancelled and saved, then
\* on_cancel kills what the tools run and the run is saved as paused.
CancelBegin ==
  /\ pc = "tick" /\ event = "set"
  /\ todo' = {n \in Futures : nodes[n].state = "running"}
  /\ pc' = "cancel"
  /\ UNCHANGED <<nodes, saved, savedRun, fut, event, history>>

CancelNode(n) ==
  /\ pc = "cancel" /\ n \in todo
  /\ SaveNode(n, [nodes[n] EXCEPT !.state = "cancelled"])
  /\ todo' = todo \ {n}
  /\ UNCHANGED <<savedRun, fut, pc, event, history>>

Pause ==
  /\ pc = "cancel" /\ todo = {}
  /\ savedRun' = "paused"
  /\ pc' = "pausing"
  /\ UNCHANGED <<nodes, saved, fut, todo, event, history>>

\* Mutant: the pool is shut down without waiting for its threads.
Leave_AtOnce ==
  /\ pc \in {"pausing", "raising"}
  /\ pc' = IF pc = "pausing" THEN "idle" ELSE "raised"
  /\ nodes' = saved
  /\ fut' = NoFutures
  /\ event' = "absent"
  /\ UNCHANGED <<saved, savedRun, todo, history>>

\* A paused or raising call returns when the pool's threads have ended;
\* what they return is dropped.
Leave ==
  /\ pc \in {"pausing", "raising"}
  /\ \A n \in Node : fut[n] # "executing"
  /\ pc' = IF pc = "pausing" THEN "idle" ELSE "raised"
  /\ nodes' = saved
  /\ fut' = NoFutures
  /\ event' = "absent"
  /\ UNCHANGED <<saved, savedRun, todo, history>>

----------------------------------------------------------------------------
\* The tool of n returns its outputs or raises.
ToolEnds(n) ==
  /\ fut[n] = "executing"
  /\ \E outcome \in Outcome :
       /\ outcome = "ok_partial" => n \in MayOmitOutput
       /\ fut' = [fut EXCEPT ![n] = outcome]
  /\ UNCHANGED <<nodes, saved, savedRun, pc, todo, event, history>>

\* Another thread sets the cancel_event.
RequestCancel ==
  /\ Driving /\ event = "clear"
  /\ event' = "set"
  /\ UNCHANGED <<nodes, saved, savedRun, fut, pc, todo, history>>

\* The process dies, or a write to the store raises through the loop.
Crash ==
  /\ Driving
  /\ crashes < MaxCrashes
  /\ crashes' = crashes + 1
  /\ nodes' = saved
  /\ fut' = NoFutures
  /\ pc' = "crashed"
  /\ todo' = {}
  /\ event' = "absent"
  /\ UNCHANGED <<saved, savedRun, calls, raises>>

----------------------------------------------------------------------------
DriverNode(n) ==
  \/ RetryReset(n) \/ RetryRefused(n)
  \/ Dispatch(n) \/ ResolveFails(n)
  \/ FinishSucceeded(n) \/ FinishFailed(n) \/ BeginRepair(n)
  \/ \E repaired \in BOOLEAN : Repair(n, repaired)
  \/ CancelNode(n)

Driver ==
  \/ \E n \in Node : DriverNode(n)
  \/ RetryCommit \/ Launch \/ Schedule \/ Collect \/ Collected
  \/ Settle \/ NextTick \/ CancelBegin \/ Pause \/ Leave

Next ==
  \/ Start \/ Resume \/ Retry
  \/ Driver
  \/ \E n \in Node : ToolEnds(n)
  \/ RequestCancel \/ Crash

Spec == Init /\ [][Next]_vars

\* The driver is a running thread; a tool may or may not be trusted to end.
DriverFairSpec == Spec /\ WF_vars(Driver)
ToolFairness == \A n \in Node : WF_vars(ToolEnds(n))
FairSpec == DriverFairSpec /\ ToolFairness

----------------------------------------------------------------------------
\* Types of all variables (runtime/run.py, store.py, scheduler.py).
TypeOK ==
  /\ nodes \in [Node -> NodeRun]
  /\ saved \in [Node -> NodeRun]
  /\ savedRun \in RunState
  /\ fut \in [Node -> {"none", "executing"} \cup Outcome]
  /\ pc \in Stopped \cup {"retry", "launch", "tick", "dispatch", "collect", "repair",
                         "settle", "cancel", "pausing", "raising"}
  /\ todo \in SUBSET Node
  /\ event \in {"absent", "clear", "set"}
  /\ calls \in Nat /\ crashes \in Nat /\ raises \in Nat

Launched == {"ready", "running", "repairing", "succeeded", "failed", "cancelled"}

DependencyOrderIn(ns) ==
  \A n \in Node : ns[n].state \in Launched => DepsSucceeded(ns, n)

\* A node that was ever dispatched has all its dependencies succeeded, in the
\* driver's memory and in the store alike: a crash between the save of an
\* upstream result and the dispatch it enables cannot separate the two.
DependencyOrder == DependencyOrderIn(nodes) /\ DependencyOrderIn(saved)

\* What the store lacks at the top of a tick is only what resume resets
\* (in-flight to pending) and what process_blocked derives: every dispatch,
\* result, repair and retry has been saved.
StoreKeepsUp ==
  pc = "tick" =>
    \A n \in Node :
      /\ nodes[n].state # saved[n].state => nodes[n].state \in {"pending", "blocked"}
      /\ Row(nodes[n]) = [saved[n] EXCEPT !.state = nodes[n].state]

\* A blocked node has a dead dependency, and was never dispatched.
BlockedHasCause ==
  \A n \in Node : nodes[n].state = "blocked" =>
    /\ \E d \in Deps[n] : nodes[d].state \in Dead
    /\ nodes[n].attempt = 0

\* Since its last retry() a node is dispatched at most max_attempts times,
\* plus once for each repair and once for each drive that was cut short.
AttemptBudget ==
  \A n \in Node :
    /\ nodes[n].repairs <= MaxRepairs[n]
    /\ nodes[n].attempt <= MaxAttempts[n] + nodes[n].repairs + crashes + raises

\* A succeeded node is never run again nor loses its outputs: resume and
\* retry skip it.
SucceededForever ==
  [][\A n \in Node : saved[n].state = "succeeded" => saved'[n] = saved[n]]_vars

\* Why DependencyOrder is preserved: what the driver's position says of the
\* nodes it is working on, and that memory and store agree on success.
FutureIsRunning ==
  /\ pc \in Stopped \cup {"retry", "launch"} => \A n \in Node : fut[n] = "none"
  /\ pc \in {"cancel", "pausing"} =>
       \A n \in Node : fut[n] # "none" => nodes[n].state \in {"running", "cancelled"}
  /\ pc \in {"tick", "dispatch", "collect", "settle", "raising"} =>
       \A n \in Node : fut[n] # "none" => nodes[n].state = "running"
  /\ pc = "repair" =>
       \E r \in todo : \A n \in Node :
         fut[n] # "none" => nodes[n].state = IF n = r THEN "repairing" ELSE "running"

PassIsSound ==
  /\ pc = "dispatch" => \A n \in todo : /\ nodes[n].state \in {"pending", "ready"}
                                        /\ DepsSucceeded(nodes, n)
  /\ pc \in {"collect", "repair"} => \A n \in todo : fut[n] \in Outcome
  /\ pc = "cancel" => \A n \in todo : nodes[n].state = "running"

SameSuccesses ==
  \A n \in Node : nodes[n].state = "succeeded" <=> saved[n].state = "succeeded"

OrderInv == TypeOK /\ DependencyOrder /\ FutureIsRunning /\ PassIsSound /\ SameSuccesses

\* The store shows every reader a run that implements the abstract lifecycle.
Phase(state) ==
  CASE state \in {"running", "repairing"} -> "active"
    [] state = "succeeded"                -> "done"
    [] state \in {"failed", "cancelled"}  -> "dead"
    [] OTHER                              -> "waiting"

Lifecycle == INSTANCE RunLifecycle WITH
  phase   <- [n \in Node |-> Phase(saved[n].state)],
  verdict <- IF savedRun \in {"created", "validated", "running"} THEN "open" ELSE savedRun

LifecycleSpec == Lifecycle!Spec

----------------------------------------------------------------------------
InFlightWithoutFuture ==
  {n \in Node : nodes[n].state \in {"running", "repairing"} /\ fut[n] = "none"}

\* If tools end, a drive that starts with no in-flight node ends: the call
\* returns, or raises, or its process dies.
DriverStops ==
  ToolFairness => (pc = "launch" /\ InFlightWithoutFuture = {}) ~> ~Driving

\* A cancel request is acted on without waiting for a tool to end: its
\* process is killed, or the call has ended meanwhile.
PromptCancel == event = "set" ~> event # "set" \/ pc \in {"pausing", "raising"}

\* A node's params never lose a repair other than by retry().
RepairsSurvive ==
  [][\A n \in Node : saved'[n].repairs >= saved[n].repairs => saved'[n].tweaks >= saved[n].tweaks]_vars
=============================================================================
