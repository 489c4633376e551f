-------------------------- MODULE GraphRuntimeProofs --------------------------
(***************************************************************************)
(* What GraphRuntime guarantees for every template, every limit and every  *)
(* bound: types, the order of dependencies in memory and in the store, and *)
(* that a succeeded node is final; how far the store may lag behind the    *)
(* driver, why a node is blocked, how often one is dispatched, and that    *)
(* the rows implement RunLifecycle.  The last part is about StopChain,     *)
(* which runs GraphRuntime and LocalExecutor side by side.                 *)
(***************************************************************************)
EXTENDS StopChain, TLAPS

\* What a valid template is made of.
LEMMA TemplateIsValid ==
  /\ Deps \in [Node -> SUBSET Node]
  /\ Refs \in [Node -> SUBSET Node]
  /\ \A n \in Node : Refs[n] \subseteq Deps[n]
  /\ MaxAttempts \in [Node -> Nat \ {0}]
  /\ MaxRepairs \in [Node -> Nat]
  /\ Repairable \subseteq Node
  /\ MayOmitOutput \subseteq Node
BY TemplateAssumption DEF ValidTemplate

\* A row is a NodeRun.
LEMMA RowType ==
  ASSUME NEW r \in NodeRun
  PROVE  /\ Row(r) \in NodeRun
         /\ Row(r).state = r.state
         /\ Row(r).outputs = r.outputs
BY DEF Row, NodeRun

\* SaveNode keeps types and touches one node and its row.
LEMMA SaveNodeEffect ==
  ASSUME nodes \in [Node -> NodeRun], saved \in [Node -> NodeRun],
         NEW n \in Node, NEW r \in NodeRun, SaveNode(n, r)
  PROVE  /\ nodes' \in [Node -> NodeRun]
         /\ saved' \in [Node -> NodeRun]
         /\ nodes'[n] = r
         /\ saved'[n] = Row(r)
         /\ \A m \in Node : m # n => nodes'[m] = nodes[m] /\ saved'[m] = saved[m]
<1>1. Row(r) \in NodeRun
  BY RowType
<1>2. QED
  BY <1>1 DEF SaveNode

LEMMA FreshType == FreshNode \in NodeRun
BY DEF FreshNode, NodeRun, NodeState

LEMMA InitType == Init => TypeOK
<1>1. SUFFICES ASSUME Init PROVE TypeOK
  OBVIOUS
<1>2. FreshNode \in NodeRun
  BY FreshType
<1>3. QED
  BY <1>1, <1>2 DEF Init, TypeOK, NoFutures, RunState, Stopped

\* The engine calls keep types.
LEMMA EngineType ==
  ASSUME TypeOK, Start \/ Resume \/ Retry
  PROVE  TypeOK'
<1>1. calls' \in Nat /\ UNCHANGED <<fut, crashes, raises>>
  BY DEF TypeOK, EngineCall, Start, Resume, Retry
<1>2. CASE Start
  BY <1>1, <1>2 DEF TypeOK, Start, Stopped
<1>3. CASE Resume
  <2>1. nodes' \in [Node -> NodeRun]
    <3>1. ASSUME NEW n \in Node
          PROVE  [saved[n] EXCEPT !.state = IF @ \in InFlight THEN "pending" ELSE @] \in NodeRun
      BY DEF TypeOK, NodeRun, NodeState
    <3>2. QED
      BY <1>3, <3>1 DEF Resume
  <2>2. QED
    BY <1>1, <1>3, <2>1 DEF TypeOK, Resume, RunState, Stopped
<1>4. CASE Retry
  <2>1. todo' \in SUBSET Node
    BY <1>4 DEF Retry, DefaultTargets
  <2>2. QED
    BY <1>1, <1>4, <2>1 DEF TypeOK, Retry, Stopped
<1>5. QED
  BY <1>2, <1>3, <1>4

\* The record a finish, a repair, a dispatch or a retry saves is a NodeRun.
LEMMA NodeUpdates ==
  ASSUME NEW r \in NodeRun, NEW s \in NodeState
  PROVE  /\ [r EXCEPT !.state = s] \in NodeRun
         /\ \A o \in {"none", "partial", "full"} :
              [r EXCEPT !.state = s, !.outputs = o] \in NodeRun
         /\ \A repairs, tweaks \in Nat :
              [r EXCEPT !.state = s, !.repairs = repairs, !.tweaks = tweaks] \in NodeRun
         /\ \A attempt, tweaks \in Nat :
              [r EXCEPT !.state = s, !.attempt = attempt, !.resolved = TRUE,
                        !.tweaks = tweaks] \in NodeRun
BY DEF NodeRun

----------------------------------------------------------------------------
\* One node that is not succeeded gets a new record, saved at once: if that
\* puts it among the launched ones then its dependencies have succeeded.
LEMMA MoveKeepsOrder ==
  ASSUME TypeOK, DependencyOrder, SameSuccesses,
         NEW n \in Node, NEW r \in NodeRun, SaveNode(n, r),
         nodes[n].state # "succeeded",
         r.state \in Launched => DepsSucceeded(nodes, n)
  PROVE  /\ DependencyOrder' /\ SameSuccesses'
         /\ \A m \in Node : DepsSucceeded(nodes, m) => DepsSucceeded(nodes, m)'
<1>1. /\ nodes'[n] = r /\ saved'[n] = Row(r) /\ Row(r).state = r.state
      /\ \A m \in Node : m # n => nodes'[m] = nodes[m] /\ saved'[m] = saved[m]
  BY SaveNodeEffect, RowType DEF TypeOK
<1>2. saved[n].state # "succeeded"
  BY DEF SameSuccesses
<1>3. \A m \in Node : Deps[m] \subseteq Node
  BY TemplateIsValid
<1>4. \A m \in Node : DepsSucceeded(nodes, m) => DepsSucceeded(nodes', m)
  BY <1>1, <1>3 DEF DepsSucceeded
<1>5. \A m \in Node : DepsSucceeded(saved, m) => DepsSucceeded(saved', m)
  BY <1>1, <1>2, <1>3 DEF DepsSucceeded
<1>6. DepsSucceeded(nodes, n) => DepsSucceeded(saved, n)
  BY <1>3 DEF DepsSucceeded, SameSuccesses
<1>7. DependencyOrderIn(nodes')
  BY <1>1, <1>4 DEF DependencyOrder, DependencyOrderIn
<1>8. DependencyOrderIn(saved')
  BY <1>1, <1>5, <1>6 DEF DependencyOrder, DependencyOrderIn
<1>9. SameSuccesses'
  BY <1>1 DEF SameSuccesses
<1>10. QED
  BY <1>4, <1>7, <1>8, <1>9 DEF DependencyOrder, DependencyOrderIn, DepsSucceeded

\* A load of the rows, with some in-flight ones reset, keeps the order.
LEMMA LoadKeepsOrder ==
  ASSUME TypeOK, DependencyOrder, saved' = saved, nodes' \in [Node -> NodeRun],
         \A n \in Node : \/ nodes'[n] = saved[n]
                         \/ saved[n].state \in InFlight /\ nodes'[n].state = "pending"
  PROVE  DependencyOrder' /\ SameSuccesses'
<1>1. \A n \in Node : nodes'[n].state = "succeeded" <=> saved[n].state = "succeeded"
  BY DEF InFlight
<1>2. \A n \in Node : nodes'[n].state \in Launched => saved[n].state \in Launched
  BY DEF InFlight, Launched
<1>3. DependencyOrderIn(nodes')
  BY <1>1, <1>2, TemplateIsValid DEF DependencyOrder, DependencyOrderIn, DepsSucceeded
<1>4. QED
  BY <1>1, <1>3 DEF DependencyOrder, SameSuccesses, DependencyOrderIn, DepsSucceeded

LEMMA InitOrder == Init => OrderInv
<1>1. SUFFICES ASSUME Init PROVE OrderInv
  OBVIOUS
<1>2. TypeOK
  BY <1>1, InitType
<1>3. DependencyOrder /\ SameSuccesses
  BY <1>1 DEF Init, DependencyOrder, DependencyOrderIn, SameSuccesses, FreshNode, Launched
<1>4. FutureIsRunning /\ PassIsSound
  BY <1>1 DEF Init, FutureIsRunning, PassIsSound, NoFutures, Stopped
<1>5. QED
  BY <1>2, <1>3, <1>4 DEF OrderInv

LEMMA EngineOrder ==
  ASSUME OrderInv, Start \/ Resume \/ Retry
  PROVE  OrderInv'
<1>1. TypeOK /\ TypeOK'
  BY EngineType DEF OrderInv
<1>2. UNCHANGED <<saved, fut>> /\ pc' \in {"launch", "retry"} /\ pc \in Stopped
  BY DEF EngineCall, Start, Resume, Retry, Driving
<1>3. nodes' \in [Node -> NodeRun]
  BY <1>1 DEF TypeOK
<1>4. \A n \in Node : \/ nodes'[n] = saved[n]
                      \/ saved[n].state \in InFlight /\ nodes'[n].state = "pending"
  <2>1. CASE Resume
    BY <1>1, <2>1 DEF Resume, TypeOK, NodeRun
  <2>2. CASE Start \/ Retry
    BY <2>2 DEF Start, Retry
  <2>3. QED
    BY <2>1, <2>2
<1>5. DependencyOrder' /\ SameSuccesses'
  BY <1>1, <1>2, <1>3, <1>4, LoadKeepsOrder DEF OrderInv
<1>6. FutureIsRunning' /\ PassIsSound'
  BY <1>2 DEF OrderInv, FutureIsRunning, PassIsSound, Stopped
<1>7. QED
  BY <1>1, <1>5, <1>6 DEF OrderInv

\* Steps that load the rows again: a refused retry, the end of a retry, and
\* every way a drive ends.
LEMMA ReloadOrder ==
  ASSUME OrderInv,
         \/ \E n \in Node : RetryRefused(n)
         \/ RetryCommit \/ Settle \/ Leave \/ Crash
  PROVE  OrderInv'
<1>1. nodes' = saved /\ saved' = saved
  BY DEF RetryRefused, RetryCommit, Settle, Leave, Crash
<1>2. DependencyOrder' /\ SameSuccesses'
  BY <1>1, LoadKeepsOrder DEF OrderInv, TypeOK
<1>3. CASE \E n \in Node : RetryRefused(n)
  <2>1. TypeOK'
    BY <1>1, <1>3 DEF OrderInv, TypeOK, RetryRefused, history, Stopped
  <2>2. FutureIsRunning' /\ PassIsSound'
    BY <1>3 DEF OrderInv, FutureIsRunning, PassIsSound, RetryRefused, Stopped
  <2>3. QED
    BY <1>2, <2>1, <2>2 DEF OrderInv
<1>4. CASE RetryCommit
  <2>1. TypeOK'
    BY <1>1, <1>4 DEF OrderInv, TypeOK, RetryCommit, history, RunState, Stopped
  <2>2. FutureIsRunning' /\ PassIsSound'
    BY <1>4 DEF OrderInv, FutureIsRunning, PassIsSound, RetryCommit, Stopped
  <2>3. QED
    BY <1>2, <2>1, <2>2 DEF OrderInv
<1>5. CASE Settle
  <2>1. savedRun' \in RunState
    BY <1>5 DEF Settle, DetermineRunStatus, RunState
  <2>2. TypeOK'
    BY <1>1, <1>5, <2>1 DEF OrderInv, TypeOK, Settle, history, Stopped
  <2>3. FutureIsRunning' /\ PassIsSound'
    BY <1>5 DEF OrderInv, FutureIsRunning, PassIsSound, Settle, AtEnd, Futures, Stopped
  <2>4. QED
    BY <1>2, <2>2, <2>3 DEF OrderInv
<1>6. CASE Leave \/ Crash
  <2>1. TypeOK'
    BY <1>1, <1>6 DEF OrderInv, TypeOK, Leave, Crash, NoFutures, history, Stopped
  <2>2. FutureIsRunning' /\ PassIsSound'
    BY <1>6 DEF OrderInv, FutureIsRunning, PassIsSound, Leave, Crash, NoFutures, Stopped
  <2>3. QED
    BY <1>2, <2>1, <2>2 DEF OrderInv
<1>7. QED
  BY <1>3, <1>4, <1>5, <1>6

\* Steps that move the driver or a future and leave every node alone.
LEMMA QuietOrder ==
  ASSUME OrderInv,
         \/ Launch \/ Collect \/ Collected \/ NextTick \/ CancelBegin \/ Pause
         \/ RequestCancel
         \/ \E n \in Node : ResolveFails(n) \/ ToolEnds(n)
         \/ UNCHANGED vars
  PROVE  OrderInv'
<1>1. nodes' = nodes /\ saved' = saved
  BY DEF Launch, Collect, Collected, NextTick, CancelBegin, Pause, RequestCancel,
         ResolveFails, ToolEnds, vars
<1>2. DependencyOrder' /\ SameSuccesses'
  BY <1>1 DEF OrderInv, DependencyOrder, DependencyOrderIn, DepsSucceeded, SameSuccesses
<1>3. CASE Launch \/ Collected \/ NextTick \/ CancelBegin \/ Pause
  <2>1. TypeOK'
    BY <1>1, <1>3 DEF OrderInv, TypeOK, Launch, Collected, NextTick, CancelBegin, Pause,
                      Futures, RunState, history, Stopped
  <2>2. FutureIsRunning' /\ PassIsSound'
    BY <1>1, <1>3 DEF OrderInv, FutureIsRunning, PassIsSound, Launch, Collected, NextTick,
                      CancelBegin, Pause, Stopped
  <2>3. QED
    BY <1>2, <2>1, <2>2 DEF OrderInv
<1>4. CASE Collect
  <2>1. TypeOK'
    BY <1>1, <1>4 DEF OrderInv, TypeOK, Collect, DoneFutures, history, Stopped
  <2>2. FutureIsRunning' /\ PassIsSound'
    BY <1>1, <1>4 DEF OrderInv, FutureIsRunning, PassIsSound, Collect, DoneFutures, Stopped
  <2>3. QED
    BY <1>2, <2>1, <2>2 DEF OrderInv
<1>5. CASE RequestCancel \/ UNCHANGED vars
  <2>1. TypeOK'
    BY <1>1, <1>5 DEF OrderInv, TypeOK, RequestCancel, vars, history
  <2>2. FutureIsRunning' /\ PassIsSound'
    BY <1>1, <1>5 DEF OrderInv, FutureIsRunning, PassIsSound, RequestCancel, vars, DepsSucceeded
  <2>3. QED
    BY <1>2, <2>1, <2>2 DEF OrderInv
<1>6. CASE \E n \in Node : ResolveFails(n)
  <2>1. TypeOK'
    BY <1>1, <1>6 DEF OrderInv, TypeOK, ResolveFails, Stopped
  <2>2. FutureIsRunning' /\ PassIsSound'
    BY <1>1, <1>6 DEF OrderInv, FutureIsRunning, PassIsSound, ResolveFails, Stopped
  <2>3. QED
    BY <1>2, <2>1, <2>2 DEF OrderInv
<1>7. CASE \E n \in Node : ToolEnds(n)
  <2>1. PICK n \in Node : ToolEnds(n)
    BY <1>7
  <2>2. PICK outcome \in Outcome : fut' = [fut EXCEPT ![n] = outcome]
    BY <2>1 DEF ToolEnds
  <2>3. fut[n] = "executing" /\ UNCHANGED <<pc, todo, savedRun, event, calls, crashes, raises>>
    BY <2>1 DEF ToolEnds, history
  <2>4. TypeOK'
    BY <1>1, <2>2, <2>3 DEF OrderInv, TypeOK
  <2>5. \A m \in Node : /\ fut'[m] # "none" <=> fut[m] # "none"
                        /\ fut[m] \in Outcome => fut'[m] \in Outcome
    BY <2>2, <2>3 DEF OrderInv, TypeOK, Outcome
  <2>6. FutureIsRunning'
    BY <1>1, <2>3, <2>5 DEF OrderInv, FutureIsRunning
  <2>7. todo \subseteq Node /\ \A m \in todo : fut[m] \in Outcome => fut'[m] \in Outcome
    BY <2>5 DEF OrderInv, TypeOK
  <2>8. PassIsSound'
    BY <1>1, <2>3, <2>7 DEF OrderInv, PassIsSound
  <2>9. QED
    BY <1>2, <2>4, <2>6, <2>8 DEF OrderInv
<1>8. QED
  BY <1>3, <1>4, <1>5, <1>6, <1>7

\* process_blocked moves pending nodes to blocked in memory, and the pass
\* picks nodes that are ready to run.
LEMMA ScheduleOrder == OrderInv /\ Schedule => OrderInv'
<1>1. SUFFICES ASSUME OrderInv, Schedule PROVE OrderInv'
  OBVIOUS
<1>2. PICK B \in SUBSET Node :
         /\ IsBlockedPass(B)
         /\ nodes' = [n \in Node |->
                        IF n \in B THEN [nodes[n] EXCEPT !.state = "blocked"] ELSE nodes[n]]
  BY <1>1 DEF Schedule
<1>3. \A n \in B : nodes[n].state = "pending"
  BY <1>2 DEF IsBlockedPass
<1>4. pc = "tick" /\ pc' = "dispatch"
      /\ UNCHANGED <<saved, savedRun, fut, event, calls, crashes, raises>>
  BY <1>1 DEF Schedule, history
<1>5. nodes' \in [Node -> NodeRun]
  BY <1>1, <1>2, NodeUpdates DEF OrderInv, TypeOK, NodeState
<1>6. \A n \in Node : \/ nodes'[n] = nodes[n]
                      \/ nodes[n].state = "pending" /\ nodes'[n].state = "blocked"
  BY <1>1, <1>2, <1>3 DEF OrderInv, TypeOK, NodeRun
<1>7. todo' \subseteq FindReadyNodes(nodes')
  BY <1>1 DEF Schedule
<1>8. TypeOK'
  BY <1>1, <1>4, <1>5, <1>7 DEF OrderInv, TypeOK, FindReadyNodes, Stopped
<1>9. DependencyOrder' /\ SameSuccesses'
  <2>1. SameSuccesses'
    BY <1>1, <1>4, <1>6 DEF OrderInv, SameSuccesses
  <2>2. DependencyOrderIn(nodes')
    BY <1>1, <1>6, TemplateIsValid
       DEF OrderInv, DependencyOrder, DependencyOrderIn, DepsSucceeded, Launched
  <2>3. QED
    BY <1>1, <1>4, <2>1, <2>2 DEF OrderInv, DependencyOrder, DependencyOrderIn, DepsSucceeded
<1>10. FutureIsRunning'
  BY <1>1, <1>4, <1>6 DEF OrderInv, FutureIsRunning, Stopped
<1>11. PassIsSound'
  BY <1>4, <1>7 DEF PassIsSound, FindReadyNodes, DepsSucceeded
<1>12. QED
  BY <1>8, <1>9, <1>10, <1>11 DEF OrderInv

LEMMA RetryResetOrder ==
  ASSUME OrderInv, NEW n \in Node, RetryReset(n)
  PROVE  OrderInv'
<1> DEFINE r == [FreshNode EXCEPT !.outputs = nodes[n].outputs]
<1>1. r \in NodeRun /\ r.state = "pending"
  BY DEF OrderInv, TypeOK, NodeRun, FreshNode, NodeState
<1>2. SaveNode(n, r) /\ pc = "retry" /\ todo' = todo \ {n}
      /\ UNCHANGED <<savedRun, fut, pc, event, calls, crashes, raises>>
  BY DEF RetryReset, history
<1>3. nodes[n].state # "succeeded"
  BY DEF RetryReset, CanTransition, AllowedNodeTransitions
<1>4. DependencyOrder' /\ SameSuccesses'
  BY <1>1, <1>2, <1>3, MoveKeepsOrder DEF OrderInv, Launched
<1>5. TypeOK'
  BY <1>1, <1>2, SaveNodeEffect DEF OrderInv, TypeOK
<1>6. FutureIsRunning' /\ PassIsSound'
  BY <1>2 DEF OrderInv, FutureIsRunning, PassIsSound, Stopped
<1>7. QED
  BY <1>4, <1>5, <1>6 DEF OrderInv

LEMMA DispatchOrder ==
  ASSUME OrderInv, NEW n \in Node, Dispatch(n)
  PROVE  OrderInv'
<1> DEFINE r == [nodes[n] EXCEPT !.state = "running", !.attempt = @ + 1, !.resolved = TRUE,
                                 !.tweaks = IF nodes[n].resolved THEN @ ELSE 0]
<1> DEFINE tweaks == IF nodes[n].resolved THEN nodes[n].tweaks ELSE 0
<1>0. nodes[n] \in NodeRun /\ nodes[n].attempt + 1 \in Nat /\ tweaks \in Nat
  BY DEF OrderInv, TypeOK, NodeRun
<1>1. r \in NodeRun /\ r.state = "running"
  <2>1. r = [nodes[n] EXCEPT !.state = "running", !.attempt = nodes[n].attempt + 1,
                             !.resolved = TRUE, !.tweaks = tweaks]
    BY Zenon
  <2>2. "running" \in NodeState
    BY DEF NodeState
  <2>3. r \in NodeRun
    <3> HIDE DEF tweaks, r
    <3>1. QED
      BY <1>0, <2>1, <2>2, NodeUpdates, Zenon
  <2>4. r.state = "running"
    <3> HIDE DEF tweaks, r
    <3>1. QED
      BY <1>0, <2>1 DEF NodeRun
  <2>5. QED
    BY <2>3, <2>4
<1>2. SaveNode(n, r) /\ pc = "dispatch" /\ n \in todo /\ todo' = todo \ {n}
      /\ fut' = [fut EXCEPT ![n] = "executing"]
      /\ UNCHANGED <<savedRun, pc, event, calls, crashes, raises>>
  BY DEF Dispatch, First, history
<1>3. nodes[n].state \in {"pending", "ready"} /\ DepsSucceeded(nodes, n)
  BY <1>2 DEF OrderInv, PassIsSound
<1>4. /\ DependencyOrder' /\ SameSuccesses'
      /\ \A m \in Node : DepsSucceeded(nodes, m) => DepsSucceeded(nodes, m)'
  BY <1>1, <1>2, <1>3, MoveKeepsOrder DEF OrderInv
<1>5. /\ nodes'[n] = r
      /\ \A m \in Node : m # n => nodes'[m] = nodes[m]
      /\ nodes' \in [Node -> NodeRun] /\ saved' \in [Node -> NodeRun]
  BY <1>1, <1>2, SaveNodeEffect DEF OrderInv, TypeOK
<1>6. TypeOK'
  BY <1>2, <1>5 DEF OrderInv, TypeOK
<1>7. FutureIsRunning'
  <2>1. \A m \in Node : fut[m] # "none" => nodes[m].state = "running"
    BY <1>2 DEF OrderInv, FutureIsRunning
  <2>2. \A m \in Node : fut'[m] # "none" => nodes'[m].state = "running"
    BY <1>1, <1>2, <1>5, <2>1 DEF OrderInv, TypeOK
  <2>3. QED
    BY <1>2, <2>2 DEF FutureIsRunning, Stopped
<1>8. PassIsSound'
  BY <1>2, <1>4, <1>5 DEF OrderInv, TypeOK, PassIsSound
<1>9. QED
  BY <1>4, <1>6, <1>7, <1>8 DEF OrderInv

\* The steps of _finish: n had a future, loses it, and is not pending.
LEMMA FinishOrder ==
  ASSUME OrderInv, NEW n \in Node, NEW r \in NodeRun, Finish(n, r), n \in todo,
         nodes[n].state \in {"running", "repairing"}, pc' = "collect",
         \/ pc = "collect"
         \/ pc = "repair" /\ nodes[n].state = "repairing"
  PROVE  OrderInv'
<1>1. SaveNode(n, r) /\ todo' = todo \ {n} /\ fut' = [fut EXCEPT ![n] = "none"]
      /\ UNCHANGED <<savedRun, event, calls, crashes, raises>>
  BY DEF Finish, history
<1>2. DepsSucceeded(nodes, n)
  BY DEF OrderInv, DependencyOrder, DependencyOrderIn, Launched
<1>3. DependencyOrder' /\ SameSuccesses'
  BY <1>1, <1>2, MoveKeepsOrder DEF OrderInv
<1>4. /\ \A m \in Node : m # n => nodes'[m] = nodes[m]
      /\ nodes' \in [Node -> NodeRun] /\ saved' \in [Node -> NodeRun]
  BY <1>1, SaveNodeEffect DEF OrderInv, TypeOK
<1>5. TypeOK'
  BY <1>1, <1>4 DEF OrderInv, TypeOK
<1>6. \A m \in Node : fut'[m] # "none" => m # n /\ fut'[m] = fut[m]
  BY <1>1 DEF OrderInv, TypeOK
<1>7. \A m \in Node : fut'[m] # "none" => nodes'[m].state = "running"
  <2>1. CASE pc = "collect"
    BY <1>4, <1>6, <2>1 DEF OrderInv, FutureIsRunning
  <2>2. CASE pc = "repair" /\ nodes[n].state = "repairing"
    <3>1. fut[n] # "none"
      BY <2>2 DEF OrderInv, PassIsSound, Outcome
    <3>2. \A m \in Node : m # n /\ fut[m] # "none" => nodes[m].state = "running"
      BY <2>2, <3>1 DEF OrderInv, FutureIsRunning
    <3>3. QED
      BY <1>4, <1>6, <3>2
  <2>3. QED
    BY <2>1, <2>2
<1>8. FutureIsRunning'
  BY <1>7 DEF FutureIsRunning, Stopped
<1>9. \A m \in todo' : fut'[m] \in Outcome
  BY <1>1 DEF OrderInv, TypeOK, PassIsSound
<1>10. PassIsSound'
  BY <1>9 DEF PassIsSound
<1>11. QED
  BY <1>3, <1>5, <1>8, <1>10 DEF OrderInv

LEMMA CollectOrder ==
  ASSUME OrderInv, NEW n \in Node, FinishSucceeded(n) \/ FinishFailed(n)
  PROVE  OrderInv'
<1>1. pc = "collect" /\ n \in todo /\ pc' = "collect"
  BY DEF FinishSucceeded, FinishFailed
<1>2. nodes[n].state = "running"
  BY <1>1 DEF OrderInv, PassIsSound, FutureIsRunning, Outcome
<1>3. nodes[n] \in NodeRun
  BY DEF OrderInv, TypeOK
<1>4. CASE FinishSucceeded(n)
  <2> DEFINE outputs == IF fut[n] = "ok" THEN "full" ELSE "partial"
  <2>1. [nodes[n] EXCEPT !.state = "succeeded", !.outputs = outputs] \in NodeRun
    BY <1>3, NodeUpdates DEF NodeState
  <2>2. Finish(n, [nodes[n] EXCEPT !.state = "succeeded", !.outputs = outputs])
    BY <1>4 DEF FinishSucceeded
  <2>3. QED
    BY <1>1, <1>2, <2>1, <2>2, FinishOrder
<1>5. CASE FinishFailed(n)
  <2> DEFINE state == IF nodes[n].attempt < MaxAttempts[n] THEN "ready" ELSE "failed"
  <2>1. [nodes[n] EXCEPT !.state = state] \in NodeRun
    BY <1>3, NodeUpdates DEF NodeState
  <2>2. Finish(n, [nodes[n] EXCEPT !.state = state])
    BY <1>5 DEF FinishFailed
  <2>3. QED
    BY <1>1, <1>2, <2>1, <2>2, FinishOrder
<1>6. QED
  BY <1>4, <1>5

LEMMA RepairOrder ==
  ASSUME OrderInv, NEW n \in Node, NEW repaired \in BOOLEAN, Repair(n, repaired)
  PROVE  OrderInv'
<1> DEFINE state == IF repaired THEN "ready" ELSE "failed"
           tweaks == IF repaired THEN nodes[n].tweaks + 1 ELSE nodes[n].tweaks
           r == [nodes[n] EXCEPT !.state = state, !.repairs = nodes[n].repairs + 1,
                                 !.tweaks = tweaks]
<1>1. pc = "repair" /\ n \in todo /\ nodes[n].state = "repairing" /\ pc' = "collect"
  BY DEF Repair
<1>2. /\ nodes[n] \in NodeRun /\ nodes[n].repairs + 1 \in Nat /\ tweaks \in Nat
      /\ state \in NodeState
  BY DEF OrderInv, TypeOK, NodeRun, NodeState
<1>3. Finish(n, r)
  BY Zenon DEF Repair
<1>4. r \in NodeRun
  <2> HIDE DEF state, tweaks
  <2>1. QED
    BY <1>2, NodeUpdates, Zenon
<1>5. QED
  <2> HIDE DEF r
  <2>1. QED
    BY <1>1, <1>3, <1>4, FinishOrder

LEMMA BeginRepairOrder ==
  ASSUME OrderInv, NEW n \in Node, BeginRepair(n)
  PROVE  OrderInv'
<1> DEFINE r == [nodes[n] EXCEPT !.state = "repairing"]
<1>1. /\ pc = "collect" /\ n \in todo /\ SaveNode(n, r) /\ pc' = "repair"
      /\ UNCHANGED <<savedRun, fut, todo, event, calls, crashes, raises>>
  BY DEF BeginRepair, history
<1>2. r \in NodeRun /\ r.state = "repairing"
  <2>1. nodes[n] \in NodeRun /\ "repairing" \in NodeState
    BY DEF OrderInv, TypeOK, NodeState
  <2>2. r \in NodeRun
    BY <2>1, NodeUpdates
  <2>3. r.state = "repairing"
    BY <2>1 DEF NodeRun
  <2>4. QED
    BY <2>2, <2>3
<1>3. nodes[n].state = "running"
  BY <1>1 DEF OrderInv, PassIsSound, FutureIsRunning, Outcome
<1>4. DependencyOrder' /\ SameSuccesses'
  BY <1>1, <1>2, <1>3, MoveKeepsOrder
     DEF OrderInv, DependencyOrder, DependencyOrderIn, Launched
<1>5. /\ nodes'[n] = r
      /\ \A m \in Node : m # n => nodes'[m] = nodes[m]
      /\ nodes' \in [Node -> NodeRun] /\ saved' \in [Node -> NodeRun]
  BY <1>1, <1>2, SaveNodeEffect DEF OrderInv, TypeOK
<1>6. TypeOK'
  BY <1>1, <1>5 DEF OrderInv, TypeOK, Stopped
<1>7. FutureIsRunning'
  <2>1. \A m \in Node : fut[m] # "none" => nodes[m].state = "running"
    BY <1>1 DEF OrderInv, FutureIsRunning
  <2>2. \A m \in Node : fut'[m] # "none" =>
          nodes'[m].state = IF m = n THEN "repairing" ELSE "running"
    BY <1>1, <1>2, <1>5, <2>1
  <2>3. n \in todo'
    BY <1>1
  <2>4. QED
    BY <1>1, <2>2, <2>3 DEF FutureIsRunning, Stopped
<1>8. PassIsSound'
  BY <1>1 DEF OrderInv, PassIsSound
<1>9. QED
  BY <1>4, <1>6, <1>7, <1>8 DEF OrderInv

LEMMA CancelNodeOrder ==
  ASSUME OrderInv, NEW n \in Node, CancelNode(n)
  PROVE  OrderInv'
<1> DEFINE r == [nodes[n] EXCEPT !.state = "cancelled"]
<1>1. /\ pc = "cancel" /\ n \in todo /\ SaveNode(n, r) /\ todo' = todo \ {n}
      /\ UNCHANGED <<savedRun, fut, pc, event, calls, crashes, raises>>
  BY DEF CancelNode, history
<1>2. r \in NodeRun /\ r.state = "cancelled"
  <2>1. nodes[n] \in NodeRun /\ "cancelled" \in NodeState
    BY DEF OrderInv, TypeOK, NodeState
  <2>2. r \in NodeRun
    BY <2>1, NodeUpdates
  <2>3. r.state = "cancelled"
    BY <2>1 DEF NodeRun
  <2>4. QED
    BY <2>2, <2>3
<1>3. nodes[n].state = "running"
  BY <1>1 DEF OrderInv, PassIsSound
<1>4. DependencyOrder' /\ SameSuccesses'
  BY <1>1, <1>2, <1>3, MoveKeepsOrder
     DEF OrderInv, DependencyOrder, DependencyOrderIn, Launched
<1>5. /\ nodes'[n] = r
      /\ \A m \in Node : m # n => nodes'[m] = nodes[m]
      /\ nodes' \in [Node -> NodeRun] /\ saved' \in [Node -> NodeRun]
  BY <1>1, <1>2, SaveNodeEffect DEF OrderInv, TypeOK
<1>6. TypeOK'
  BY <1>1, <1>5 DEF OrderInv, TypeOK
<1>7. FutureIsRunning'
  BY <1>1, <1>2, <1>5 DEF OrderInv, FutureIsRunning, Stopped
<1>8. PassIsSound'
  BY <1>1, <1>5 DEF OrderInv, TypeOK, PassIsSound
<1>9. QED
  BY <1>4, <1>6, <1>7, <1>8 DEF OrderInv

\* OrderInv is inductive.
LEMMA NextOrder == OrderInv /\ [Next]_vars => OrderInv'
<1>1. SUFFICES ASSUME OrderInv, [Next]_vars PROVE OrderInv'
  OBVIOUS
<1>2. CASE Start \/ Resume \/ Retry
  BY <1>1, <1>2, EngineOrder
<1>3. CASE RequestCancel \/ UNCHANGED vars \/ \E n \in Node : ToolEnds(n)
  BY <1>1, <1>3, QuietOrder
<1>4. CASE Crash
  BY <1>1, <1>4, ReloadOrder
<1>5. ASSUME NEW n \in Node, DriverNode(n)
      PROVE  OrderInv'
  <2>1. CASE RetryRefused(n)
    BY <1>1, <2>1, ReloadOrder
  <2>2. CASE ResolveFails(n)
    BY <1>1, <2>2, QuietOrder
  <2>3. CASE \E repaired \in BOOLEAN : Repair(n, repaired)
    BY <1>1, <2>3, RepairOrder
  <2>4. QED
    BY <1>1, <1>5, <2>1, <2>2, <2>3, RetryResetOrder, DispatchOrder, CollectOrder,
       BeginRepairOrder, CancelNodeOrder DEF DriverNode
<1>6. CASE Schedule
  BY <1>1, <1>6, ScheduleOrder
<1>7. CASE Launch \/ Collect \/ Collected \/ NextTick \/ CancelBegin \/ Pause
  BY <1>1, <1>7, QuietOrder
<1>8. CASE RetryCommit \/ Settle \/ Leave
  BY <1>1, <1>8, ReloadOrder
<1>9. QED
  BY <1>1, <1>2, <1>3, <1>4, <1>5, <1>6, <1>7, <1>8 DEF Next, Driver

----------------------------------------------------------------------------
\* The invariant behind the theorems below holds in every reachable state.
THEOREM OrderInvariant == Spec => []OrderInv
<1>1. Init => OrderInv
  BY InitOrder
<1>2. OrderInv /\ [Next]_vars => OrderInv'
  BY NextOrder
<1>3. QED
  BY <1>1, <1>2, PTL DEF Spec

\* The driver, the store and the futures keep their types (scheduler.py,
\* store.py, engine.py).
THEOREM TypeCorrect == Spec => []TypeOK
<1>1. OrderInv => TypeOK
  BY DEF OrderInv
<1>2. QED
  BY <1>1, OrderInvariant, PTL

\* For every template: whatever was ever dispatched has its dependencies
\* succeeded, in memory and in the store, across crashes, resumes, retries
\* and cancels (find_ready_nodes, _prepare_dispatch, _finish, resume_run).
THEOREM DependenciesFirst == Spec => []DependencyOrder
<1>1. OrderInv => DependencyOrder
  BY DEF OrderInv
<1>2. QED
  BY <1>1, OrderInvariant, PTL

\* The scheduler never waits for nothing: where a node is pending and none is
\* in flight, a node is ready or the next pass of process_blocked marks one.
PendingCanMove ==
  (\E n \in Node : nodes[n].state = "pending") /\ (\A n \in Node : nodes[n].state \notin InFlight)
    => FindReadyNodes(nodes) # {} \/ ~IsBlockedPass({})

\* In a valid template nobody waits forever: a pending node that depends on no
\* other pending one has its dependencies succeeded or dead.  ("remaining
\* Pending nodes can only be blocked; loop once more", _run_threaded; what
\* _detect_cycle is for.)
THEOREM NobodyWaitsForNothing == Spec => []PendingCanMove
<1>1. TypeOK => PendingCanMove
  <2>1. SUFFICES ASSUME TypeOK, NEW p \in Node, nodes[p].state = "pending",
                        \A n \in Node : nodes[n].state \notin InFlight
                 PROVE  FindReadyNodes(nodes) # {} \/ ~IsBlockedPass({})
    BY DEF PendingCanMove
  <2> DEFINE S == {n \in Node : nodes[n].state = "pending"}
  <2>2. S \in (SUBSET Node) \ {{}}
    BY <2>1
  <2>3. PICK n \in S : Deps[n] \cap S = {}
    BY <2>2, TemplateAssumption DEF ValidTemplate, Acyclic
  <2>4. \A d \in Deps[n] : d \in Node /\ nodes[d].state \in NodeState
                           /\ nodes[d].state \notin InFlight \cup {"pending"}
    BY <2>1, <2>3, TemplateIsValid DEF TypeOK, NodeRun
  <2>5. \A d \in Deps[n] : nodes[d].state \in Dead \cup {"succeeded"}
    BY <2>4 DEF NodeState, InFlight, Dead
  <2>6. CASE \E d \in Deps[n] : nodes[d].state \in Dead
    BY <2>3, <2>6 DEF IsBlockedPass
  <2>7. CASE DepsSucceeded(nodes, n)
    BY <2>3, <2>7 DEF FindReadyNodes
  <2>8. QED
    BY <2>5, <2>6, <2>7 DEF DepsSucceeded
<1>2. QED
  BY <1>1, TypeCorrect, PTL

----------------------------------------------------------------------------
\* What a step must keep: the row of every succeeded node.
SuccessesKept == \A n \in Node : saved[n].state = "succeeded" => saved'[n] = saved[n]

\* A save of a node that has not succeeded touches no succeeded row.
LEMMA SaveKeepsSuccesses ==
  ASSUME OrderInv, NEW n \in Node, NEW r, SaveNode(n, r), nodes[n].state # "succeeded"
  PROVE  SuccessesKept
<1>1. saved[n].state # "succeeded"
  BY DEF OrderInv, SameSuccesses
<1>2. \A m \in Node : m # n => saved'[m] = saved[m]
  BY DEF OrderInv, TypeOK, SaveNode
<1>3. QED
  BY <1>1, <1>2 DEF SuccessesKept

\* A node whose tool's result is being handled has not succeeded yet.
LEMMA CollectedNotSucceeded ==
  ASSUME OrderInv, NEW n \in todo, pc \in {"collect", "repair"}
  PROVE  nodes[n].state \in {"running", "repairing"}
<1>1. fut[n] # "none" /\ n \in Node
  BY DEF OrderInv, TypeOK, PassIsSound, Outcome
<1>2. CASE pc = "collect"
  BY <1>1, <1>2 DEF OrderInv, FutureIsRunning
<1>3. CASE pc = "repair"
  BY <1>1, <1>3 DEF OrderInv, FutureIsRunning
<1>4. QED
  BY <1>2, <1>3

LEMMA DriverNodeKeepsSuccesses ==
  ASSUME OrderInv, NEW n \in Node, DriverNode(n)
  PROVE  SuccessesKept
<1>1. CASE RetryReset(n)
  <2>1. nodes[n].state # "succeeded"
    BY <1>1 DEF RetryReset, CanTransition, AllowedNodeTransitions
  <2>2. QED
    BY <1>1, <2>1, SaveKeepsSuccesses DEF RetryReset
<1>2. CASE RetryRefused(n) \/ ResolveFails(n)
  BY <1>2 DEF RetryRefused, ResolveFails, SuccessesKept
<1>3. CASE Dispatch(n)
  <2>1. n \in todo /\ pc = "dispatch"
    BY <1>3 DEF Dispatch, First
  <2>2. nodes[n].state # "succeeded"
    BY <2>1 DEF OrderInv, PassIsSound
  <2>3. QED
    BY <1>3, <2>2, SaveKeepsSuccesses DEF Dispatch
<1>4. CASE FinishSucceeded(n) \/ FinishFailed(n) \/ \E repaired \in BOOLEAN : Repair(n, repaired)
  <2>1. n \in todo /\ pc \in {"collect", "repair"}
    BY <1>4 DEF FinishSucceeded, FinishFailed, Repair
  <2>2. \E r : SaveNode(n, r)
    BY <1>4 DEF FinishSucceeded, FinishFailed, Repair, Finish
  <2>3. QED
    BY <2>1, <2>2, CollectedNotSucceeded, SaveKeepsSuccesses
<1>5. CASE BeginRepair(n)
  BY <1>5, CollectedNotSucceeded, SaveKeepsSuccesses DEF BeginRepair
<1>6. CASE CancelNode(n)
  <2>1. nodes[n].state # "succeeded"
    BY <1>6 DEF CancelNode, OrderInv, PassIsSound
  <2>2. QED
    BY <1>6, <2>1, SaveKeepsSuccesses DEF CancelNode
<1>7. QED
  BY <1>1, <1>2, <1>3, <1>4, <1>5, <1>6 DEF DriverNode

LEMMA StepKeepsSuccesses == OrderInv /\ [Next]_vars => SuccessesKept
<1>1. SUFFICES ASSUME OrderInv, [Next]_vars PROVE SuccessesKept
  OBVIOUS
<1>2. CASE \E n \in Node : DriverNode(n)
  BY <1>1, <1>2, DriverNodeKeepsSuccesses
<1>3. CASE Start \/ Resume \/ Retry \/ RequestCancel \/ Crash \/ UNCHANGED vars
  BY <1>3 DEF Start, Resume, Retry, RequestCancel, Crash, vars, SuccessesKept
<1>4. CASE \E n \in Node : ToolEnds(n)
  BY <1>4 DEF ToolEnds, SuccessesKept
<1>5. CASE \/ RetryCommit \/ Launch \/ Schedule \/ Collect \/ Collected
           \/ Settle \/ NextTick \/ CancelBegin \/ Pause \/ Leave
  BY <1>5 DEF RetryCommit, Launch, Schedule, Collect, Collected, Settle, NextTick,
              CancelBegin, Pause, Leave, SuccessesKept
<1>6. QED
  BY <1>1, <1>2, <1>3, <1>4, <1>5 DEF Next, Driver

\* No call, crash, retry or cancel runs a succeeded node again or changes what
\* is stored of it (resume_run, engine.retry, _finish, _cancel).
THEOREM SuccessIsForever == Spec => SucceededForever
<1>1. OrderInv /\ [Next]_vars => [SuccessesKept]_vars
  BY StepKeepsSuccesses
<1>2. OrderInv /\ [Next]_vars
        => [\A n \in Node : saved[n].state = "succeeded" => saved'[n] = saved[n]]_vars
  BY <1>1 DEF SuccessesKept
<1>3. QED
  BY <1>2, OrderInvariant, PTL DEF Spec, SucceededForever

----------------------------------------------------------------------------
(* The store and its readers *)


\* What a row may lack: the reset of a resume, or a blocking.  Nothing is
\* blocked or skipped in the store.
Unsaved == InFlight \cup {"pending"}

MemoryInv ==
  \A n \in Node :
    /\ nodes[n].attempt = saved[n].attempt /\ nodes[n].repairs = saved[n].repairs
    /\ nodes[n].tweaks = saved[n].tweaks /\ nodes[n].outputs = saved[n].outputs
    /\ saved[n].resolved = FALSE /\ saved[n].state \notin {"blocked", "skipped"}
    /\ nodes[n].state # saved[n].state =>
         nodes[n].state \in {"pending", "blocked"} /\ saved[n].state \in Unsaved

\* A node that was dispatched has its dependencies, even after a resume made
\* it pending again; a retry starts from the store, where nothing is blocked.
BlockInv ==
  /\ \A n \in Node : nodes[n].attempt # 0 => DepsSucceeded(nodes, n)
  /\ \A n \in Node : nodes[n].state = "blocked" => \E d \in Deps[n] : nodes[d].state \in Dead
  /\ pc = "retry" => \A n \in Node : nodes[n].state # "blocked"

\* One more dispatch of n is within its budget.
Room(n) == saved[n].attempt < MaxAttempts[n] + saved[n].repairs + crashes + raises

\* A row from which n can be dispatched has room for it, unless the dispatch
\* that the row tells of is still under way.
BudgetInv ==
  /\ \A n \in Node :
       /\ saved[n].repairs <= MaxRepairs[n]
       /\ saved[n].attempt <= MaxAttempts[n] + saved[n].repairs + crashes + raises
       /\ saved[n].state \in Unsaved /\ (fut[n] = "none" \/ pc = "raising") => Room(n)
  /\ pc = "repair" =>
       \A n \in todo : nodes[n].state = "repairing" => saved[n].repairs < MaxRepairs[n]
  /\ pc = "cancel" => \A n \in Node : fut[n] # "none" => n \in todo \/ saved[n].state = "cancelled"
  /\ pc = "pausing" => \A n \in Node : fut[n] # "none" => saved[n].state = "cancelled"

\* The row of a run that is being driven says so.
RunInv ==
  pc \in {"tick", "dispatch", "collect", "repair", "settle", "cancel"} => savedRun = "running"

StoreInv == OrderInv /\ MemoryInv /\ BlockInv /\ RunInv

----------------------------------------------------------------------------
(* The steps, by what they do to nodes and rows *)

Resets(n, r) ==
  /\ pc = "retry" /\ pc' = "retry" /\ fut' = fut
  /\ nodes[n].state \in {"failed", "blocked", "cancelled"}
  /\ r.state = "pending" /\ r.attempt = 0 /\ r.repairs = 0

Dispatches(n, r) ==
  /\ pc = "dispatch" /\ pc' = "dispatch" /\ fut' = [fut EXCEPT ![n] = "executing"]
  /\ nodes[n].state \in {"pending", "ready"} /\ DepsSucceeded(nodes, n)
  /\ r.state = "running" /\ r.attempt = nodes[n].attempt + 1 /\ r.repairs = nodes[n].repairs

Finishes(n, r) ==
  /\ pc \in {"collect", "repair"} /\ pc' = "collect" /\ fut' = [fut EXCEPT ![n] = "none"]
  /\ nodes[n].state \in {"running", "repairing"} /\ n \in todo
  /\ r.state \in {"succeeded", "failed", "ready"} /\ r.attempt = nodes[n].attempt
  /\ \/ /\ r.repairs = nodes[n].repairs
        /\ r.state = "ready" => r.attempt < MaxAttempts[n]
     \/ /\ r.repairs = nodes[n].repairs + 1
        /\ pc = "repair" /\ nodes[n].state = "repairing"

BeginsRepair(n, r) ==
  /\ pc = "collect" /\ pc' = "repair" /\ fut' = fut /\ todo' = todo
  /\ nodes[n].state = "running" /\ fut[n] # "none"
  /\ r.state = "repairing" /\ r.attempt = nodes[n].attempt /\ r.repairs = nodes[n].repairs
  /\ r.repairs < MaxRepairs[n]

Cancels(n, r) ==
  /\ pc = "cancel" /\ pc' = "cancel" /\ fut' = fut /\ todo' = todo \ {n}
  /\ nodes[n].state = "running"
  /\ r.state = "cancelled" /\ r.attempt = nodes[n].attempt /\ r.repairs = nodes[n].repairs

\* A node and its row become r.
Saves(n, r) ==
  /\ r \in NodeRun /\ SaveNode(n, r)
  /\ UNCHANGED <<savedRun, crashes, raises>>
  /\ Resets(n, r) \/ Dispatches(n, r) \/ Finishes(n, r) \/ BeginsRepair(n, r) \/ Cancels(n, r)

\* The driver's nodes are the rows.
Loads == nodes' = saved /\ saved' = saved

Rests == nodes' = nodes /\ saved' = saved /\ (pc' = "retry" => pc = "retry")

LEMMA ResetSaves ==
  ASSUME OrderInv, NEW n \in Node, RetryReset(n)
  PROVE  \E r : Saves(n, r)
<1> DEFINE r == [FreshNode EXCEPT !.outputs = nodes[n].outputs]
<1>1. r \in NodeRun /\ r.state = "pending" /\ r.attempt = 0 /\ r.repairs = 0
  BY DEF OrderInv, TypeOK, NodeRun, FreshNode, NodeState
<1>2. nodes[n].state \in {"failed", "blocked", "cancelled"}
  <2>1. nodes[n].state \in NodeState
    BY DEF OrderInv, TypeOK, NodeRun
  <2>2. \A s \in {"pending", "ready", "running", "repairing", "succeeded", "skipped"} :
           ~CanTransition(s, "pending")
    BY DEF CanTransition, AllowedNodeTransitions
  <2>3. CanTransition(nodes[n].state, "pending")
    BY DEF RetryReset
  <2>4. QED
    BY <2>1, <2>2, <2>3 DEF NodeState
<1>3. SaveNode(n, r) /\ pc = "retry" /\ pc' = pc /\ fut' = fut /\ UNCHANGED <<savedRun, crashes, raises>>
  BY DEF RetryReset, history
<1>4. Saves(n, r)
  BY <1>1, <1>2, <1>3 DEF Saves, Resets
<1>5. QED
  BY <1>4

LEMMA DispatchSaves ==
  ASSUME OrderInv, NEW n \in Node, Dispatch(n)
  PROVE  \E r : Saves(n, r)
<1> DEFINE tweaks == IF nodes[n].resolved THEN nodes[n].tweaks ELSE 0
           r == [nodes[n] EXCEPT !.state = "running", !.attempt = nodes[n].attempt + 1,
                                 !.resolved = TRUE, !.tweaks = tweaks]
<1>1. /\ nodes[n] \in NodeRun /\ nodes[n].attempt + 1 \in Nat /\ tweaks \in Nat
      /\ "running" \in NodeState
  BY DEF OrderInv, TypeOK, NodeRun, NodeState
<1>2. SaveNode(n, r)
  BY Zenon DEF Dispatch
<1>3. r \in NodeRun /\ r.state = "running" /\ r.attempt = nodes[n].attempt + 1
      /\ r.repairs = nodes[n].repairs
  <2> HIDE DEF tweaks
  <2>1. QED
    BY <1>1 DEF NodeRun
<1>4. /\ pc = "dispatch" /\ n \in todo /\ pc' = pc /\ fut' = [fut EXCEPT ![n] = "executing"]
      /\ UNCHANGED <<savedRun, crashes, raises>>
  BY DEF Dispatch, First, history
<1>5. nodes[n].state \in {"pending", "ready"} /\ DepsSucceeded(nodes, n)
  BY <1>4 DEF OrderInv, PassIsSound
<1> HIDE DEF r
<1>6. Saves(n, r)
  BY <1>2, <1>3, <1>4, <1>5 DEF Saves, Dispatches
<1>7. QED
  BY <1>6

LEMMA CollectSaves ==
  ASSUME OrderInv, NEW n \in Node, FinishSucceeded(n) \/ FinishFailed(n)
  PROVE  \E r : Saves(n, r)
<1>1. pc = "collect" /\ n \in todo /\ pc' = "collect"
  BY DEF FinishSucceeded, FinishFailed
<1>2. nodes[n].state \in {"running", "repairing"} /\ nodes[n] \in NodeRun
  BY <1>1, CollectedNotSucceeded DEF OrderInv, TypeOK
<1>3. CASE FinishSucceeded(n)
  <2> DEFINE outputs == IF fut[n] = "ok" THEN "full" ELSE "partial"
             r == [nodes[n] EXCEPT !.state = "succeeded", !.outputs = outputs]
  <2>1. Finish(n, r)
    BY <1>3 DEF FinishSucceeded
  <2>2. /\ r \in NodeRun /\ r.state = "succeeded" /\ r.attempt = nodes[n].attempt
        /\ r.repairs = nodes[n].repairs
    BY <1>2 DEF NodeRun, NodeState
  <2> HIDE DEF r
  <2>3. Saves(n, r)
    BY <1>1, <1>2, <2>1, <2>2 DEF Saves, Finishes, Finish, history
  <2>4. QED
    BY <2>3
<1>4. CASE FinishFailed(n)
  <2> DEFINE state == IF nodes[n].attempt < MaxAttempts[n] THEN "ready" ELSE "failed"
             r == [nodes[n] EXCEPT !.state = state]
  <2>1. Finish(n, r)
    BY <1>4 DEF FinishFailed
  <2>2. /\ r \in NodeRun /\ r.state \in {"ready", "failed"} /\ r.attempt = nodes[n].attempt
        /\ r.repairs = nodes[n].repairs /\ (r.state = "ready" => r.attempt < MaxAttempts[n])
    BY <1>2 DEF NodeRun, NodeState
  <2> HIDE DEF r
  <2>3. Saves(n, r)
    BY <1>1, <1>2, <2>1, <2>2 DEF Saves, Finishes, Finish, history
  <2>4. QED
    BY <2>3
<1>5. QED
  BY <1>3, <1>4

LEMMA RepairSaves ==
  ASSUME OrderInv, NEW n \in Node, NEW repaired \in BOOLEAN, Repair(n, repaired)
  PROVE  \E r : Saves(n, r)
<1> DEFINE state == IF repaired THEN "ready" ELSE "failed"
           tweaks == IF repaired THEN nodes[n].tweaks + 1 ELSE nodes[n].tweaks
           r == [nodes[n] EXCEPT !.state = state, !.repairs = nodes[n].repairs + 1,
                                 !.tweaks = tweaks]
<1>1. pc = "repair" /\ n \in todo /\ nodes[n].state = "repairing" /\ pc' = "collect"
  BY DEF Repair
<1>2. /\ nodes[n] \in NodeRun /\ nodes[n].repairs + 1 \in Nat /\ tweaks \in Nat
      /\ state \in {"ready", "failed"} /\ state \in NodeState
  BY DEF OrderInv, TypeOK, NodeRun, NodeState
<1>3. Finish(n, r)
  BY Zenon DEF Repair
<1>4. /\ r \in NodeRun /\ r.state \in {"ready", "failed"} /\ r.attempt = nodes[n].attempt
      /\ r.repairs = nodes[n].repairs + 1
  <2> HIDE DEF state, tweaks
  <2>1. QED
    BY <1>2 DEF NodeRun
<1> HIDE DEF r
<1>5. Saves(n, r)
  BY <1>1, <1>3, <1>4 DEF Saves, Finishes, Finish, history
<1>6. QED
  BY <1>5

LEMMA BeginRepairSaves ==
  ASSUME OrderInv, NEW n \in Node, BeginRepair(n)
  PROVE  \E r : Saves(n, r)
<1> DEFINE r == [nodes[n] EXCEPT !.state = "repairing"]
<1>1. /\ pc = "collect" /\ n \in todo /\ SaveNode(n, r) /\ pc' = "repair" /\ fut' = fut /\ todo' = todo
      /\ UNCHANGED <<savedRun, crashes, raises>> /\ nodes[n].repairs < MaxRepairs[n]
  BY DEF BeginRepair, MayRepair, history
<1>2. fut[n] # "none" /\ nodes[n].state = "running" /\ nodes[n] \in NodeRun
  BY <1>1 DEF OrderInv, TypeOK, PassIsSound, FutureIsRunning, Outcome
<1>3. /\ r \in NodeRun /\ r.state = "repairing" /\ r.attempt = nodes[n].attempt
      /\ r.repairs = nodes[n].repairs
  BY <1>2 DEF NodeRun, NodeState
<1> HIDE DEF r
<1>4. Saves(n, r)
  BY <1>1, <1>2, <1>3 DEF Saves, BeginsRepair
<1>5. QED
  BY <1>4

LEMMA CancelSaves ==
  ASSUME OrderInv, NEW n \in Node, CancelNode(n)
  PROVE  \E r : Saves(n, r)
<1> DEFINE r == [nodes[n] EXCEPT !.state = "cancelled"]
<1>1. /\ pc = "cancel" /\ n \in todo /\ SaveNode(n, r) /\ pc' = pc /\ fut' = fut /\ todo' = todo \ {n}
      /\ UNCHANGED <<savedRun, crashes, raises>>
  BY DEF CancelNode, history
<1>2. nodes[n].state = "running" /\ nodes[n] \in NodeRun
  BY <1>1 DEF OrderInv, TypeOK, PassIsSound
<1>3. /\ r \in NodeRun /\ r.state = "cancelled" /\ r.attempt = nodes[n].attempt
      /\ r.repairs = nodes[n].repairs
  BY <1>2 DEF NodeRun, NodeState
<1> HIDE DEF r
<1>4. Saves(n, r)
  BY <1>1, <1>2, <1>3 DEF Saves, Cancels
<1>5. QED
  BY <1>4

LEMMA StepIs ==
  ASSUME OrderInv, [Next]_vars
  PROVE  \/ \E n \in Node : \E r : Saves(n, r)
         \/ Loads \/ Resume \/ Schedule \/ Rests
<1>1. CASE \E n \in Node : DriverNode(n)
  <2>1. PICK n \in Node : DriverNode(n)
    BY <1>1
  <2>2. CASE RetryRefused(n)
    BY <2>2 DEF RetryRefused, Loads
  <2>3. CASE ResolveFails(n)
    BY <2>3 DEF ResolveFails, Rests
  <2>4. CASE \E repaired \in BOOLEAN : Repair(n, repaired)
    BY <2>4, RepairSaves
  <2>5. QED
    BY <2>1, <2>2, <2>3, <2>4, ResetSaves, DispatchSaves, CollectSaves, BeginRepairSaves, CancelSaves
       DEF DriverNode
<1>2. CASE Start \/ Retry \/ RetryCommit \/ Settle \/ Leave \/ Crash
  BY <1>2 DEF Start, Retry, RetryCommit, Settle, Leave, Crash, Loads
<1>3. CASE Launch \/ Collect \/ Collected \/ NextTick \/ CancelBegin \/ Pause \/ RequestCancel
  BY <1>3 DEF Launch, Collect, Collected, NextTick, CancelBegin, Pause, RequestCancel, Rests
<1>4. CASE (\E n \in Node : ToolEnds(n)) \/ UNCHANGED vars
  BY <1>4 DEF ToolEnds, vars, Rests
<1>5. QED
  BY <1>1, <1>2, <1>3, <1>4 DEF Next, Driver

----------------------------------------------------------------------------
(* How far the store lags behind, and why a node is blocked *)

LEMMA SavesDo ==
  ASSUME OrderInv, NEW n \in Node, NEW r, Saves(n, r)
  PROVE  /\ nodes'[n] = r /\ \A m \in Node : m # n => nodes'[m] = nodes[m] /\ saved'[m] = saved[m]
         /\ saved'[n].state = r.state /\ saved'[n].attempt = r.attempt
         /\ saved'[n].repairs = r.repairs /\ saved'[n].tweaks = r.tweaks
         /\ saved'[n].outputs = r.outputs /\ saved'[n].resolved = FALSE
         /\ r.state \notin {"blocked", "skipped"}
         /\ nodes[n].state # "succeeded"
<1>1. r \in NodeRun /\ SaveNode(n, r)
  BY DEF Saves
<1>2. /\ nodes'[n] = r /\ saved'[n] = Row(r)
      /\ \A m \in Node : m # n => nodes'[m] = nodes[m] /\ saved'[m] = saved[m]
  BY <1>1, SaveNodeEffect DEF OrderInv, TypeOK
<1>3. /\ Row(r).state = r.state /\ Row(r).attempt = r.attempt /\ Row(r).repairs = r.repairs
      /\ Row(r).tweaks = r.tweaks /\ Row(r).outputs = r.outputs /\ Row(r).resolved = FALSE
  BY <1>1 DEF Row, NodeRun
<1>4. r.state \notin {"blocked", "skipped"} /\ nodes[n].state # "succeeded"
  BY DEF Saves, Resets, Dispatches, Finishes, BeginsRepair, Cancels
<1>5. QED
  BY <1>2, <1>3, <1>4

\* A resume: the rows, with the in-flight ones pending.
LEMMA ResumeDoes ==
  ASSUME OrderInv, Resume
  PROVE  /\ saved' = saved /\ pc' = "launch" /\ pc # "retry"
         /\ \A n \in Node :
              /\ nodes'[n].attempt = saved[n].attempt /\ nodes'[n].repairs = saved[n].repairs
              /\ nodes'[n].tweaks = saved[n].tweaks /\ nodes'[n].outputs = saved[n].outputs
              /\ \/ nodes'[n].state = saved[n].state
                 \/ nodes'[n].state = "pending" /\ saved[n].state \in InFlight
<1>1. \A n \in Node : saved[n] \in NodeRun
  BY DEF OrderInv, TypeOK
<1>2. \A n \in Node :
         nodes'[n] = [saved[n] EXCEPT !.state = IF @ \in InFlight THEN "pending" ELSE @]
  BY DEF Resume
<1>3. saved' = saved /\ pc' = "launch" /\ pc # "retry"
  BY DEF Resume, EngineCall, Driving, Stopped, OrderInv, TypeOK
<1>4. QED
  BY <1>1, <1>2, <1>3 DEF NodeRun

\* A pass of process_blocked: some pending nodes become blocked.
LEMMA ScheduleDoes ==
  ASSUME OrderInv, Schedule
  PROVE  /\ saved' = saved /\ pc' = "dispatch" /\ fut' = fut /\ UNCHANGED <<savedRun, crashes, raises>>
         /\ pc = "tick"
         /\ \A n \in Node :
              /\ nodes'[n].attempt = nodes[n].attempt /\ nodes'[n].repairs = nodes[n].repairs
              /\ nodes'[n].tweaks = nodes[n].tweaks /\ nodes'[n].outputs = nodes[n].outputs
              /\ \/ nodes'[n].state = nodes[n].state
                 \/ /\ nodes[n].state = "pending" /\ nodes'[n].state = "blocked"
                    /\ \E d \in Deps[n] : nodes'[d].state \in Dead
<1>1. PICK B \in SUBSET Node :
         /\ IsBlockedPass(B)
         /\ nodes' = [n \in Node |->
                        IF n \in B THEN [nodes[n] EXCEPT !.state = "blocked"] ELSE nodes[n]]
  BY DEF Schedule
<1>2. saved' = saved /\ pc' = "dispatch" /\ pc = "tick" /\ fut' = fut
      /\ UNCHANGED <<savedRun, crashes, raises>>
  BY DEF Schedule, history
<1>3. \A n \in Node : nodes[n] \in NodeRun /\ Deps[n] \subseteq Node
  BY TemplateIsValid DEF OrderInv, TypeOK
<1>4. \A n \in B : /\ nodes[n].state = "pending"
                   /\ \E d \in Deps[n] : nodes[d].state \in Dead \/ d \in B
  BY <1>1 DEF IsBlockedPass
<1>5. \A n \in Node : n \notin B => nodes'[n] = nodes[n]
  BY <1>1
<1>6. \A n \in B : /\ nodes'[n].attempt = nodes[n].attempt /\ nodes'[n].repairs = nodes[n].repairs
                   /\ nodes'[n].tweaks = nodes[n].tweaks /\ nodes'[n].outputs = nodes[n].outputs
                   /\ nodes'[n].state = "blocked"
  BY <1>1, <1>3 DEF NodeRun
<1>7. \A n \in B : \E d \in Deps[n] : nodes'[d].state \in Dead
  BY <1>3, <1>4, <1>5, <1>6 DEF Dead
<1>8. QED
  BY <1>2, <1>4, <1>5, <1>6, <1>7

LEMMA MemoryStep ==
  ASSUME OrderInv, MemoryInv, [Next]_vars
  PROVE  MemoryInv'
<1>1. ASSUME NEW n \in Node, NEW r, Saves(n, r)
      PROVE  MemoryInv'
  <2>1. /\ nodes'[n] = r /\ \A m \in Node : m # n => nodes'[m] = nodes[m] /\ saved'[m] = saved[m]
        /\ saved'[n].state = r.state /\ saved'[n].attempt = r.attempt
        /\ saved'[n].repairs = r.repairs /\ saved'[n].tweaks = r.tweaks
        /\ saved'[n].outputs = r.outputs /\ saved'[n].resolved = FALSE
        /\ r.state \notin {"blocked", "skipped"} /\ nodes[n].state # "succeeded"
    BY <1>1, SavesDo
  <2>2. ASSUME NEW m \in Node
        PROVE  /\ nodes'[m].attempt = saved'[m].attempt /\ nodes'[m].repairs = saved'[m].repairs
               /\ nodes'[m].tweaks = saved'[m].tweaks /\ nodes'[m].outputs = saved'[m].outputs
               /\ saved'[m].resolved = FALSE /\ saved'[m].state \notin {"blocked", "skipped"}
               /\ nodes'[m].state # saved'[m].state =>
                    nodes'[m].state \in {"pending", "blocked"} /\ saved'[m].state \in Unsaved
    <3>1. CASE m = n
      BY <2>1, <3>1
    <3>2. CASE m # n
      BY <2>1, <3>2 DEF MemoryInv
    <3>3. QED
      BY <3>1, <3>2
  <2>3. QED
    BY <2>2 DEF MemoryInv
<1>2. CASE Loads
  BY <1>2 DEF MemoryInv, Loads
<1>3. CASE Resume
  BY <1>3, ResumeDoes DEF MemoryInv, Unsaved
<1>4. CASE Schedule
  BY <1>4, ScheduleDoes DEF MemoryInv, Unsaved
<1>5. CASE Rests
  BY <1>5 DEF MemoryInv, Rests
<1>6. QED
  BY <1>1, <1>2, <1>3, <1>4, <1>5, StepIs

\* A node keeps its succeeded dependencies.
LEMMA DepsStay ==
  ASSUME OrderInv, NEW n \in Node, NEW r, Saves(n, r), NEW m \in Node, DepsSucceeded(nodes, m)
  PROVE  DepsSucceeded(nodes', m)
<1>1. Deps[m] \subseteq Node
  BY TemplateIsValid
<1>2. nodes[n].state # "succeeded" /\ \A d \in Node : d # n => nodes'[d] = nodes[d]
  BY SavesDo
<1>3. QED
  BY <1>1, <1>2 DEF DepsSucceeded

LEMMA SaveBlock ==
  ASSUME OrderInv, BlockInv, NEW n \in Node, NEW r, Saves(n, r)
  PROVE  BlockInv'
<1>1. r.attempt # 0 => DepsSucceeded(nodes, n)
  <2>1. nodes[n].state \in {"running", "repairing"} => DepsSucceeded(nodes, n)
    BY DEF OrderInv, DependencyOrder, DependencyOrderIn, Launched
  <2>2. QED
    BY <2>1 DEF Saves, Resets, Dispatches, Finishes, BeginsRepair, Cancels
<1> DEFINE Rest == \A m \in Node : m # n => nodes'[m] = nodes[m]
<1>0. nodes'[n] = r /\ Rest /\ r.state \notin {"blocked", "skipped"}
  BY SavesDo
<1>2. ASSUME NEW m \in Node, nodes'[m].attempt # 0
      PROVE  DepsSucceeded(nodes', m)
  <2>1. DepsSucceeded(nodes, m)
    BY <1>0, <1>1, <1>2 DEF BlockInv
  <2>2. QED
    BY <2>1, DepsStay
<1>3. CASE pc = "retry"
  <2>1. \A m \in Node : nodes'[m].state # "blocked"
    BY <1>0, <1>3 DEF BlockInv
  <2>2. QED
    BY <1>2, <2>1 DEF BlockInv, DepsSucceeded
<1>4. CASE pc # "retry"
  <2>1. nodes[n].state \notin Dead /\ pc' # "retry"
    BY <1>4 DEF Saves, Resets, Dispatches, Finishes, BeginsRepair, Cancels, Dead
  <2>2. ASSUME NEW m \in Node, nodes'[m].state = "blocked"
        PROVE  \E d \in Deps[m] : nodes'[d].state \in Dead
    <3>1. PICK d \in Deps[m] : nodes[d].state \in Dead
      BY <1>0, <2>2 DEF BlockInv
    <3>2. d \in Node /\ d # n
      BY <2>1, <3>1, TemplateIsValid
    <3>3. QED
      BY <1>0, <3>1, <3>2
  <2>3. QED
    BY <1>2, <2>1, <2>2 DEF BlockInv, DepsSucceeded
<1>5. QED
  BY <1>3, <1>4

\* What was dispatched has its dependencies in the store, too.
LEMMA RowsHaveDeps ==
  ASSUME OrderInv, MemoryInv, BlockInv
  PROVE  \A n \in Node : saved[n].attempt # 0 => DepsSucceeded(saved, n)
<1>1. \A n \in Node : Deps[n] \subseteq Node
  BY TemplateIsValid
<1>2. QED
  BY <1>1 DEF OrderInv, SameSuccesses, MemoryInv, BlockInv, DepsSucceeded

LEMMA BlockStep ==
  ASSUME OrderInv, MemoryInv, BlockInv, [Next]_vars
  PROVE  BlockInv'
<1>1. ASSUME NEW n \in Node, NEW r, Saves(n, r)
      PROVE  BlockInv'
  BY <1>1, SaveBlock
<1>2. CASE Loads
  <2>1. \A n \in Node : nodes'[n].attempt # 0 => DepsSucceeded(nodes', n)
    BY <1>2, RowsHaveDeps DEF Loads
  <2>2. \A n \in Node : nodes'[n].state # "blocked"
    BY <1>2 DEF Loads, MemoryInv
  <2>3. QED
    BY <2>1, <2>2 DEF BlockInv, DepsSucceeded
<1>3. CASE Resume
  <2>1. \A n \in Node : Deps[n] \subseteq Node
    BY TemplateIsValid
  <2>2. \A n \in Node : saved[n].attempt # 0 => DepsSucceeded(saved, n)
    BY RowsHaveDeps
  <2>3. \A n \in Node : DepsSucceeded(saved, n) => DepsSucceeded(nodes', n)
    BY <1>3, <2>1, ResumeDoes DEF DepsSucceeded, InFlight
  <2>4. \A n \in Node : nodes'[n].attempt = saved[n].attempt /\ nodes'[n].state # "blocked"
    BY <1>3, ResumeDoes DEF MemoryInv
  <2>5. QED
    BY <2>2, <2>3, <2>4 DEF BlockInv, DepsSucceeded
<1>4. CASE Schedule
  <2>1. \A n \in Node : Deps[n] \subseteq Node
    BY TemplateIsValid
  <2>2. \A n \in Node : DepsSucceeded(nodes, n) => DepsSucceeded(nodes', n)
    BY <1>4, <2>1, ScheduleDoes DEF DepsSucceeded
  <2>3. \A n \in Node : nodes[n].state \in Dead => nodes'[n].state \in Dead
    BY <1>4, ScheduleDoes DEF Dead
  <2>4. \A n \in Node : nodes'[n].state = "blocked" => \E d \in Deps[n] : nodes'[d].state \in Dead
    BY <1>4, <2>1, <2>3, ScheduleDoes DEF BlockInv
  <2>5. \A n \in Node : nodes'[n].attempt # 0 => DepsSucceeded(nodes', n)
    BY <1>4, <2>2, ScheduleDoes DEF BlockInv
  <2>6. QED
    BY <1>4, <2>4, <2>5, ScheduleDoes DEF BlockInv, DepsSucceeded
<1>5. CASE Rests
  BY <1>5 DEF BlockInv, Rests, DepsSucceeded
<1>6. QED
  BY <1>1, <1>2, <1>3, <1>4, <1>5, StepIs

LEMMA RunStep ==
  ASSUME OrderInv, RunInv, [Next]_vars
  PROVE  RunInv'
<1>1. CASE \E n \in Node : DriverNode(n)
  <2>1. PICK n \in Node : DriverNode(n)
    BY <1>1
  <2>2. CASE \E r : Saves(n, r)
    BY <2>2 DEF Saves, Resets, Dispatches, Finishes, BeginsRepair, Cancels, RunInv
  <2>3. CASE RetryRefused(n) \/ ResolveFails(n)
    BY <2>3 DEF RetryRefused, ResolveFails, RunInv
  <2>4. QED
    BY <2>1, <2>2, <2>3, ResetSaves, DispatchSaves, CollectSaves, RepairSaves, BeginRepairSaves,
       CancelSaves DEF DriverNode
<1>2. CASE Start \/ Resume \/ Retry \/ RetryCommit \/ Crash \/ Leave \/ Pause \/ Settle
  BY <1>2 DEF Start, Resume, Retry, RetryCommit, Crash, Leave, Pause, Settle, RunInv
<1>3. CASE Launch \/ Schedule \/ Collect \/ Collected \/ NextTick \/ CancelBegin \/ RequestCancel
  BY <1>3 DEF Launch, Schedule, Collect, Collected, NextTick, CancelBegin, RequestCancel, RunInv
<1>4. CASE (\E n \in Node : ToolEnds(n)) \/ UNCHANGED vars
  BY <1>4 DEF ToolEnds, vars, RunInv
<1>5. QED
  BY <1>1, <1>2, <1>3, <1>4 DEF Next, Driver

LEMMA InitStore == Init => StoreInv
<1>1. SUFFICES ASSUME Init PROVE StoreInv
  OBVIOUS
<1>2. OrderInv
  BY <1>1, InitOrder
<1>3. \A n \in Node : nodes[n] = FreshNode /\ saved[n] = FreshNode
  BY <1>1 DEF Init
<1>4. MemoryInv
  BY <1>3 DEF MemoryInv, FreshNode
<1>5. BlockInv /\ RunInv
  BY <1>1, <1>3 DEF Init, BlockInv, RunInv, FreshNode
<1>6. QED
  BY <1>2, <1>4, <1>5 DEF StoreInv

LEMMA StoreStep == StoreInv /\ [Next]_vars => StoreInv'
BY NextOrder, MemoryStep, BlockStep, RunStep DEF StoreInv

\* The inductive invariant of what the rows say: memory and store agree on
\* every field a save writes, a blocked node has its cause, and the run's row
\* tells that it is being driven (save_node_run, process_blocked, run).
THEOREM StoreInvariant == Spec => []StoreInv
<1>1. StoreInv /\ [Next]_vars => StoreInv'
  BY StoreStep
<1>2. QED
  BY InitStore, <1>1, PTL DEF Spec

\* Between two ticks the store lacks nothing but the resets of resume_run and
\* the blockings of process_blocked (SaveNode, Resume, Schedule).
THEOREM StoreNeverLags == Spec => []StoreKeepsUp
<1>1. StoreInv => StoreKeepsUp
  <2>1. SUFFICES ASSUME StoreInv, NEW n \in Node
                 PROVE  /\ nodes[n].state # saved[n].state =>
                             nodes[n].state \in {"pending", "blocked"}
                        /\ Row(nodes[n]) = [saved[n] EXCEPT !.state = nodes[n].state]
    BY DEF StoreKeepsUp
  <2>2. nodes[n] \in NodeRun /\ saved[n] \in NodeRun
    BY <2>1 DEF StoreInv, OrderInv, TypeOK
  <2>3. /\ nodes[n].attempt = saved[n].attempt /\ nodes[n].repairs = saved[n].repairs
        /\ nodes[n].tweaks = saved[n].tweaks /\ nodes[n].outputs = saved[n].outputs
        /\ saved[n].resolved = FALSE
        /\ nodes[n].state # saved[n].state => nodes[n].state \in {"pending", "blocked"}
    BY <2>1 DEF StoreInv, MemoryInv
  <2>4. QED
    BY <2>2, <2>3 DEF Row, NodeRun
<1>2. QED
  BY <1>1, StoreInvariant, PTL

\* A node is blocked because something it depends on is dead, and was never
\* dispatched: no resume, retry or crash leaves a blocked node whose
\* dependencies could still succeed (process_blocked, resume_run, retry).
THEOREM BlockedForAReason == Spec => []BlockedHasCause
<1>1. StoreInv => BlockedHasCause
  <2>1. SUFFICES ASSUME StoreInv, NEW n \in Node, nodes[n].state = "blocked"
                 PROVE  (\E d \in Deps[n] : nodes[d].state \in Dead) /\ nodes[n].attempt = 0
    BY DEF BlockedHasCause
  <2>2. PICK d \in Deps[n] : nodes[d].state \in Dead
    BY <2>1 DEF StoreInv, BlockInv
  <2>3. ~DepsSucceeded(nodes, n)
    BY <2>2 DEF DepsSucceeded, Dead
  <2>4. QED
    BY <2>1, <2>2, <2>3 DEF StoreInv, BlockInv
<1>2. QED
  BY <1>1, StoreInvariant, PTL

----------------------------------------------------------------------------
(* How often a node is dispatched *)

LEMMA Numbers ==
  ASSUME OrderInv, NEW n \in Node
  PROVE  /\ saved[n].attempt \in Nat /\ saved[n].repairs \in Nat
         /\ MaxAttempts[n] \in Nat /\ MaxAttempts[n] > 0 /\ MaxRepairs[n] \in Nat
         /\ crashes \in Nat /\ raises \in Nat
BY TemplateIsValid DEF OrderInv, TypeOK, NodeRun

\* What a save leaves of n keeps its budget.
LEMMA SavedBudget ==
  ASSUME OrderInv, MemoryInv, BudgetInv, NEW n \in Node, NEW r, Saves(n, r)
  PROVE  /\ r.repairs <= MaxRepairs[n]
         /\ r.attempt <= MaxAttempts[n] + r.repairs + crashes + raises
         /\ r.state \in Unsaved /\ fut'[n] = "none" =>
              r.attempt < MaxAttempts[n] + r.repairs + crashes + raises
<1>1. /\ r.attempt \in Nat /\ r.repairs \in Nat /\ MaxAttempts[n] > 0
      /\ saved[n].attempt \in Nat /\ saved[n].repairs \in Nat
      /\ MaxAttempts[n] \in Nat /\ MaxRepairs[n] \in Nat /\ crashes \in Nat /\ raises \in Nat
  BY Numbers DEF Saves, NodeRun
<1>2. /\ saved[n].repairs <= MaxRepairs[n]
      /\ saved[n].attempt <= MaxAttempts[n] + saved[n].repairs + crashes + raises
      /\ saved[n].state \in Unsaved /\ fut[n] = "none" =>
           saved[n].attempt < MaxAttempts[n] + saved[n].repairs + crashes + raises
      /\ nodes[n].attempt = saved[n].attempt /\ nodes[n].repairs = saved[n].repairs
      /\ nodes[n].state # saved[n].state => saved[n].state \in Unsaved
  BY DEF BudgetInv, Room, MemoryInv
<1>3. fut \in [Node -> {"none", "executing"} \cup Outcome]
  BY DEF OrderInv, TypeOK
<1>4. CASE Resets(n, r)
  BY <1>1, <1>4 DEF Resets
<1>5. CASE Dispatches(n, r)
  <2>1. fut[n] = "none" /\ saved[n].state \in Unsaved
    BY <1>2, <1>5 DEF Dispatches, OrderInv, FutureIsRunning, Unsaved, InFlight
  <2>2. fut'[n] # "none"
    BY <1>3, <1>5 DEF Dispatches
  <2>3. QED
    BY <1>1, <1>2, <1>5, <2>1, <2>2 DEF Dispatches
<1>6. CASE Finishes(n, r)
  <2>1. CASE r.repairs = nodes[n].repairs /\ (r.state = "ready" => r.attempt < MaxAttempts[n])
    BY <1>1, <1>2, <1>6, <2>1 DEF Finishes, Unsaved, InFlight
  <2>2. CASE r.repairs = nodes[n].repairs + 1 /\ pc = "repair" /\ nodes[n].state = "repairing"
    <3>1. saved[n].repairs < MaxRepairs[n]
      BY <1>6, <2>2 DEF Finishes, BudgetInv
    <3>2. QED
      BY <1>1, <1>2, <1>6, <2>2, <3>1 DEF Finishes
  <2>3. QED
    BY <1>6, <2>1, <2>2 DEF Finishes
<1>7. CASE BeginsRepair(n, r)
  BY <1>1, <1>2, <1>7 DEF BeginsRepair
<1>8. CASE Cancels(n, r)
  BY <1>1, <1>2, <1>8 DEF Cancels, Unsaved, InFlight
<1>9. QED
  BY <1>4, <1>5, <1>6, <1>7, <1>8 DEF Saves

LEMMA SaveKeepsBudget ==
  ASSUME OrderInv, MemoryInv, BudgetInv, NEW n \in Node, NEW r, Saves(n, r)
  PROVE  BudgetInv'
<1>1. /\ nodes'[n] = r /\ saved'[n].state = r.state /\ saved'[n].attempt = r.attempt
      /\ saved'[n].repairs = r.repairs
      /\ \A m \in Node : m # n => nodes'[m] = nodes[m] /\ saved'[m] = saved[m]
  BY SavesDo
<1>2. /\ r.repairs <= MaxRepairs[n]
      /\ r.attempt <= MaxAttempts[n] + r.repairs + crashes + raises
      /\ r.state \in Unsaved /\ fut'[n] = "none" =>
           r.attempt < MaxAttempts[n] + r.repairs + crashes + raises
  BY SavedBudget
<1>3. /\ crashes' = crashes /\ raises' = raises
      /\ pc' \in {"retry", "dispatch", "collect", "repair", "cancel"}
  BY DEF Saves, Resets, Dispatches, Finishes, BeginsRepair, Cancels
<1>4. \A m \in Node : m # n => fut'[m] = fut[m]
  BY DEF Saves, Resets, Dispatches, Finishes, BeginsRepair, Cancels, OrderInv, TypeOK
<1>5. ASSUME NEW m \in Node
      PROVE  /\ saved'[m].repairs <= MaxRepairs[m]
             /\ saved'[m].attempt <= MaxAttempts[m] + saved'[m].repairs + crashes' + raises'
             /\ saved'[m].state \in Unsaved /\ fut'[m] = "none" =>
                  saved'[m].attempt < MaxAttempts[m] + saved'[m].repairs + crashes' + raises'
  <2>1. CASE m = n
    BY <1>1, <1>2, <1>3, <2>1
  <2>2. CASE m # n
    BY <1>1, <1>3, <1>4, <2>2 DEF BudgetInv, Room
  <2>3. QED
    BY <2>1, <2>2
<1>6. pc' = "repair" =>
        \A m \in todo' : nodes'[m].state = "repairing" => saved'[m].repairs < MaxRepairs[m]
  <2>1. ASSUME pc' = "repair", NEW m \in todo', nodes'[m].state = "repairing"
        PROVE  saved'[m].repairs < MaxRepairs[m]
    <3>1. BeginsRepair(n, r)
      BY <2>1 DEF Saves, Resets, Dispatches, Finishes, Cancels
    <3>2. m \in Node /\ fut[m] \in Outcome
      BY <2>1, <3>1 DEF BeginsRepair, OrderInv, TypeOK, PassIsSound
    <3>3. nodes[m].state = "running"
      BY <3>1, <3>2 DEF BeginsRepair, OrderInv, FutureIsRunning, Outcome
    <3>4. m = n
      BY <1>1, <2>1, <3>2, <3>3
    <3>5. QED
      BY <1>1, <3>1, <3>4 DEF BeginsRepair
  <2>2. QED
    BY <2>1
<1>7. pc' = "cancel" => \A m \in Node : fut'[m] # "none" => m \in todo' \/ saved'[m].state = "cancelled"
  <2>1. ASSUME pc' = "cancel", NEW m \in Node, fut'[m] # "none"
        PROVE  m \in todo' \/ saved'[m].state = "cancelled"
    <3>1. Cancels(n, r)
      BY <2>1 DEF Saves, Resets, Dispatches, Finishes, BeginsRepair
    <3>2. m \in todo \/ saved[m].state = "cancelled"
      BY <2>1, <3>1 DEF Cancels, BudgetInv
    <3>3. QED
      BY <1>1, <3>1, <3>2 DEF Cancels
  <2>2. QED
    BY <2>1
<1>8. \A m \in Node : saved'[m].state \in Unsaved /\ (fut'[m] = "none" \/ pc' = "raising") => Room(m)'
  BY <1>3, <1>5 DEF Room
<1>9. QED
  BY <1>3, <1>5, <1>6, <1>7, <1>8 DEF BudgetInv

\* Steps that keep the rows and only cut drives short, if anything.
LEMMA RowsKeepBudget ==
  ASSUME OrderInv, BudgetInv, saved' = saved,
         crashes' \in Nat, raises' \in Nat, crashes' >= crashes, raises' >= raises,
         pc' \notin {"repair", "cancel", "pausing"},
         \A n \in Node : \/ Room(n)
                         \/ saved[n].state \notin Unsaved
                         \/ crashes' + raises' > crashes + raises
                         \/ fut'[n] # "none" /\ pc' # "raising"
  PROVE  BudgetInv'
<1>1. ASSUME NEW n \in Node
      PROVE  /\ saved'[n].repairs <= MaxRepairs[n]
             /\ saved'[n].attempt <= MaxAttempts[n] + saved'[n].repairs + crashes' + raises'
             /\ saved'[n].state \in Unsaved /\ (fut'[n] = "none" \/ pc' = "raising") =>
                  saved'[n].attempt < MaxAttempts[n] + saved'[n].repairs + crashes' + raises'
  BY Numbers DEF BudgetInv, Room
<1>2. QED
  BY <1>1 DEF BudgetInv, Room

LEMMA DriveBudget ==
  ASSUME OrderInv, BudgetInv,
         \/ Start \/ Resume \/ Retry \/ RetryCommit \/ Launch \/ Schedule \/ Collect \/ Collected
         \/ Settle \/ NextTick \/ Leave \/ Crash \/ \E n \in Node : RetryRefused(n) \/ ResolveFails(n)
  PROVE  BudgetInv'
<1>1. crashes \in Nat /\ raises \in Nat /\ saved' = saved
  BY DEF OrderInv, TypeOK, Start, Resume, Retry, RetryCommit, Launch, Schedule, Collect, Collected,
         Settle, NextTick, Leave, Crash, RetryRefused, ResolveFails
<1>2. \A n \in Node : saved[n].state \in Unsaved /\ (fut[n] = "none" \/ pc = "raising") => Room(n)
  BY DEF BudgetInv
<1>3. CASE Start \/ Resume \/ Retry
  <2>1. /\ UNCHANGED <<fut, crashes, raises>> /\ pc' \in {"launch", "retry"}
    BY <1>3 DEF Start, Resume, Retry, EngineCall
  <2>2. QED
    BY <1>1, <1>2, <2>1, RowsKeepBudget
<1>4. CASE RetryCommit \/ Launch \/ Schedule \/ Collect \/ Collected \/ NextTick
           \/ \E n \in Node : RetryRefused(n)
  <2>1. /\ UNCHANGED <<fut, crashes, raises>>
        /\ pc' \in {"launch", "tick", "dispatch", "collect", "settle", "raised"}
    BY <1>4 DEF RetryCommit, Launch, Schedule, Collect, Collected, NextTick, RetryRefused, history
  <2>2. QED
    BY <1>1, <1>2, <2>1, RowsKeepBudget
<1>5. CASE Settle
  BY <1>1, <1>2, <1>5, RowsKeepBudget DEF Settle, history
<1>6. CASE Leave
  <2>1. /\ pc \in {"pausing", "raising"} /\ UNCHANGED <<crashes, raises>>
        /\ pc' \in {"idle", "raised"}
    BY <1>6 DEF Leave, history
  <2>2. \A n \in Node : Room(n) \/ saved[n].state \notin Unsaved
    BY <1>2, <2>1 DEF BudgetInv, Unsaved, InFlight
  <2>3. QED
    BY <1>1, <2>1, <2>2, RowsKeepBudget
<1>7. CASE Crash
  BY <1>1, <1>7, RowsKeepBudget DEF Crash
<1>8. CASE \E n \in Node : ResolveFails(n)
  BY <1>1, <1>8, RowsKeepBudget DEF ResolveFails
<1>9. QED
  BY <1>3, <1>4, <1>5, <1>6, <1>7, <1>8

LEMMA CancelBudget ==
  ASSUME OrderInv, BudgetInv,
         \/ CancelBegin \/ Pause \/ RequestCancel \/ (\E n \in Node : ToolEnds(n)) \/ UNCHANGED vars
  PROVE  BudgetInv'
<1>1. UNCHANGED <<nodes, saved, crashes, raises>>
  BY DEF CancelBegin, Pause, RequestCancel, ToolEnds, vars, history
<1>2. \A n \in Node : fut'[n] = "none" <=> fut[n] = "none"
  BY DEF CancelBegin, Pause, RequestCancel, ToolEnds, vars, OrderInv, TypeOK, Outcome
<1>3. \A n \in Node : Room(n) => Room(n)'
  BY <1>1 DEF Room
<1>4. CASE CancelBegin
  <2>1. \A n \in Node : fut[n] # "none" => n \in todo'
    BY <1>4 DEF CancelBegin, Futures, OrderInv, FutureIsRunning
  <2>2. pc' = "cancel"
    BY <1>4 DEF CancelBegin
  <2>3. QED
    BY <1>1, <1>2, <1>3, <2>1, <2>2 DEF BudgetInv
<1>5. CASE Pause
  <2>1. pc = "cancel" /\ todo = {} /\ pc' = "pausing"
    BY <1>5 DEF Pause
  <2>2. QED
    BY <1>1, <1>2, <1>3, <2>1 DEF BudgetInv
<1>6. CASE RequestCancel \/ (\E n \in Node : ToolEnds(n)) \/ UNCHANGED vars
  <2>1. pc' = pc /\ todo' = todo
    BY <1>6 DEF RequestCancel, ToolEnds, vars
  <2>2. QED
    BY <1>1, <1>2, <1>3, <2>1 DEF BudgetInv
<1>7. QED
  BY <1>4, <1>5, <1>6

LEMMA BudgetStep ==
  ASSUME StoreInv, BudgetInv, [Next]_vars
  PROVE  BudgetInv'
<1>1. OrderInv /\ MemoryInv
  BY DEF StoreInv
<1>2. CASE \E n \in Node : DriverNode(n)
  <2>1. PICK n \in Node : DriverNode(n)
    BY <1>2
  <2>2. CASE \E r : Saves(n, r)
    BY <1>1, <2>2, SaveKeepsBudget
  <2>3. CASE RetryRefused(n) \/ ResolveFails(n)
    BY <1>1, <2>3, DriveBudget
  <2>4. QED
    BY <1>1, <2>1, <2>2, <2>3, ResetSaves, DispatchSaves, CollectSaves, RepairSaves, BeginRepairSaves,
       CancelSaves DEF DriverNode
<1>3. QED
  BY <1>1, <1>2, DriveBudget, CancelBudget DEF Next, Driver

LEMMA InitBudget ==
  ASSUME Init
  PROVE  BudgetInv
<1>1. ASSUME NEW n \in Node
      PROVE  saved[n].attempt = 0 /\ saved[n].repairs = 0 /\ MaxAttempts[n] \in Nat
             /\ MaxAttempts[n] > 0 /\ MaxRepairs[n] \in Nat
  BY TemplateIsValid DEF Init, FreshNode
<1>2. pc = "idle" /\ crashes = 0 /\ raises = 0
  BY DEF Init
<1>3. QED
  BY <1>1, <1>2 DEF BudgetInv, Room

\* No node is dispatched more often than its limits allow: each drive that a
\* crash or an exception cut short, and each repair, pays for one dispatch
\* more (_prepare_dispatch, _handle_failure, _cancel, resume_run).
THEOREM AttemptsAreBounded == Spec => []AttemptBudget
<1>1. Init => StoreInv /\ BudgetInv
  BY InitStore, InitBudget
<1>2. (StoreInv /\ BudgetInv) /\ [Next]_vars => (StoreInv /\ BudgetInv)'
  BY StoreStep, BudgetStep
<1>3. StoreInv /\ BudgetInv => AttemptBudget
  BY DEF StoreInv, MemoryInv, BudgetInv, AttemptBudget
<1>4. QED
  BY <1>1, <1>2, <1>3, PTL DEF Spec

----------------------------------------------------------------------------
(* The rows implement RunLifecycle *)

RowPhase == [n \in Node |-> Phase(saved[n].state)]
RowVerdict == IF savedRun \in {"created", "validated", "running"} THEN "open" ELSE savedRun

LEMMA PhaseOf ==
  ASSUME NEW s \in NodeState
  PROVE  /\ Phase(s) = "active" <=> s \in {"running", "repairing"}
         /\ Phase(s) = "done" <=> s = "succeeded"
         /\ Phase(s) = "dead" <=> s \in {"failed", "cancelled"}
         /\ Phase(s) = "waiting" <=> s \in {"pending", "ready", "blocked", "skipped"}
BY DEF Phase, NodeState

\* A save moves the phase of one node.
LEMMA SavedPhase ==
  ASSUME OrderInv, NEW n \in Node, NEW r, Saves(n, r)
  PROVE  RowPhase' = [RowPhase EXCEPT ![n] = Phase(r.state)] /\ RowVerdict' = RowVerdict
<1>1. saved'[n].state = r.state /\ \A m \in Node : m # n => saved'[m] = saved[m]
  BY SavesDo
<1>2. savedRun' = savedRun
  BY DEF Saves
<1>3. ASSUME NEW m \in Node
      PROVE  Phase(saved'[m].state) = IF m = n THEN Phase(r.state) ELSE Phase(saved[m].state)
  BY <1>1
<1>4. QED
  BY <1>2, <1>3 DEF RowPhase, RowVerdict

\* In memory and in the store alike.
LEMMA DoneDeps ==
  ASSUME OrderInv, NEW n \in Node
  PROVE  /\ DepsSucceeded(nodes, n) <=> DepsSucceeded(saved, n)
         /\ DepsSucceeded(saved, n) <=> \A d \in Deps[n] : RowPhase[d] = "done"
<1>1. Deps[n] \subseteq Node
  BY TemplateIsValid
<1>2. \A d \in Node : saved[d].state \in NodeState /\ RowPhase[d] = Phase(saved[d].state)
  BY DEF OrderInv, TypeOK, NodeRun, RowPhase
<1>3. \A d \in Node : RowPhase[d] = "done" <=> saved[d].state = "succeeded"
  BY <1>2, PhaseOf
<1>4. QED
  BY <1>1, <1>3 DEF DepsSucceeded, OrderInv, SameSuccesses

LEMMA SaveRefines ==
  ASSUME StoreInv, NEW n \in Node, NEW r, Saves(n, r)
  PROVE  Lifecycle!Next \/ UNCHANGED <<RowPhase, RowVerdict>>
<1>1. OrderInv /\ MemoryInv /\ BlockInv /\ RunInv
  BY DEF StoreInv
<1>2. RowPhase' = [RowPhase EXCEPT ![n] = Phase(r.state)] /\ RowVerdict' = RowVerdict
  BY <1>1, SavedPhase
<1>3. /\ saved[n].state \in NodeState /\ r.state \in NodeState
      /\ RowPhase[n] = Phase(saved[n].state)
      /\ saved[n].state \notin {"blocked", "skipped"}
      /\ nodes[n].state # saved[n].state =>
           nodes[n].state \in {"pending", "blocked"} /\ saved[n].state \in Unsaved
  BY <1>1 DEF OrderInv, TypeOK, NodeRun, RowPhase, MemoryInv, Saves
<1>4. pc # "retry" => RowVerdict = "open"
  BY <1>1 DEF Saves, Resets, Dispatches, Finishes, BeginsRepair, Cancels, RunInv, RowVerdict
<1>5. CASE Resets(n, r)
  <2>1. saved[n].state \in {"failed", "cancelled"} /\ r.state = "pending"
    BY <1>1, <1>3, <1>5 DEF Resets, BlockInv
  <2>2. RowPhase[n] = "dead" /\ Phase(r.state) = "waiting"
    BY <1>3, <2>1, PhaseOf
  <2>3. Lifecycle!Revive(n)
    BY <1>2, <2>2 DEF Lifecycle!Revive, RowPhase, RowVerdict
  <2>4. QED
    BY <2>3 DEF Lifecycle!Next
<1>6. CASE Dispatches(n, r)
  <2>1. saved[n].state \in {"pending", "ready", "running", "repairing"} /\ r.state = "running"
    BY <1>3, <1>6 DEF Dispatches, Unsaved, InFlight
  <2>2. Phase(r.state) = "active" /\ RowPhase[n] \in {"waiting", "active"}
    BY <1>3, <2>1, PhaseOf
  <2>3. CASE RowPhase[n] = "active"
    <3>1. RowPhase' = RowPhase
      BY <1>2, <2>2, <2>3 DEF RowPhase
    <3>2. QED
      BY <1>2, <3>1
  <2>4. CASE RowPhase[n] = "waiting"
    <3>1. \A d \in Deps[n] : RowPhase[d] = "done"
      BY <1>1, <1>6, DoneDeps DEF Dispatches
    <3>2. RowVerdict = "open"
      BY <1>4, <1>6 DEF Dispatches
    <3>3. Lifecycle!Activate(n)
      BY <1>2, <2>2, <2>4, <3>1, <3>2 DEF Lifecycle!Activate, Lifecycle!DepsDone, RowPhase, RowVerdict
    <3>4. QED
      BY <3>3 DEF Lifecycle!Next
  <2>5. QED
    BY <2>2, <2>3, <2>4
<1>7. CASE Finishes(n, r) \/ Cancels(n, r)
  <2>1. /\ saved[n].state \in {"running", "repairing"}
        /\ r.state \in {"succeeded", "failed", "ready", "cancelled"} /\ pc # "retry"
    BY <1>3, <1>7 DEF Finishes, Cancels
  <2>2. RowPhase[n] = "active" /\ Phase(r.state) \in {"done", "dead", "waiting"}
    BY <1>3, <2>1, PhaseOf
  <2>3. Lifecycle!Retire(n)
    BY <1>2, <1>4, <2>1, <2>2 DEF Lifecycle!Retire, RowPhase, RowVerdict
  <2>4. QED
    BY <2>3 DEF Lifecycle!Next
<1>8. CASE BeginsRepair(n, r)
  <2>1. saved[n].state = "running" /\ r.state = "repairing"
    BY <1>3, <1>8 DEF BeginsRepair
  <2>2. RowPhase[n] = "active" /\ Phase(r.state) = "active"
    BY <1>3, <2>1, PhaseOf
  <2>3. RowPhase' = RowPhase
    BY <1>2, <2>2 DEF RowPhase
  <2>4. QED
    BY <1>2, <2>3
<1>9. QED
  BY <1>5, <1>6, <1>7, <1>8 DEF Saves

\* What the driver sees at the end holds in the rows: nothing is active, and
\* what waits has a dependency that will not be done.
LEMMA EndOfRows ==
  ASSUME StoreInv, AtEnd, NEW n \in Node
  PROVE  /\ RowPhase[n] # "active"
         /\ RowPhase[n] = "waiting" => \E d \in Deps[n] : RowPhase[d] # "done"
         /\ RowPhase[n] = "done" <=> nodes[n].state = "succeeded"
<1>1. OrderInv /\ MemoryInv /\ BlockInv
  BY DEF StoreInv
<1>2. /\ saved[n].state \in NodeState /\ RowPhase[n] = Phase(saved[n].state)
      /\ nodes[n].state \in TerminalNodeStates
  BY <1>1 DEF OrderInv, TypeOK, NodeRun, RowPhase, AtEnd, AllTerminal
<1>3. CASE nodes[n].state = "blocked"
  <2>1. ~DepsSucceeded(nodes, n)
    BY <1>1, <1>3 DEF BlockInv, DepsSucceeded, Dead
  <2>2. ~DepsSucceeded(saved, n) /\ \E d \in Deps[n] : RowPhase[d] # "done"
    BY <1>1, <2>1, DoneDeps
  <2>3. saved[n].state \notin Launched
    BY <1>1, <2>2 DEF OrderInv, DependencyOrder, DependencyOrderIn
  <2>4. QED
    BY <1>2, <1>3, <2>2, <2>3, PhaseOf DEF Launched
<1>4. CASE nodes[n].state # "blocked"
  <2>1. saved[n].state = nodes[n].state /\ saved[n].state \in {"succeeded", "failed", "cancelled"}
    BY <1>1, <1>2, <1>4 DEF MemoryInv, TerminalNodeStates
  <2>2. QED
    BY <1>2, <2>1, PhaseOf
<1>5. QED
  BY <1>3, <1>4

LEMMA SettleCloses ==
  ASSUME StoreInv, Settle
  PROVE  Lifecycle!Close
<1> DEFINE states == {nodes[n].state : n \in Node}
           done == {n \in Node : RowPhase[n] = "done"}
<1>1. AtEnd /\ RowVerdict = "open" /\ RowPhase' = RowPhase
  BY DEF Settle, StoreInv, RunInv, RowVerdict, RowPhase
<1>2. \A n \in Node : RowPhase[n] = "done" <=> nodes[n].state = "succeeded"
  BY <1>1, EndOfRows
<1>3. savedRun' = DetermineRunStatus(states)
  BY DEF Settle
<1>4. DetermineRunStatus(states) \in IF done = {} THEN {"failed", "cancelled"}
                                     ELSE IF done = Node THEN {"succeeded"}
                                     ELSE {"partially_succeeded"}
  <2>1. CASE done = {}
    <3>1. "succeeded" \notin states
      BY <1>2, <2>1
    <3>2. QED
      BY <2>1, <3>1 DEF DetermineRunStatus
  <2>2. CASE done # {} /\ done = Node
    <3>1. states = {"succeeded"}
      BY <1>2, <2>2
    <3>2. QED
      BY <2>2, <3>1 DEF DetermineRunStatus
  <2>3. CASE done # {} /\ done # Node
    <3>1. "succeeded" \in states /\ states # {"succeeded"} /\ states # {}
      BY <1>2, <2>3
    <3>2. DetermineRunStatus(states) = "partially_succeeded"
      BY <3>1 DEF DetermineRunStatus
    <3>3. QED
      BY <2>3, <3>2
  <2>4. QED
    BY <2>1, <2>2, <2>3
<1>5. RowVerdict' = savedRun'
  <2>1. savedRun' \notin {"created", "validated", "running"}
    BY <1>3 DEF DetermineRunStatus
  <2>2. QED
    BY <2>1 DEF RowVerdict
<1> HIDE DEF states
<1>6. \A n \in Node : /\ RowPhase[n] # "active"
                      /\ RowPhase[n] = "waiting" => ~\A d \in Deps[n] : RowPhase[d] = "done"
  BY <1>1, EndOfRows
<1>7. QED
  BY <1>1, <1>3, <1>4, <1>5, <1>6 DEF Lifecycle!Close, Lifecycle!DepsDone, RowPhase, RowVerdict

LEMMA StepRefines ==
  ASSUME StoreInv, [Next]_vars
  PROVE  Lifecycle!Next \/ UNCHANGED <<RowPhase, RowVerdict>>
<1>1. OrderInv /\ RunInv
  BY DEF StoreInv
<1>2. CASE \E n \in Node : \E r : Saves(n, r)
  BY <1>2, SaveRefines
<1>3. CASE Settle
  BY <1>3, SettleCloses DEF Lifecycle!Next
<1>4. CASE Pause
  <2>1. RowVerdict = "open" /\ RowVerdict' = "paused" /\ RowPhase' = RowPhase
    BY <1>1, <1>4 DEF Pause, RunInv, RowVerdict, RowPhase
  <2>2. QED
    BY <2>1 DEF Lifecycle!Next, Lifecycle!Pause, RowVerdict, RowPhase
<1>5. CASE Resume \/ RetryCommit \/ Launch
  <2>1. RowVerdict' = "open" /\ RowPhase' = RowPhase
    BY <1>5 DEF Resume, RetryCommit, Launch, RowVerdict, RowPhase
  <2>2. CASE RowVerdict = "open"
    BY <2>1, <2>2
  <2>3. CASE RowVerdict # "open"
    BY <2>1, <2>3 DEF Lifecycle!Next, Lifecycle!Reopen, RowVerdict, RowPhase
  <2>4. QED
    BY <2>2, <2>3
<1>6. CASE saved' = saved /\ savedRun' = savedRun
  BY <1>6 DEF RowPhase, RowVerdict
<1>7. CASE \E n \in Node : DriverNode(n)
  <2>1. PICK n \in Node : DriverNode(n)
    BY <1>7
  <2>2. CASE RetryRefused(n) \/ ResolveFails(n)
    BY <1>6, <2>2 DEF RetryRefused, ResolveFails
  <2>3. QED
    BY <1>1, <1>2, <2>1, <2>2, ResetSaves, DispatchSaves, CollectSaves, RepairSaves,
       BeginRepairSaves, CancelSaves DEF DriverNode
<1>8. CASE Start \/ Retry \/ Leave \/ Crash
  BY <1>6, <1>8 DEF Start, Retry, Leave, Crash
<1>9. CASE Schedule \/ Collect \/ Collected \/ NextTick \/ CancelBegin \/ RequestCancel
  BY <1>6, <1>9 DEF Schedule, Collect, Collected, NextTick, CancelBegin, RequestCancel
<1>10. CASE (\E n \in Node : ToolEnds(n)) \/ UNCHANGED vars
  BY <1>6, <1>10 DEF ToolEnds, vars
<1>11. QED
  BY <1>3, <1>4, <1>5, <1>7, <1>8, <1>9, <1>10 DEF Next, Driver

\* Whoever reads the rows sees a run that keeps the promises of RunLifecycle:
\* every save of the store is one of its steps or shows nothing new, whatever
\* is cancelled, repaired, resumed, retried or cut short.
THEOREM RowsImplementLifecycle == Spec => LifecycleSpec
<1>1. Init => Lifecycle!Init
  <2>1. SUFFICES ASSUME Init PROVE Lifecycle!Init
    OBVIOUS
  <2>2. \A n \in Node : Phase(saved[n].state) = "waiting"
    BY <2>1, PhaseOf DEF Init, FreshNode, NodeState
  <2>3. savedRun = "created"
    BY <2>1 DEF Init
  <2>4. QED
    BY <2>2, <2>3 DEF Lifecycle!Init
<1>2. StoreInv /\ [Next]_vars => [Lifecycle!Next]_(Lifecycle!lifecycle)
  BY StepRefines DEF Lifecycle!lifecycle, RowPhase, RowVerdict
<1>3. QED
  BY <1>1, <1>2, StoreInvariant, PTL DEF Spec, LifecycleSpec, Lifecycle!Spec

----------------------------------------------------------------------------
(* The stop chain: GraphRuntime and LocalExecutor side by side *)

ExecProofs == INSTANCE LocalExecutorProofs WITH
  Thread <- Node, Canceller <- {WebThread, HookThread}, Forks <- FALSE

LEMMA ExecutorAssumptions ==
  ExecProofs!ThreadsAssumption /\ ExecProofs!LaunchesAssumption
BY SweepersAssumption DEF ExecProofs!ThreadsAssumption, ExecProofs!LaunchesAssumption

\* Each step of the chain is one of the executor, or none of its business.
LEMMA StepOfExecutor == [StopNext]_stopChain => [Exec!Next]_Exec!executor
<1>1. SUFFICES ASSUME [StopNext]_stopChain PROVE Exec!Next \/ UNCHANGED executor
  BY DEF executor, Exec!executor
<1>2. CASE EngineCalled \/ DriverStep \/ HookReturns \/ StopPressed \/ WebReturns
           \/ UNCHANGED stopChain
  BY <1>2 DEF EngineCalled, DriverStep, HookReturns, StopPressed, WebReturns, stopChain
<1>3. CASE HookSweeps \/ WebSweeps
  BY <1>3, Zenon DEF HookSweeps, WebSweeps, Exec!Next
<1>4. ASSUME NEW n \in Node, ToolCalls(n) \/ ToolGivesUp(n) \/ ToolReturns(n)
      PROVE  Exec!Next \/ UNCHANGED executor
  BY <1>4, Zenon DEF ToolCalls, ToolGivesUp, ToolReturns, Exec!Next
<1>5. CASE Executing
  BY <1>5, Zenon DEF Executing, Exec!Next
<1>6. QED
  BY <1>1, <1>2, <1>3, <1>4, <1>5 DEF StopNext, Chain

\* The programs that the tools of a run start, wait for and kill behave as
\* LocalExecutor says, whose cancellers are the handler of the stop button
\* and the scheduler's on_cancel.
THEOREM ChainRunsExecutor == StopSpec => Exec!Spec
<1>1. StopInit => Exec!Init
  BY DEF StopInit
<1>2. QED
  BY <1>1, StepOfExecutor, PTL DEF StopSpec, Exec!Spec

\* One module, instantiated by StopChain and, with its theorems, here.
LEMMA SameExecutor ==
  /\ Exec!Init => ExecProofs!Init
  /\ [Exec!Next]_Exec!executor => [ExecProofs!Next]_ExecProofs!executor
  /\ ExecProofs!SweepInv => Exec!TypeOK /\ Exec!NothingLeftBehind
<1>1. Exec!Init => ExecProofs!Init
  BY DEF Exec!Init, ExecProofs!Init
<1>2. Exec!Next = ExecProofs!Next
  BY DEF Exec!Next, Exec!Launch, Exec!LaunchFails, Exec!Register, Exec!Outcome,
         Exec!Return, Exec!Communicated, Exec!Expire, Exec!Reaped,
         Exec!NextTarget, Exec!CancelAll, Exec!Target, Exec!Dead, Exec!Send,
         Exec!SendTerm, Exec!SendKill, Exec!Terminated, Exec!Exit,
         Exec!ChildExits, Exec!InCall, Exec!Terminate, Exec!process,
         Exec!workers, Exec!sweep, Exec!Ended, Exec!Gone,
         ExecProofs!Next, ExecProofs!Launch, ExecProofs!LaunchFails,
         ExecProofs!Register, ExecProofs!Outcome, ExecProofs!Return,
         ExecProofs!Communicated, ExecProofs!Expire, ExecProofs!Reaped,
         ExecProofs!NextTarget, ExecProofs!CancelAll, ExecProofs!Target,
         ExecProofs!Dead, ExecProofs!Send, ExecProofs!SendTerm,
         ExecProofs!SendKill, ExecProofs!Terminated, ExecProofs!Exit,
         ExecProofs!ChildExits, ExecProofs!InCall, ExecProofs!Terminate,
         ExecProofs!process, ExecProofs!workers, ExecProofs!sweep,
         ExecProofs!Ended, ExecProofs!Gone
<1>3. UNCHANGED Exec!executor => UNCHANGED ExecProofs!executor
  BY DEF Exec!executor, ExecProofs!executor
<1>4. ExecProofs!SweepInv => Exec!TypeOK /\ Exec!NothingLeftBehind
  BY DEF ExecProofs!SweepInv, ExecProofs!TypeOK, Exec!TypeOK, ExecProofs!NothingLeftBehind,
         Exec!NothingLeftBehind, ExecProofs!Ended, Exec!Ended, ExecProofs!Gone, Exec!Gone
<1>5. QED
  BY <1>1, <1>2, <1>3, <1>4

LEMMA ExecutorInChain == StopSpec => [](Exec!TypeOK /\ Exec!NothingLeftBehind)
<1>1. ExecProofs!Spec => []ExecProofs!SweepInv
  BY ExecutorAssumptions, ExecProofs!SweepInvariant, PTL
<1>2. Exec!Spec => ExecProofs!Spec
  <2>1. Exec!Init => ExecProofs!Init
    BY SameExecutor
  <2>2. [Exec!Next]_Exec!executor => [ExecProofs!Next]_ExecProofs!executor
    BY SameExecutor
  <2>3. QED
    BY <2>1, <2>2, PTL DEF Exec!Spec, ExecProofs!Spec
<1>3. ExecProofs!SweepInv => Exec!TypeOK /\ Exec!NothingLeftBehind
  BY SameExecutor
<1>4. QED
  BY <1>1, <1>2, <1>3, ChainRunsExecutor, PTL

\* While the driver works, waits or calls on the engine, no tool ends.
LEMMA DriverKeepsTools ==
  ASSUME OrderInv, Start \/ Resume \/ Retry \/ Driver \/ RequestCancel,
         NEW n \in Node, fut[n] = "executing"
  PROVE  fut'[n] = "executing"
<1>1. TypeOK /\ PassIsSound
  BY DEF OrderInv
<1>2. CASE Start \/ Resume \/ Retry \/ RequestCancel
  BY <1>2 DEF EngineCall, Start, Resume, Retry, RequestCancel
<1>3. CASE RetryCommit \/ Launch \/ Schedule \/ Collect \/ Collected \/ Settle
           \/ NextTick \/ CancelBegin \/ Pause \/ Leave
  BY <1>3 DEF RetryCommit, Launch, Schedule, Collect, Collected, Settle, NextTick,
              CancelBegin, Pause, Leave
<1>4. ASSUME NEW m \in Node, DriverNode(m)
      PROVE  fut'[n] = "executing"
  <2>1. CASE RetryReset(m) \/ RetryRefused(m) \/ ResolveFails(m) \/ BeginRepair(m)
             \/ CancelNode(m)
    BY <2>1 DEF RetryReset, RetryRefused, ResolveFails, BeginRepair, CancelNode
  <2>2. CASE Dispatch(m)
    BY <1>1, <2>2 DEF Dispatch, TypeOK
  <2>3. CASE FinishSucceeded(m) \/ FinishFailed(m) \/ \E repaired \in BOOLEAN : Repair(m, repaired)
    <3>1. m \in todo /\ pc \in {"collect", "repair"} /\ fut' = [fut EXCEPT ![m] = "none"]
      BY <2>3 DEF FinishSucceeded, FinishFailed, Repair, Finish
    <3>2. m # n
      BY <1>1, <3>1 DEF PassIsSound, Outcome
    <3>3. QED
      BY <1>1, <3>1, <3>2 DEF TypeOK
  <2>4. QED
    BY <1>4, <2>1, <2>2, <2>3 DEF DriverNode
<1>5. QED
  BY <1>2, <1>3, <1>4 DEF Driver

\* A tool's steps are, to the scheduler, nothing or the end of a tool.
LEMMA ToolStep ==
  ASSUME OrderInv, CallsInTools, Exec!TypeOK, NEW t \in Node,
         ToolCalls(t) \/ ToolGivesUp(t) \/ ToolReturns(t)
  PROVE  [Next]_vars /\ CallsInTools'
<1>1. CASE ToolCalls(t)
  <2>1. /\ UNCHANGED vars /\ fut[t] = "executing" /\ called' = called \cup {t}
        /\ \A n \in Node : n # t => at'[n] = at[n]
    BY <1>1 DEF ToolCalls, Exec!Launch, Exec!LaunchFails, Exec!TypeOK, vars
  <2>2. QED
    BY <2>1 DEF CallsInTools, vars
<1>2. CASE ToolGivesUp(t)
  <2>1. ToolEnds(t)
    BY <1>2 DEF ToolGivesUp, ToolEnds, Outcome
  <2>2. QED
    BY <1>2, <2>1 DEF ToolGivesUp, CallsInTools, Next, executor, OrderInv, TypeOK
<1>3. CASE ToolReturns(t)
  <2>1. fut[t] = "executing"
    BY <1>3 DEF ToolReturns, CallsInTools
  <2>2. ToolEnds(t)
    BY <1>3, <2>1 DEF ToolReturns, ToolEnds, Outcome
  <2>3. QED
    BY <1>3, <2>2 DEF ToolReturns, CallsInTools, Next, executor, OrderInv, TypeOK
<1>4. QED
  BY <1>1, <1>2, <1>3

LEMMA ChainStep ==
  OrderInv /\ CallsInTools /\ Exec!TypeOK /\ [StopNext]_stopChain => [Next]_vars /\ CallsInTools'
<1>1. SUFFICES ASSUME OrderInv, CallsInTools, Exec!TypeOK, [StopNext]_stopChain
               PROVE  [Next]_vars /\ CallsInTools'
  OBVIOUS
<1>2. CASE EngineCalled \/ DriverStep \/ StopPressed
  <2>1. Start \/ Resume \/ Retry \/ Driver \/ RequestCancel
    BY <1>2 DEF EngineCalled, DriverStep, StopPressed
  <2>2. UNCHANGED <<at, called>>
    BY <1>2 DEF EngineCalled, DriverStep, StopPressed, executor
  <2>3. \A n \in Node : fut[n] = "executing" => fut'[n] = "executing"
    BY <1>1, <2>1, DriverKeepsTools
  <2>4. QED
    BY <1>1, <2>1, <2>2, <2>3 DEF CallsInTools, Next
<1>3. CASE HookSweeps \/ WebSweeps
  BY <1>1, <1>3 DEF HookSweeps, WebSweeps, Exec!CancelAll, Exec!workers, CallsInTools, vars
<1>4. CASE HookReturns \/ WebReturns \/ UNCHANGED stopChain
  BY <1>1, <1>4 DEF HookReturns, WebReturns, executor, stopChain, CallsInTools, vars
<1>5. ASSUME NEW n \in Node, ToolCalls(n) \/ ToolGivesUp(n) \/ ToolReturns(n)
      PROVE  [Next]_vars /\ CallsInTools'
  BY <1>1, <1>5, ToolStep
<1>6. CASE Executing
  <2>1. UNCHANGED <<vars, called>>
    BY <1>6 DEF Executing
  <2>2. \A n \in Node : at[n] = "out" => at'[n] = "out"
    BY <1>1, <1>6 DEF Executing, Exec!TypeOK, Exec!InCall, Exec!Register, Exec!Communicated,
      Exec!Expire, Exec!Reaped, Exec!Return, Exec!Exit, Exec!Terminate, Exec!SendTerm,
      Exec!SendKill, Exec!Send, Exec!Terminated, Exec!workers
  <2>3. QED
    BY <1>1, <2>1, <2>2 DEF CallsInTools, vars
<1>7. QED
  BY <1>1, <1>2, <1>3, <1>4, <1>5, <1>6 DEF StopNext, Chain

LEMMA InitChain == StopInit => OrderInv /\ CallsInTools
BY InitOrder DEF StopInit, Exec!Init, CallsInTools

\* The inductive invariant of the composition: that of the scheduler, that of
\* the executor, and what ties a tool's future to its call (_execute_tool,
\* QECalcTool.run).
THEOREM StopInvariant == StopSpec => []StopInv
<1>1. OrderInv /\ CallsInTools /\ Exec!TypeOK /\ [StopNext]_stopChain
      => OrderInv' /\ CallsInTools'
  BY ChainStep, NextOrder
<1>2. OrderInv /\ CallsInTools /\ Exec!NothingLeftBehind => StopInv
  BY DEF StopInv
<1>3. QED
  BY <1>1, <1>2, InitChain, ExecutorInChain, PTL DEF StopSpec

\* A run that can be stopped is a run: what is proved of GraphRuntime holds
\* while handlers, hooks and programs work beside its scheduler.
THEOREM ChainRunsGraph == StopSpec => Spec
<1>1. StopInit => Init
  BY DEF StopInit
<1>2. StopInv /\ Exec!TypeOK /\ [StopNext]_stopChain => [Next]_vars
  BY ChainStep DEF StopInv
<1>3. QED
  BY <1>1, <1>2, StopInvariant, ExecutorInChain, PTL DEF StopSpec, Spec

\* However a stop races with dispatches, programs and their signals, no
\* program outlives the engine call that started it (cancel_session, _cancel,
\* the shutdown of the thread pool).
THEOREM NoProgramSurvives == StopSpec => []NoProgramAfterCall
<1>1. StopInv => NoProgramAfterCall
  <2>1. SUFFICES ASSUME StopInv, ~Driving, NEW n \in Node PROVE leader[n] # "alive"
    BY DEF NoProgramAfterCall
  <2>2. fut[n] = "none"
    BY <2>1 DEF StopInv, OrderInv, FutureIsRunning, Driving
  <2>3. at[n] = "out"
    BY <2>1, <2>2 DEF StopInv, CallsInTools
  <2>4. QED
    BY <2>1, <2>3 DEF StopInv, Exec!NothingLeftBehind, Exec!Gone
<1>2. QED
  BY <1>1, StopInvariant, PTL

=============================================================================
