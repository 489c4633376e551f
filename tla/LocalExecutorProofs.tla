------------------------ MODULE LocalExecutorProofs ------------------------
(***************************************************************************)
(* Proofs about LocalExecutor for any number of worker threads and of      *)
(* threads that call cancel_all, whether programs fork or not.             *)
(***************************************************************************)
EXTENDS LocalExecutor, TLAPS

USE DEF Ended, Gone

LEMMA InitSweep == Init => SweepInv
BY ThreadsAssumption
   DEF Init, SweepInv, TypeOK, NothingLeftBehind, KillIsSent, KillIsDue

\* The steps of a worker thread inside _run_tool.
LEMMA LaunchSweep ==
  ASSUME SweepInv, NEW t \in Thread, Launch(t)
  PROVE  SweepInv'
<1> USE ThreadsAssumption, LaunchesAssumption DEF SweepInv, Launch
<1>1. TypeOK'
  <2>1. child' \in [Thread -> BOOLEAN]
    <3>1. PICK forked \in {FALSE, Forks} : child' = [child EXCEPT ![t] = forked]
      BY Zenon
    <3>2. forked \in BOOLEAN
      BY Zenon
    <3>3. QED
      BY <3>1, <3>2, Zenon DEF TypeOK
  <2>2. /\ leader' \in [Thread -> {"unborn", "alive"} \cup Ended]
        /\ signal' \in [Thread -> {"none", "term", "kill"}]
        /\ at' \in [Thread -> {"out", "launched", "waiting", "expired"}]
        /\ result' \in [Thread -> {"none", "success", "cancelled", "failed", "timeout"}]
    BY DEF TypeOK
  <2>3. /\ aim' \in [Canceller -> Thread \cup {Nobody}]
        /\ batch' \in [Canceller -> SUBSET Thread]
        /\ swept' \in SUBSET Thread
        /\ launches' \in Nat
    BY DEF TypeOK
  <2>4. QED
    BY <2>1, <2>2, <2>3 DEF TypeOK
<1>2. NothingLeftBehind'
  BY DEF TypeOK, NothingLeftBehind
<1>3. KillIsSent'
  BY DEF TypeOK, KillIsSent
<1>4. KillIsDue'
  <2>1. SUFFICES ASSUME NEW u \in swept'
                 PROVE  \/ leader'[u] # "alive" \/ signal'[u] = "kill"
                        \/ \E k \in Canceller :
                             /\ step'[k] # "none"
                             /\ u \in batch'[k] \/ (aim'[k] = u /\ step'[k] # "last")
    BY DEF KillIsDue
  <2>2. u \in swept /\ u # t /\ u \in Thread
    BY DEF TypeOK
  <2>3. leader'[u] = leader[u] /\ signal'[u] = signal[u]
    BY <2>2 DEF TypeOK
  <2>4. CASE leader[u] # "alive" \/ signal[u] = "kill"
    BY <2>3, <2>4
  <2>5. CASE \E k \in Canceller :
               /\ step[k] # "none"
               /\ u \in batch[k] \/ (aim[k] = u /\ step[k] # "last")
    <3>1. PICK k \in Canceller :
               /\ step[k] # "none"
               /\ u \in batch[k] \/ (aim[k] = u /\ step[k] # "last")
      BY <2>5
    <3>2. step'[k] = step[k] /\ (aim[k] = u => aim'[k] = u)
          /\ (u \in batch[k] => u \in batch'[k])
      BY <2>2
    <3>3. QED
      BY <3>1, <3>2
  <2>6. QED
    BY <2>2, <2>4, <2>5 DEF KillIsDue
<1>5. QED
  BY <1>1, <1>2, <1>3, <1>4

LEMMA CallSweep ==
  ASSUME SweepInv, NEW t \in Thread, LaunchFails(t) \/ InCall(t)
  PROVE  SweepInv'
<1>1. UNCHANGED <<leader, child, signal, aim, batch, swept>>
  BY DEF LaunchFails, InCall, Register, Communicated, Expire, Reaped, Return,
         process, sweep
<1>2. \A k \in Canceller : step'[k] = step[k]
  BY ThreadsAssumption DEF LaunchFails, InCall, Register, Communicated, Expire,
                           Reaped, Return, SweepInv, TypeOK
<1>3. TypeOK'
  BY <1>1, LaunchesAssumption
     DEF LaunchFails, InCall, Register, Communicated, Expire, Reaped, Return,
         SweepInv, TypeOK, Outcome, process, workers, sweep
<1>4. at' \in [Thread -> {"out", "launched", "waiting", "expired"}]
      /\ \A u \in Thread : at'[u] = "out" => at[u] = "out" \/ Gone(u)
  BY DEF LaunchFails, InCall, Register, Communicated, Expire, Reaped, Return,
         SweepInv, TypeOK
<1>5. NothingLeftBehind'
  BY <1>1, <1>4 DEF SweepInv, NothingLeftBehind
<1>6. KillIsSent' /\ KillIsDue'
  BY <1>1, <1>2 DEF SweepInv, KillIsSent, KillIsDue
<1>7. QED
  BY <1>3, <1>5, <1>6 DEF SweepInv

\* A program or its child ends.
LEMMA ExitSweep ==
  ASSUME SweepInv, NEW t \in Thread, Exit(t) \/ ChildExits(t)
  PROVE  SweepInv'
<1>1. UNCHANGED <<signal, at, running, result, launches, step, aim, batch, swept>>
  BY DEF Exit, ChildExits, workers, sweep
<1>2. TypeOK'
  BY <1>1 DEF Exit, ChildExits, SweepInv, TypeOK
<1>3. \A u \in Thread : /\ leader'[u] = "alive" => leader[u] = "alive"
                        /\ child'[u] => child[u]
  BY DEF Exit, ChildExits, SweepInv, TypeOK
<1>4. NothingLeftBehind'
  BY <1>1, <1>3 DEF SweepInv, NothingLeftBehind
<1>5. KillIsSent'
  BY <1>1, <1>3 DEF SweepInv, KillIsSent
<1>6. KillIsDue'
  BY <1>1, <1>3 DEF SweepInv, KillIsDue, TypeOK
<1>7. QED
  BY <1>2, <1>4, <1>5, <1>6 DEF SweepInv

\* A signal: children may die, and nobody's SIGKILL is taken back.
LEMMA SendEffect ==
  ASSUME TypeOK, NEW s \in Thread \cup Canceller, NEW sig \in {"term", "kill"},
         Send(s, Target(s), sig)
  PROVE  /\ Target(s) \in Thread
         /\ signal' \in [Thread -> {"none", "term", "kill"}]
         /\ child' \in [Thread -> BOOLEAN]
         /\ \A u \in Thread : /\ child'[u] => child[u]
                              /\ signal[u] = "kill" => signal'[u] = "kill"
         /\ sig = "kill" => signal'[Target(s)] = "kill"
         /\ UNCHANGED <<leader, at, running, result, launches, aim, batch, swept>>
<1>1. Target(s) \in Thread
  BY DEF Send, Dead
<1>2. PICK spared \in {FALSE, sig = "term"} :
        child' = [child EXCEPT ![Target(s)] = child[Target(s)] /\ spared]
  BY Zenon DEF Send
<1>3. spared \in BOOLEAN
  OBVIOUS
<1>4. child' \in [Thread -> BOOLEAN] /\ \A u \in Thread : child'[u] => child[u]
  BY <1>1, <1>2, <1>3, Zenon DEF TypeOK
<1>5. signal' = [signal EXCEPT ![Target(s)] = IF @ = "kill" THEN @ ELSE sig]
  BY DEF Send
<1>6. QED
  BY <1>1, <1>4, <1>5 DEF Send, TypeOK, workers, sweep

LEMMA SignalSweep ==
  ASSUME SweepInv, NEW s \in Thread \cup Canceller, SendTerm(s) \/ SendKill(s)
  PROVE  SweepInv'
<1>1. TypeOK
  BY DEF SweepInv
<1>2. PICK sig \in {"term", "kill"} :
        /\ Send(s, Target(s), sig)
        /\ step' = [step EXCEPT ![s] = IF sig = "kill" THEN "last" ELSE "grace"]
        /\ step[s] # "none"
  BY Zenon DEF SendTerm, SendKill
<1>3. /\ Target(s) \in Thread
      /\ signal' \in [Thread -> {"none", "term", "kill"}]
      /\ child' \in [Thread -> BOOLEAN]
      /\ \A u \in Thread : /\ child'[u] => child[u]
                           /\ signal[u] = "kill" => signal'[u] = "kill"
      /\ sig = "kill" => signal'[Target(s)] = "kill"
      /\ UNCHANGED <<leader, at, running, result, launches, aim, batch, swept>>
  BY <1>1, <1>2, SendEffect
<1>4. TypeOK'
  BY <1>1, <1>2, <1>3 DEF TypeOK
<1>5. NothingLeftBehind'
  BY <1>3 DEF SweepInv, NothingLeftBehind
<1>6. \A k \in Canceller : k # s => step'[k] = step[k]
  BY <1>1, <1>2 DEF TypeOK
<1>7. s \in Canceller => Target(s) = aim[s]
  BY ThreadsAssumption DEF Target
<1>8. KillIsSent'
  <2>1. SUFFICES ASSUME NEW t \in Thread, NEW k \in Canceller,
                        aim'[k] = t, step'[k] = "last"
                 PROVE  leader'[t] # "alive" \/ signal'[t] = "kill"
    BY DEF KillIsSent
  <2>2. CASE k # s
    BY <1>3, <1>6, <2>1, <2>2 DEF SweepInv, KillIsSent
  <2>3. CASE k = s
    <3>1. sig = "kill"
      BY <1>1, <1>2, <2>1, <2>3 DEF TypeOK
    <3>2. QED
      BY <1>3, <1>7, <2>1, <2>3, <3>1
  <2>4. QED
    BY <2>2, <2>3
<1>9. KillIsDue'
  <2>1. SUFFICES ASSUME NEW t \in swept
                 PROVE  \/ leader'[t] # "alive" \/ signal'[t] = "kill"
                        \/ \E k \in Canceller :
                             /\ step'[k] # "none"
                             /\ t \in batch'[k] \/ (aim'[k] = t /\ step'[k] # "last")
    BY <1>3 DEF KillIsDue
  <2>2. t \in Thread
    BY <1>1 DEF TypeOK
  <2>3. CASE leader[t] # "alive" \/ signal[t] = "kill"
    BY <1>3, <2>2, <2>3
  <2>4. CASE \E k \in Canceller :
               /\ step[k] # "none"
               /\ t \in batch[k] \/ (aim[k] = t /\ step[k] # "last")
    <3>1. PICK k \in Canceller :
               /\ step[k] # "none"
               /\ t \in batch[k] \/ (aim[k] = t /\ step[k] # "last")
      BY <2>4
    <3>2. CASE k # s
      BY <1>3, <1>6, <3>1, <3>2
    <3>3. CASE k = s /\ t \in batch[k]
      <4>1. step'[k] \in {"grace", "last"}
        BY <1>1, <1>2, <3>3 DEF TypeOK
      <4>2. QED
        BY <1>3, <3>3, <4>1
    <3>4. CASE k = s /\ aim[k] = t
      <4>1. CASE sig = "kill"
        BY <1>3, <1>7, <3>4, <4>1
      <4>2. CASE sig = "term"
        <5>1. step'[k] = "grace"
          BY <1>1, <1>2, <3>4, <4>2 DEF TypeOK
        <5>2. QED
          BY <1>3, <3>4, <5>1
      <4>3. QED
        BY <4>1, <4>2
    <3>5. QED
      BY <3>1, <3>2, <3>3, <3>4
  <2>5. QED
    BY <2>3, <2>4 DEF SweepInv, KillIsDue
<1>10. QED
  BY <1>4, <1>5, <1>8, <1>9 DEF SweepInv

\* A canceller takes the next process of `procs', or is done.
LEMMA NextTargetEffect ==
  ASSUME TypeOK, NEW k \in Canceller, NEW procs \in SUBSET Thread,
         NextTarget(k, procs)
  PROVE  /\ step' \in [Thread \cup Canceller -> {"none", "poll", "grace", "last"}]
         /\ aim' \in [Canceller -> Thread \cup {Nobody}]
         /\ batch' \in [Canceller -> SUBSET Thread]
         /\ \A u \in procs : /\ step'[k] = "poll"
                             /\ u \in batch'[k] \/ aim'[k] = u
         /\ step'[k] # "last"
         /\ \A j \in Canceller : j # k => /\ step'[j] = step[j]
                                          /\ aim'[j] = aim[j]
                                          /\ batch'[j] = batch[j]
<1>1. CASE procs = {} /\ step' = [step EXCEPT ![k] = "none"] /\ UNCHANGED <<aim, batch>>
  BY <1>1 DEF TypeOK
<1>2. CASE \E t \in procs : /\ step' = [step EXCEPT ![k] = "poll"]
                            /\ aim' = [aim EXCEPT ![k] = t]
                            /\ batch' = [batch EXCEPT ![k] = procs \ {t}]
  BY <1>2 DEF TypeOK
<1>3. QED
  BY <1>1, <1>2 DEF NextTarget

LEMMA CancelAllSweep ==
  ASSUME SweepInv, NEW k \in Canceller, CancelAll(k)
  PROVE  SweepInv'
<1> DEFINE procs == {t \in running : leader[t] = "alive"}
<1>1. /\ TypeOK /\ procs \in SUBSET Thread
      /\ step[k] = "none" /\ swept' = swept \cup procs /\ NextTarget(k, procs)
      /\ UNCHANGED <<leader, child, signal, at, running, result, launches>>
  BY DEF SweepInv, TypeOK, CancelAll, process, workers
<1> HIDE DEF procs
<1>2. /\ step' \in [Thread \cup Canceller -> {"none", "poll", "grace", "last"}]
      /\ aim' \in [Canceller -> Thread \cup {Nobody}]
      /\ batch' \in [Canceller -> SUBSET Thread]
      /\ \A u \in procs : step'[k] = "poll" /\ (u \in batch'[k] \/ aim'[k] = u)
      /\ step'[k] # "last"
      /\ \A j \in Canceller : j # k => /\ step'[j] = step[j] /\ aim'[j] = aim[j]
                                       /\ batch'[j] = batch[j]
  BY <1>1, NextTargetEffect
<1>3. TypeOK'
  BY <1>1, <1>2 DEF TypeOK
<1>4. NothingLeftBehind' /\ KillIsSent'
  BY <1>1, <1>2 DEF SweepInv, NothingLeftBehind, KillIsSent
<1>5. KillIsDue'
  <2>1. \A t \in swept : \A j \in Canceller : step[j] # "none" => j # k
    BY <1>1
  <2>2. QED
    BY <1>1, <1>2, <2>1 DEF SweepInv, KillIsDue
<1>6. QED
  BY <1>3, <1>4, <1>5 DEF SweepInv

\* A canceller moves on: it has nothing left to do about its target.
LEMMA TerminatedSweep ==
  ASSUME SweepInv, NEW k \in Canceller, Terminated(k)
  PROVE  SweepInv'
<1>1. /\ TypeOK /\ batch[k] \in SUBSET Thread
      /\ step[k] # "none" /\ NextTarget(k, batch[k])
      /\ UNCHANGED <<leader, child, signal, at, running, result, launches, swept>>
  BY DEF SweepInv, TypeOK, Terminated, process, workers
<1>2. /\ step' \in [Thread \cup Canceller -> {"none", "poll", "grace", "last"}]
      /\ aim' \in [Canceller -> Thread \cup {Nobody}]
      /\ batch' \in [Canceller -> SUBSET Thread]
      /\ \A u \in batch[k] : step'[k] = "poll" /\ (u \in batch'[k] \/ aim'[k] = u)
      /\ step'[k] # "last"
      /\ \A j \in Canceller : j # k => /\ step'[j] = step[j] /\ aim'[j] = aim[j]
                                       /\ batch'[j] = batch[j]
  BY <1>1, NextTargetEffect
<1>3. TypeOK'
  BY <1>1, <1>2 DEF TypeOK
<1>4. NothingLeftBehind' /\ KillIsSent'
  BY <1>1, <1>2 DEF SweepInv, NothingLeftBehind, KillIsSent
<1>5. \A t \in Thread : aim[k] = t => \/ leader[t] # "alive" \/ signal[t] = "kill"
  BY ThreadsAssumption DEF Terminated, Dead, Target, SweepInv, KillIsSent
<1>6. KillIsDue'
  <2>1. SUFFICES ASSUME NEW t \in swept
                 PROVE  \/ leader[t] # "alive" \/ signal[t] = "kill"
                        \/ \E j \in Canceller :
                             /\ step'[j] # "none"
                             /\ t \in batch'[j] \/ (aim'[j] = t /\ step'[j] # "last")
    BY <1>1 DEF KillIsDue
  <2>2. CASE leader[t] # "alive" \/ signal[t] = "kill"
    BY <2>2
  <2>3. CASE \E j \in Canceller :
               /\ step[j] # "none"
               /\ t \in batch[j] \/ (aim[j] = t /\ step[j] # "last")
    <3>1. PICK j \in Canceller :
               /\ step[j] # "none"
               /\ t \in batch[j] \/ (aim[j] = t /\ step[j] # "last")
      BY <2>3
    <3>2. CASE j # k
      BY <1>2, <3>1, <3>2
    <3>3. CASE j = k /\ t \in batch[k]
      BY <1>2, <3>3
    <3>4. CASE j = k /\ aim[k] = t
      BY <1>1, <1>5, <3>4 DEF TypeOK
    <3>5. QED
      BY <3>1, <3>2, <3>3, <3>4
  <2>4. QED
    BY <2>2, <2>3 DEF SweepInv, KillIsDue
<1>7. QED
  BY <1>3, <1>4, <1>6 DEF SweepInv

\* A worker whose own program timed out terminates that one alone.
LEMMA WorkerTerminatedSweep ==
  ASSUME SweepInv, NEW t \in Thread, Terminated(t)
  PROVE  SweepInv'
<1>1. t \notin Canceller
  BY ThreadsAssumption
<1>2. /\ step' = [step EXCEPT ![t] = "none"]
      /\ UNCHANGED <<leader, child, signal, at, running, result, launches, aim, batch, swept>>
  BY <1>1 DEF Terminated, NextTarget, process, workers
<1>3. \A k \in Canceller : step'[k] = step[k]
  BY <1>1, <1>2 DEF SweepInv, TypeOK
<1>4. TypeOK'
  BY <1>2 DEF SweepInv, TypeOK
<1>5. NothingLeftBehind' /\ KillIsSent' /\ KillIsDue'
  BY <1>2, <1>3 DEF SweepInv, NothingLeftBehind, KillIsSent, KillIsDue
<1>6. QED
  BY <1>4, <1>5 DEF SweepInv

LEMMA StutterSweep == SweepInv /\ UNCHANGED executor => SweepInv'
BY DEF SweepInv, executor, TypeOK, NothingLeftBehind, KillIsSent, KillIsDue

\* The inductive invariant: types, nothing behind a returned call, and for
\* every process that a sweep saw, who is still going to kill it.
THEOREM SweepInvariant == Spec => []SweepInv
<1>1. SweepInv /\ [Next]_executor => SweepInv'
  <2>1. SUFFICES ASSUME SweepInv, [Next]_executor PROVE SweepInv'
    OBVIOUS
  <2>2. CASE \E t \in Thread : Launch(t)
    BY <2>1, <2>2, LaunchSweep
  <2>3. CASE \E t \in Thread : LaunchFails(t) \/ InCall(t)
    BY <2>1, <2>3, CallSweep
  <2>4. CASE \E t \in Thread : Exit(t) \/ ChildExits(t)
    BY <2>1, <2>4, ExitSweep
  <2>5. CASE \E k \in Canceller : CancelAll(k)
    BY <2>1, <2>5, CancelAllSweep
  <2>6. CASE \E s \in Thread \cup Canceller : SendTerm(s) \/ SendKill(s)
    BY <2>1, <2>6, SignalSweep
  <2>7. CASE \E s \in Thread \cup Canceller : Terminated(s)
    BY <2>1, <2>7, TerminatedSweep, WorkerTerminatedSweep
  <2>8. CASE UNCHANGED executor
    BY <2>1, <2>8, StutterSweep
  <2>9. QED
    BY <2>1, <2>2, <2>3, <2>4, <2>5, <2>6, <2>7, <2>8 DEF Next, Terminate
<1>2. QED
  BY <1>1, InitSweep, PTL DEF Spec

\* Whatever the programs, the walltimes and the sweeps do, a call of _run_tool
\* returns only when its process group is gone (communicate in _run_tool).
THEOREM NoneLeftBehind == Spec => []NothingLeftBehind
<1>1. SweepInv => NothingLeftBehind
  BY DEF SweepInv
<1>2. QED
  BY <1>1, SweepInvariant, PTL

\* Once all sweeps are over, what any of them saw is dead or was sent SIGKILL
\* (cancel_all, _terminate_group).
THEOREM SweepsAreDeadly == Spec => []SweepIsDeadly
<1>1. SweepInv => SweepIsDeadly
  BY DEF SweepInv, KillIsDue, SweepIsDeadly
<1>2. QED
  BY <1>1, SweepInvariant, PTL
=============================================================================
