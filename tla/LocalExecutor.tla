---------------------------- MODULE LocalExecutor ----------------------------
(***************************************************************************)
(* LocalExecutor of executor.py: worker threads that each run one program  *)
(* of Quantum ESPRESSO at a time and wait for it with a walltime, and      *)
(* cancel_all, which other threads call to kill whatever is running.       *)
(*                                                                         *)
(* A program leads a process group of its own and may have forked a child  *)
(* that holds its pipes.  It is registered only after Popen has returned;  *)
(* cancel_all works from a snapshot of the registry.  No two processes     *)
(* that a thread still waits for have the same pid.                        *)
(***************************************************************************)
EXTENDS Naturals, FiniteSets

CONSTANTS
  Thread,        \* worker threads, each in at most one _run_tool at a time
  Canceller,     \* threads that call cancel_all
  Nobody,        \* not a thread
  Forks,         \* TRUE: a program may fork a child
  MaxLaunches    \* bound: calls of _run_tool in a behaviour

ASSUME ThreadsAssumption == Thread \cap Canceller = {} /\ Nobody \notin Thread
ASSUME LaunchesAssumption == MaxLaunches \in Nat /\ Forks \in BOOLEAN

VARIABLES
  leader,      \* of each thread's last process: alive, or how it ended
  child,       \* TRUE: a child of it is alive
  signal,      \* the strongest signal sent to its group
  at,          \* where each thread is in _run_tool
  running,     \* _running: the threads whose process is registered
  result,      \* the JobResult of each thread's last call
  step,        \* where each thread or canceller is in _terminate_group
  aim,         \* whose process a cancel_all is terminating
  batch,       \* those it has yet to terminate
  swept,       \* threads whose last process was in the snapshot of a sweep
  launches     \* calls made so far

process  == <<leader, child, signal>>
workers  == <<at, running, result, launches>>
sweep    == <<aim, batch, swept>>
executor == <<leader, child, signal, at, running, result, step, aim, batch, swept, launches>>

Ended == {"exit0", "exit1", "signalled"}
Gone(t) == leader[t] # "alive" /\ ~child[t]

----------------------------------------------------------------------------
Init ==
  /\ leader = [t \in Thread |-> "unborn"]
  /\ child = [t \in Thread |-> FALSE]
  /\ signal = [t \in Thread |-> "none"]
  /\ at = [t \in Thread |-> "out"]
  /\ running = {}
  /\ result = [t \in Thread |-> "none"]
  /\ step = [s \in Thread \cup Canceller |-> "none"]
  /\ aim = [k \in Canceller |-> Nobody]
  /\ batch = [k \in Canceller |-> {}]
  /\ swept = {}
  /\ launches = 0

\* _run_tool up to Popen: a sweep that still holds the former process of t
\* finds it dead ...
Launch(t) ==
  /\ at[t] = "out" /\ launches < MaxLaunches
  /\ launches' = launches + 1
  /\ leader' = [leader EXCEPT ![t] = "alive"]
  /\ \E forked \in {FALSE, Forks} : child' = [child EXCEPT ![t] = forked]
  /\ signal' = [signal EXCEPT ![t] = "none"]
  /\ at' = [at EXCEPT ![t] = "launched"]
  /\ result' = [result EXCEPT ![t] = "none"]
  /\ aim' = [k \in Canceller |-> IF aim[k] = t THEN Nobody ELSE aim[k]]
  /\ batch' = [k \in Canceller |-> batch[k] \ {t}]
  /\ swept' = swept \ {t}
  /\ UNCHANGED <<running, step>>

\* ... which may find no input file or no binary, or fail.
LaunchFails(t) ==
  /\ at[t] = "out" /\ launches < MaxLaunches
  /\ launches' = launches + 1
  /\ result' = [result EXCEPT ![t] = "failed"]
  /\ UNCHANGED <<process, at, running, step, sweep>>

Register(t) ==
  /\ at[t] = "launched"
  /\ running' = running \cup {t}
  /\ at' = [at EXCEPT ![t] = "waiting"]
  /\ UNCHANGED <<process, result, launches, step, sweep>>

\* _was_cancelled: any death by a signal counts as a cancel.
Outcome(t) ==
  CASE leader[t] = "exit0"     -> "success"
    [] leader[t] = "signalled" -> "cancelled"
    [] OTHER                   -> "failed"

\* The end of a call: `finally` takes the process off the registry.
Return(t, answer) ==
  /\ running' = running \ {t}
  /\ result' = [result EXCEPT ![t] = answer]
  /\ at' = [at EXCEPT ![t] = "out"]
  /\ UNCHANGED <<process, launches, step, sweep>>

\* communicate() returns when the leader has ended and the pipes are closed ...
Communicated(t) ==
  /\ at[t] = "waiting" /\ Gone(t)
  /\ Return(t, Outcome(t))

\* ... or raises TimeoutExpired after the walltime.
Expire(t) ==
  /\ at[t] = "waiting" /\ ~Gone(t)
  /\ at' = [at EXCEPT ![t] = "expired"]
  /\ step' = [step EXCEPT ![t] = "poll"]
  /\ UNCHANGED <<process, running, result, launches, sweep>>

\* Mutant: no second communicate().
Reaped_NoWait(t) ==
  /\ at[t] = "expired" /\ step[t] = "none"
  /\ Return(t, "timeout")

\* The second communicate(), after _terminate_group, waits without limit.
Reaped(t) ==
  /\ at[t] = "expired" /\ step[t] = "none" /\ Gone(t)
  /\ Return(t, "timeout")

----------------------------------------------------------------------------
\* s goes on to the next process of its batch, if it has one.
NextTarget(s, procs) ==
  \/ /\ procs = {}
     /\ step' = [step EXCEPT ![s] = "none"]
     /\ UNCHANGED <<aim, batch>>
  \/ \E t \in procs :
       /\ step' = [step EXCEPT ![s] = "poll"]
       /\ aim' = [aim EXCEPT ![s] = t]
       /\ batch' = [batch EXCEPT ![s] = procs \ {t}]

\* cancel_all: a snapshot under the lock, then one group after the other.
CancelAll(k) ==
  /\ step[k] = "none"
  /\ LET procs == {t \in running : leader[t] = "alive"}
     IN  /\ swept' = swept \cup procs
         /\ NextTarget(k, procs)
  /\ UNCHANGED <<process, workers>>

Target(s) == IF s \in Thread THEN s ELSE aim[s]

Dead(s) == Target(s) \notin {t \in Thread : leader[t] = "alive"}

\* s signals the whole group of t; SIGTERM may be ignored, by the child too.
Send(s, t, sig) ==
  /\ ~Dead(s)
  /\ signal' = [signal EXCEPT ![t] = IF @ = "kill" THEN @ ELSE sig]
  /\ \E spared \in {FALSE, sig = "term"} : child' = [child EXCEPT ![t] = @ /\ spared]
  /\ UNCHANGED <<leader, workers, sweep>>

SendTerm(s) ==
  /\ step[s] = "poll"
  /\ Send(s, Target(s), "term")
  /\ step' = [step EXCEPT ![s] = "grace"]

\* Mutant: nothing but SIGTERM.
SendKill_Softly(s) ==
  /\ step[s] = "grace"
  /\ Send(s, Target(s), "term")
  /\ step' = [step EXCEPT ![s] = "last"]

\* After the grace period.
SendKill(s) ==
  /\ step[s] = "grace"
  /\ Send(s, Target(s), "kill")
  /\ step' = [step EXCEPT ![s] = "last"]

\* _terminate_group returns when the leader is dead, at the latest a grace
\* period after SIGKILL.
Terminated(s) ==
  /\ step[s] # "none"
  /\ Dead(s) \/ step[s] = "last"
  /\ NextTarget(s, IF s \in Canceller THEN batch[s] ELSE {})
  /\ UNCHANGED <<process, workers, swept>>

----------------------------------------------------------------------------
\* A program ends by itself, by a crash, or by the signal it was sent.
Exit(t) ==
  /\ leader[t] = "alive"
  /\ \E how \in IF signal[t] = "kill" THEN {"signalled"} ELSE Ended :
       leader' = [leader EXCEPT ![t] = how]
  /\ UNCHANGED <<child, signal, workers, step, sweep>>

ChildExits(t) ==
  /\ child[t]
  /\ child' = [child EXCEPT ![t] = FALSE]
  /\ UNCHANGED <<leader, signal, workers, step, sweep>>

----------------------------------------------------------------------------
InCall(t) == Register(t) \/ Communicated(t) \/ Expire(t) \/ Reaped(t)
Terminate(s) == SendTerm(s) \/ SendKill(s) \/ Terminated(s)

Next ==
  \/ \E t \in Thread : Launch(t) \/ LaunchFails(t) \/ InCall(t) \/ Exit(t) \/ ChildExits(t)
  \/ \E k \in Canceller : CancelAll(k)
  \/ \E s \in Thread \cup Canceller : Terminate(s)

Spec == Init /\ [][Next]_executor

\* Python threads run, and a walltime or a grace period passes.
FairSpec ==
  /\ Spec
  /\ \A t \in Thread : WF_executor(InCall(t))
  /\ \A s \in Thread \cup Canceller : WF_executor(Terminate(s))

\* A program that was sent SIGKILL dies.
KillWorks == \A t \in Thread : WF_executor(signal[t] = "kill" /\ Exit(t))

----------------------------------------------------------------------------
\* Types of all variables (executor.py).
TypeOK ==
  /\ leader \in [Thread -> {"unborn", "alive"} \cup Ended]
  /\ child \in [Thread -> BOOLEAN]
  /\ signal \in [Thread -> {"none", "term", "kill"}]
  /\ at \in [Thread -> {"out", "launched", "waiting", "expired"}]
  /\ running \in SUBSET Thread
  /\ result \in [Thread -> {"none", "success", "cancelled", "failed", "timeout"}]
  /\ step \in [Thread \cup Canceller -> {"none", "poll", "grace", "last"}]
  /\ aim \in [Canceller -> Thread \cup {Nobody}]
  /\ batch \in [Canceller -> SUBSET Thread]
  /\ swept \in SUBSET Thread
  /\ launches \in Nat

\* A call of _run_tool returns only when nothing of its process group is left
\* in the working directory, which the next attempt of the node will use:
\* also after a timeout, and while a cancel_all is terminating the same group.
NothingLeftBehind == \A t \in Thread : at[t] = "out" => Gone(t)

\* When no cancel_all is at work, every process that one found registered is
\* dead or was sent SIGKILL: none got away with ignoring SIGTERM.
SweepIsDeadly ==
  (\A k \in Canceller : step[k] = "none") =>
    \A t \in swept : leader[t] # "alive" \/ signal[t] = "kill"

\* Why a sweep is deadly: whom it has not yet killed, some cancel_all still has
\* in its batch or in its grace period; it gives up only after SIGKILL.
KillIsSent == \A t \in Thread : \A k \in Canceller :
  aim[k] = t /\ step[k] = "last" => leader[t] # "alive" \/ signal[t] = "kill"

KillIsDue == \A t \in swept :
  \/ leader[t] # "alive" \/ signal[t] = "kill"
  \/ \E k \in Canceller :
       /\ step[k] # "none"
       /\ t \in batch[k] \/ (aim[k] = t /\ step[k] # "last")

SweepInv == TypeOK /\ NothingLeftBehind /\ KillIsSent /\ KillIsDue

\* If SIGKILL works, every call returns, whatever its program does: only a
\* forked child that outlives the group's leader can hold it up.
CallReturns ==
  KillWorks => \A t \in Thread : at[t] # "out" ~> at[t] = "out" \/ child[t]
=============================================================================
