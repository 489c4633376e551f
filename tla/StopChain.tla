----------------------------- MODULE StopChain -----------------------------
(***************************************************************************)
(* The stop button: cancel_session of web/__init__.py sets the cancel      *)
(* event of a run and then sweeps the executor, while the scheduler        *)
(* (GraphRuntime) that drives the run dispatches, collects and, when it    *)
(* sees the event, sweeps the executor again; each tool is a worker thread *)
(* of QECalcTool in LocalExecutor.                                         *)
(*                                                                         *)
(* The handler runs on the event loop without an await, so no new engine   *)
(* call begins before it is done.                                          *)
(***************************************************************************)
EXTENDS GraphRuntime

CONSTANTS
  WebThread,    \* the thread of the handler, in its sweep
  HookThread,   \* the driver's thread, in its sweep
  Nobody, MaxLaunches

ASSUME SweepersAssumption ==
  /\ WebThread # HookThread /\ Node \cap {WebThread, HookThread} = {}
  /\ Nobody \notin Node
  /\ MaxLaunches \in Nat

VARIABLES
  leader, child, signal, at, running, result, step, aim, batch, swept, launches,
  called,     \* nodes whose tool has called the executor
  web,        \* where the handler of the stop button is
  hook        \* where the scheduler's on_cancel is

Exec == INSTANCE LocalExecutor WITH
  Thread <- Node, Canceller <- {WebThread, HookThread}, Forks <- FALSE

executor  == <<leader, child, signal, at, running, result, step, aim, batch, swept, launches>>
stops     == <<web, hook>>
stopChain == <<vars, executor, called, web, hook>>

StopInit ==
  /\ Init
  /\ Exec!Init
  /\ called = {}
  /\ web = "idle" /\ hook = "idle"

----------------------------------------------------------------------------
EngineCalled ==
  /\ Start \/ Resume \/ Retry
  /\ web = "idle"
  /\ UNCHANGED <<executor, called, stops>>

\* The scheduler marks the run paused when its hook has returned.
DriverStep ==
  /\ Driver
  /\ pc = "cancel" /\ todo = {} => hook = "done"
  /\ hook' = IF pc = "cancel" /\ todo = {} THEN "idle" ELSE hook
  /\ UNCHANGED <<executor, called, web>>

HookSweeps ==
  /\ pc = "cancel" /\ todo = {} /\ hook = "idle"
  /\ Exec!CancelAll(HookThread)
  /\ hook' = "sweeping"
  /\ UNCHANGED <<vars, called, web>>

HookReturns ==
  /\ hook = "sweeping" /\ step[HookThread] = "none"
  /\ hook' = "done"
  /\ UNCHANGED <<vars, executor, called, web>>

\* The tool of n calls the executor, or gives up before.
ToolCalls(n) ==
  /\ fut[n] = "executing" /\ n \notin called
  /\ Exec!Launch(n) \/ Exec!LaunchFails(n)
  /\ called' = called \cup {n}
  /\ UNCHANGED <<vars, stops>>

ToolGivesUp(n) ==
  /\ fut[n] = "executing" /\ n \notin called
  /\ fut' = [fut EXCEPT ![n] = "fatal"]
  /\ UNCHANGED <<nodes, saved, savedRun, pc, todo, event, history, executor, called, stops>>

\* What the tool makes of the executor's result: whatever failed may be
\* repaired, and a success still has to be parsed and verified.
ToolReturns(n) ==
  /\ n \in called /\ at[n] = "out"
  /\ \E outcome \in IF result[n] = "success" THEN {"ok", "repairable", "fatal"}
                                             ELSE {"repairable"} :
       fut' = [fut EXCEPT ![n] = outcome]
  /\ called' = called \ {n}
  /\ UNCHANGED <<nodes, saved, savedRun, pc, todo, event, history, executor, stops>>

Executing ==
  /\ \/ \E n \in Node : Exec!InCall(n) \/ Exec!Exit(n)
     \/ \E s \in Node \cup {WebThread, HookThread} : Exec!Terminate(s)
  /\ UNCHANGED <<vars, called, stops>>

\* cancel_session, of a run that is active.
StopPressed ==
  /\ web = "idle"
  /\ RequestCancel
  /\ web' = "asked"
  /\ UNCHANGED <<executor, called, hook>>

WebSweeps ==
  /\ web = "asked"
  /\ Exec!CancelAll(WebThread)
  /\ web' = "sweeping"
  /\ UNCHANGED <<vars, called, hook>>

WebReturns ==
  /\ web = "sweeping" /\ step[WebThread] = "none"
  /\ web' = "idle"
  /\ UNCHANGED <<vars, executor, called, hook>>

Chain ==
  \/ DriverStep \/ HookSweeps \/ HookReturns
  \/ \E n \in Node : ToolCalls(n) \/ ToolGivesUp(n) \/ ToolReturns(n)
  \/ WebSweeps \/ WebReturns

StopNext == EngineCalled \/ Chain \/ Executing \/ StopPressed

StopSpec == StopInit /\ [][StopNext]_stopChain

ToolSteps(n) == ToolCalls(n) \/ ToolGivesUp(n) \/ ToolReturns(n)
Handler == WebSweeps \/ WebReturns
Hook == HookSweeps \/ HookReturns
ExecStep(A) == A /\ UNCHANGED <<vars, called, stops>>

\* Every thread of Python runs and the grace periods pass; but no program
\* need ever end by itself, nor a walltime be over soon.
StopFairSpec ==
  /\ StopSpec
  /\ WF_stopChain(DriverStep) /\ WF_stopChain(Hook) /\ WF_stopChain(Handler)
  /\ \A n \in Node :
       /\ WF_stopChain(ToolSteps(n))
       /\ WF_stopChain(ExecStep(Exec!Register(n) \/ Exec!Communicated(n) \/ Exec!Reaped(n)))
       /\ WF_stopChain(ExecStep(signal[n] = "kill" /\ Exec!Exit(n)))
  /\ \A s \in Node \cup {WebThread, HookThread} : WF_stopChain(ExecStep(Exec!Terminate(s)))

Walltimes == \A n \in Node : WF_stopChain(ExecStep(Exec!Expire(n)))

----------------------------------------------------------------------------
\* No engine call leaves a program running behind it, whether it returned,
\* raised or was stopped: whoever drives the run next has the working
\* directories for itself.
NoProgramAfterCall == ~Driving => \A n \in Node : leader[n] # "alive"

\* Why: whoever drives a run waits for its tools, and a tool that is not in a
\* call of the executor has none of its programs left.
CallsInTools ==
  /\ called \subseteq Node
  /\ \A n \in Node : IF n \in called THEN fut[n] = "executing" ELSE at[n] = "out"

StopInv == OrderInv /\ CallsInTools /\ Exec!NothingLeftBehind

\* A stop ends the call that drives the run, at the latest when the
\* walltimes of the programs that escaped both sweeps are over.
StopEndsCall == Walltimes => (event = "set" ~> ~Driving)
=============================================================================
