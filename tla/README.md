# DFT Forge: TLA+ specifications

TLA+ modules, TLC runs and TLAPS proofs for DFT Forge (`src/dft_forge`), an agent that
plans, runs, repairs and records Quantum ESPRESSO calculations. `PROJECT.json` maps every
definition to the lines it models and lists runs, mutants, findings, hazards and theorems.
Paths below are relative to `src/dft_forge/`.

Contents: 1 the system; 2 plan; 3 modules and code; 4 runs; 5 bounds; 6 fairness;
7 what the runs found; 8 proofs; 9 not modelled.

## 1. The system

| Part | State it keeps | Operations | What is hard | What makes it correct |
|---|---|---|---|---|
| Graph runtime (`runtime/`) | a run and its nodes in memory; `graph_runs` and `node_runs` rows in SQLite; a future per dispatched node; a cancel event | `create`, `start`, `resume`, `retry`; the scheduler's tick: block, dispatch, collect, repair, finish, cancel | crashes between two saves; cancels against late results; two loops (threads, asyncio) that should agree | dependency order in memory and in the store; success is final; bounded attempts; every drive ends; verdicts match the nodes |
| Graph templates (`runtime/graph.py`) | none | validate, cycle search | a depth-first search that must find every cycle | accepted templates are acyclic and closed under `depends_on` |
| Local execution (`executor.py`) | registry of live processes under a lock; job status | submit, status, fetch, `cancel_all` | a process launched before it is registered; a timeout racing an exit | nothing of a process group outlives its call; a sweep is deadly; both end |
| Remote execution (`executor.py`, `hpc/`) | job records of a submission; remote queue and files | stage, submit, poll, fetch, `cancel_all` | states that lag behind the remote queue; lost answers | no job is abandoned without a cause; success is earned; calls end |
| QE node tools (`engines/qe.py`, `compiler/`, `src/templates`) | one work directory per node, one `.save` directory per run | six calculations; parameter repair | programs that outlive the process; a directory all nodes share; defaults that the compiler and the repairer choose apart | a result stems from the programs whose success is recorded; repairs strengthen what failed |
| Task runner, verifier, recovery (`runner.py`, `verifier.py`, `recovery.py`) | one work directory for all runs; the records of a `TaskRunner` | `run_t1`, `run_t2_bands`, `run_t2_dos`, classify, plan | files of earlier runs; the success of a program is not looked at; plans are matched by the wording of reasons | a pass rests on the run's own files; a row has its papers; a plan gives up when it should |
| Ledger (`ledger.py`), Agent (`agent.py`) | SQLite history | record, count failures | a crash between a run's files and its row | a row has its papers; failures are counted under their kind |
| Web (`web/`) | sessions in memory and on disk, `WEB_ACTIVE_RUNS` | upload, chat, stream, run action, cancel, delete, settings | worker threads beside request handlers; guards checked and used apart | answered turns are kept; a deletion stays; a stop reaches the run it names |
| Graph tools (`tools/graph_tools.py`) | cached engines | run, status, cancel under a directory | a cache keyed by directory, settings that change during a run | one engine per directory; no engine with old settings |
| Agent loop and planners (`agent_loop/`) | a turn's steps, built structure and energies; the session's context; `last_plan_ir` of the one planner | plan, prepare a step, call its tool, keep what it gave | arguments wired from earlier steps and messages; failed steps that are passed over; one planner for all sessions | a result is about the systems the plan meant |
| Tools (`tools/registry.py`, `tools/definitions.py`) | `sys.stdout` and `sys.stderr` of the process, output files | call a command in a thread and read its answer | one variable for all threads; old output files | an answer is that of its own command |
| LLM client | none | text | | |
| Layout of inputs, parsing of outputs | none | text and floating point | | |
| Structures, catalog | tables | crystallography | | |
| CLI | none | commands that print JSON or write it to a file | | |
| Chat page (`web/frontend/chat.js`, `workspace.js`) | the page's session, transcript, drawing, attachment, list of files, method, approval dialog, two buttons | choose, make, delete a session; upload; approve, send, stop; read a stream | every `await` lets the user go elsewhere; answers come out of order or not at all | all that is shown is of one session; what goes out is what was approved; a stop names its turn |
| MCP server, viewer, charts, settings dialog | none | | | |

The web server or the CLI calls the agent loop, whose graph tools call the engine; the engine's
scheduler calls the QE tools in worker threads; a QE tool submits each program to an executor
and waits; a cancel goes the other way twice, through the cancel event of the scheduler and
through `cancel_all` of the executors. The store is the only thing that survives the process;
sessions survive it as one JSON file each. The browser's page holds the id of one session and draws
whatever the answers to its requests and the events of its streams bring. `TaskRunner` is a second, older way to run a task
beside the graph runtime, over the same executors; it has no loop of its own: its caller runs a
task again, and the recovery actions are only recorded.

The 40 hazards of `PROJECT.json` are the hard behaviours above, each at its line, with the
properties that would fail if it went wrong.

## 2. Plan

Done, in this order:

1. `NodeStates`, `GraphRuntime`: the core, because every calculation the product runs and
   everything a user sees of it goes through its tick and its rows.
2. `RunLifecycle`, the abstract specification of a run, and the refinement.
3. `LocalExecutor`, then `StopChain`, which composes it with `GraphRuntime`.
4. `SSHExecutor`.
5. `WebSessions`: the requests, the store of sessions and the engine cache.
6. `GraphRuntimeProofs`, `LocalExecutorProofs`.
7. `TaskRunner`: the runner with verifier, recovery, ledger and the Agent.
8. `QECalculations`: the node tools, the parameter repairer and the templates.
9. `CommandCapture`, and `AgentLoop`, which composes it with the turns of the chat agent.
10. `ChatPage` with `ChatPageProofs`: the browser's side of the sessions.
11. `SSHExecutorProofs`, `TaskRunnerProofs`, `WebSessionsProofs`: the invariants that explain the
    safety properties of these modules.
12. `GraphRuntimeProofs` again: what the rows say, up to the refinement of `RunLifecycle`; what
    validation is for; `StopChain`, from the theorems of its two parts.
13. `QECalculationsProofs`, `AgentLoopProofs`.

To do, most important first:

1. An abstract specification of a turn, in which each step sees the results before it, for
   `AgentLoop` to implement as long as nothing slips.
2. `QECalculations` composed with the dispatches and repairs of `GraphRuntime`, of which it has a
   reduced copy now, and `ChatPage` with the requests of `WebSessions`, likewise.

## 3. Modules and code

**`NodeStates`** is `runtime/states.py`: the states of nodes and runs, the transition table and
`determine_run_status`.

**`GraphRuntime`** is one run of `runtime/`. `nodes` is the `GraphRun` in the driver's memory,
`saved` and `savedRun` are its rows, `fut` the future of each dispatched node, `pc` and `todo`
the driver's place in the tick and what its current pass has left, `event` the cancel event.

- *Engine calls.* `Start`, `Resume`, `Retry` (with `RetryReset`, `RetryRefused`, `RetryCommit`)
  load the run afresh. `Resume` resets in-flight nodes in memory only and passes no event, as
  the code does. That one call is in progress at a time is an assumption on the callers: nothing
  in `runtime/` ensures it, and `WebSessions` shows how far the web server does (`GuardsHold`).
- *The tick.* `Schedule` (`process_blocked`, then the ready nodes within the free slots),
  `Dispatch`, `Collect`, `FinishSucceeded`, `FinishFailed`, `BeginRepair`, `Repair`,
  `Collected`, `Settle`, `NextTick`, and on a cancel `CancelBegin`, `CancelNode`, `Pause`,
  `Leave`. Steps are cut at every write to the store, since `Crash` can come between any two.
- *The two loops.* `UseAsyncio` chooses `run_async` or `_run_threaded`; they differ in when
  they wait and when they look for the end (`Collect`, `Collected`).
- *Around it.* `ToolEnds`, `RequestCancel`, `Crash`. A crash also stands for an exception of a
  store write that escapes the loop.
- *Templates.* `ValidTemplate` is what `GraphTemplate.validate` accepts, as an assumption on the
  constants. `Acyclic` says what the search of `_detect_cycle` establishes, without the search.
- *Data.* Parameters are `resolved` or not and carry a number of repairs (`tweaks`); outputs
  are full, or lack a key that another node refers to. The guard of `_finish` on terminal nodes
  cannot fail within this scheduler and is not a branch here. `retry` walks its targets in the
  order they were given: the model allows every order.

**`RunLifecycle`** is what a reader of the rows is promised: phases and a verdict.
`GraphRuntime!LifecycleSpec` is the refinement mapping over `saved` and `savedRun`.

**`LocalExecutor`** is `LocalExecutor` of `executor.py`. Per worker thread: the leader of its
last process group, a forked `child` that holds the pipes, the strongest `signal` sent, where
the thread is in `_run_tool`. `CancelAll` takes the snapshot of the registry; `step`, `aim` and
`batch` are the progress through `_terminate_group`, used by cancellers and by a worker whose
walltime has passed. The order of a snapshot is left open; pids are not reused while a thread
still waits for them.

**`StopChain`** composes `GraphRuntime` and `LocalExecutor` (an instance with one worker per
node) with `cancel_session` of the web server and the scheduler's `on_cancel`: `StopPressed`
sets the event, `WebSweeps` and `HookSweeps` are the two sweeps, `ToolCalls` and `ToolReturns`
connect a future to a program.

**`SSHExecutor`** is `SSHExecutor` of `executor.py` over `hpc/scheduler.py`, in three modes.
`record` and `sched` are the registry of job records, which threads share without a lock;
`remote` is the truth on the other side, and `Words` what the schedulers call it, of which `StatusOf`
is all the code understands: a state that is no key of `STATUS_MAP`, and those of a job that waits to
run again, end the polling of a live job (`misread`). `RunTool` and the steps after it are the blocking
call; `Stage`, `Submit`, `AskStatus`, `Fetch`, `Cancel` the client's interface; `CancelAll`,
`Scan`, `SendCancel`, `MarkCancelled` the sweep, whose order is that of the registry. The `pkill -f`
of a direct run finds the shell whose command line names the directory; the program may go on.

**`WebSessions`** is `web/__init__.py` with `tools/graph_tools.py`. A request is a record with
a program counter. `loop` names the request that holds the event loop over several steps; sync
handlers and everything behind `to_thread` interleave, one step for each look at shared state.
`objects` are session objects, since two may exist for one id; `memory`, `disk`, `folder`,
`active`, `stopped`, `cache`, `settings` are the module's globals and files. A turn is the
number of its request; requests are numbered by arrival and each remembers its `peers`, those
in flight when it arrived, so that properties can say "overlapped". `_load_session` called on
the loop is one step. Left out: a request's own `structure_path`, the changes tools make to the
ctx, a `stop` whose sweep meets a concurrent insert, the scheduler's own sweep (in `StopChain`).

**`TaskRunner`** is the runner with `verifier.py`, `recovery.py`, `ledger.py` and `agent.py`. `cur`
is the run in progress, `lives` the TaskRunner object and its number of records, `disk` the one
work directory, whose files carry the number of the run that wrote them, `rows` the ledger.
`Begin` and `AgentBegins` are the two front doors; `Relax`, or `Scf`, `Nscf` and `Tool`, the
programs with the checks made of their outputs; `Judge` the classification and the plan;
`OpenEvidence`, `WriteEvidence`, `OpenResult`, `WriteResult` and `RecordRun` what is kept, in that order:
`write_text` truncates a file before it writes it, so that a crash in between leaves it empty. Of a
plan only its action matters: what it adjusts is recorded and read by nobody in `src/`.

**`QECalculations`** is `engines/qe.py` over one run of one of the templates. A node has its
`params`, with 0 for null, and the number of its `program`; `InputOf` is what the compiler makes
of them; `programs` are alive, or ended and not yet collected, and `late` once their process has
died; `save` is the `.save` directory to which every link of a run resolves, `product` the files of
dos.x and projwfc.x. `Dispatch`, `Return`, `Crash`, `Resume` and `Retry` are the engine reduced to
what the tools see: slots and cancels are in `GraphRuntime` only. `Category`, `RepairedParams`
and `AfterFailure` are the way from an error to a repair.

**`CommandCapture`** is `_call_cmd` of `tools/definitions.py` with the printing helpers of `cli.py`.
`target` is where `sys.stdout` leads, `saved` what each call will put back, `heard` what has been
printed into a call's buffers, `written` its output file. A buffer nobody reads any more is `Dead`;
what is printed there is lost. `Answers` prefers the file, then a result, then an error, as
`_call_cmd` does; among several results any may be the largest. The two streams are changed by
two statements in a row, here by one step. `mixed` is history.

**`AgentLoop`** is `run_session` with `step_prep.py`, `result_views.py` and the planners. A session is
a caller of `CommandCapture`, has one turn at a time, and its `turn` holds what the function's local
variables hold: the copy of the context, the plan's steps, the `built_structure`, the
`scf_energies`. `Start` to `Begin` are the planning, cut at the `await`s, with `last_plan_ir` of
the planner all sessions share; `Launch`, `Abort`, `Notice`, `CallCommand` and `Underfed` prepare
a step; `Finish`, `Compare`, `RunCommand` and `ReturnCommand` are a tool's end and what is kept of
it; `Break` an exception outside the `try`; `End` the merge into the session. A structure, an energy
and a record of the ledger are represented by the system they are of. A step also says which systems
the plan `means`: the code does not know, and only properties look at it. The context is a copy
but its ledger is the session's own list until the first success of the turn (`shared`). Whether a
provider is configured, and which workflow it plans, is left open. The five structure tools
are one; each session has its own directory, so that a command's file is its session's.

**`ChatPage`** is the browser's page. Its one thread runs a handler up to the next `await`: an action
is what lies between two of them. `asks` are the requests without an answer yet, each with the
session it is about, answered in any order or, for loads, lost; `message` holds every message of
the user from the approval dialog (`Submit`, `Confirm`, `Dismiss`, `Escape`) over the request and its
stream (`Post`, `StreamOpens`, `StreamStarts`, `FigureArrives`, `StreamEnds`, `Refused`, `StreamBreaks`) to
`finish()`. `ClickSession`, `NewSession`, `DeleteSession`, `UploadStructure`, `RunAction`, `StopPressed` and their
answers are the rest of the page. `running`, `uploads`, `latest`, `listed` are the server as far as the
page can tell: one turn per session, uploads that belong to a session, the latest answer. A
transcript, a drawing, an attachment and a list are represented by the session they are of.
`listings` are the lists of files and runs on their way (`Refresh`, `Listed`, `ListFails`): whatever comes
is drawn, in whatever session the page is by then. `method` is the accuracy and the custom inputs
(`ChooseAccuracy`, `EditInputs`), which the rows of the dialog show (`View`) and the send reads again
(`RunConfig`). `owed` are the messages with a drawing left in the queue of a turn that is over.
`disturbed` is history: an answer, a stream or a click came where the page was not at rest; so is
`misfiled`: a list was out when its session was left, or failed.

`MCGraphRuntime`, `MCStopChain`, `MCWebSessions`, `MCTaskRunner`, `MCQECalculations`, `MCAgentLoop` and
`MCChatPage` hold the templates, the plans and the constraints of the runs; the modules whose names
end in `Proofs` hold the proofs. A definition named `X_Word` next
to `X` is `X` with a plausible fault: TLC refutes the property in its comment when it replaces `X`.

## 4. Runs

Passing runs:

| Run | Instance | Shows |
|---|---|---|
| `GraphJoin` | two nodes and one that needs both, asyncio, 3 calls, 2 crashes | `DependencyOrder` in memory and store; `StoreKeepsUp`: what the store lacks at a tick is what resume resets or blocking derives; `AttemptBudget`: repairs and cut-short drives excepted, no more than `max_attempts`; `SucceededForever`; the refinement of `RunLifecycle` |
| `GraphLive` | two nodes before the root both need, one slot, threads, tools that need not end | `BlockedHasCause`; `DriverStops`: a drive that starts without in-flight rows ends; `PromptCancel`: a cancel is acted on though no tool ends |
| `LocalExecutor` | two workers, programs that fork and ignore SIGTERM, a sweep | `NothingLeftBehind`, `SweepIsDeadly`, `CallReturns` |
| `StopChain` | two independent nodes in one slot, one call, a stop | `NoProgramAfterCall`, `StopEndsCall` |
| `SSHExecutor` | two jobs, three modes, a client, a sweep, lost commands, requeued jobs and words the adapters do not know | `OrphanHasCause`: why a program may go on after its call; `SuccessIsEarned`: what a reported success is worth; `CallEnds` |
| `WebSessions` | three requests of any kind, two sessions, a restart | which requests may drive one session at a time (`GuardsHold`), what an answer is worth (`AnsweredIsKept`), that a deletion stays (`DeletedStaysGone`), whose stop reaches a turn and its programs (`StopHitsItsTurn`), what a sweep finds (`SweepFindsTheEngine`), stale engines (`StaleEngineHasCause`), the registry (`EntryIsLive`) |
| `TaskRunner` | a relaxation and a density of states, three runs, a crash | `StaleHasCause`: when a pass rests on the files of an earlier run; `PaperTrail`: evidence and result are there and whole before the row, and who may have cut them short since; `FailuresAreCounted` under the stage that failed; `GiveUpHasCause`: after how many rows of its TaskRunner a plan gives up |
| `QECalculations` | six requests over the four templates, six programs, three calls | `LineageHasCause`: a result stems from the programs whose success is recorded, unless one outlived its process; `AxisHasCause`: when the axis of a plot fits the eigenvalues; `RepairsStrengthen`: measured on the next input, for defaults of 40 and 60 Ry |
| `AgentLoop` | a session with two messages, each one of four workflows, beside one with one | `WrongResultHasCause`: a result is about the systems the plan meant unless a build, a run or an answer went wrong before it in the turn; `ForeignPlanHasCause`: whose plan a context keeps; `SoloCallIsExact`: what a command that runs alone is heard to say |
| `ChatPage` | two messages and two other clicks on a page with two sessions and one to be made, answers in any order | `PageIsOfOneSession`: when all that is shown, lists included, is of the page's session; `FigureIsOfTheRequest`; `StructuresStayHome`: with whose structure a turn computes and when a message is refused; `ApprovedAsSeen`: a message goes out as its dialog showed it, method included; `ControlsMatch`: what the two buttons are worth; `StopNamesItsTurn` |

Several properties of `SSHExecutor`, `WebSessions`, `TaskRunner`, `QECalculations`, `AgentLoop` and `ChatPage` name their
exceptions ("unless a view overlapped"). The exceptions are behaviours of the code; TLC exhibits the following when they
are removed: a view that replaces the session object loses a turn, a chat puts a finished stream's
cancel event back, `run_action` and `chat` drive a session without registering, an engine built
across a change of settings stays stale, a load between the pop and the rmtree brings a deleted
session back, the late answer to a first click puts its transcript into the session of a second, a
late list its files, a job held for a requeue is given up as failed, and the first bump of a node
whose material has a default of 60 Ry lowers it. The properties say that nothing else can cause the same harm.

The passing runs check the type invariants of `GraphRuntime` only; those of `LocalExecutor`, `SSHExecutor`,
`TaskRunner`, `WebSessions`, `ChatPage`, `CommandCapture`, `QECalculations` and `AgentLoop` are proved, alone or as
conjuncts of an invariant (section 8).

The two violation runs are in section 7.

## 5. Bounds

Every unbounded counter is capped by a constant in a guard: `MaxCalls` and `MaxCrashes` in
`GraphRuntime`, `MaxLaunches` in `LocalExecutor`, `MaxJobs` in `SSHExecutor`, `MaxRequests` and
`MaxRestarts` in `WebSessions`, `MaxRuns` and `MaxCrashes` in `TaskRunner`, `MaxPrograms` and
`MaxCalls` in `QECalculations`, the messages of `PlansOf` in `AgentLoop`,
`MaxMessages` and `MaxClicks` in `ChatPage`. Systems stop when their calls are used up, so deadlock is not
checked; where something must go on, a liveness property says so.

- *Graphs.* Three nodes are the least with a join, a fork and a chain in each listing order.
  Three calls and two crashes allow start, crash, resume, crash, retry. `GraphJoin` gives one
  node two attempts, repairs to two nodes and lets one omit an output that another refers to.
- *Executor.* Two workers and one canceller: the sweep has a batch of two, and meets a walltime
  of each worker. The proofs lift the bounds.
- *Stop.* One slot, two nodes one after the other, one of them repairable: programs dispatched
  after the stop exist, and the instance stays below 300 000 states; with two slots TLC had not
  finished after two million.
- *Remote.* Two jobs let a second one find the files of the first; one caller and one
  canceller suffice because callers share nothing but the registry.
- *Web.* Three requests: the exceptions named in section 4 take two or three, but for the chat
  of `StopHitsItsTurn`, which takes four (a stream, a chat, a stop and a later turn). Random
  simulation of five requests found nothing further. Two sessions are enough to tell a request
  on a session from one on another; `FirstIsS1` uses that they are interchangeable.
- *Task runner.* Three runs in one directory: the scf, the nscf and the product of a pass may come
  from three different runs, which is the longest chain `StaleHasCause` speaks of. One crash
  separates any two writes, and the truncation of a file from its writing; `MaxAttempts` of 2 is
  reached within the three runs, by passes and by another task's. Bands and DOS differ in the name of a file only, so one stands for both.
- *Calculations.* Six programs are a chain of three with three repairs, or with a crash and the
  repetition of what it cut short. The inputs are at the limits of the repairs: a cutoff of 115
  Ry (one bump to the cap), a mesh of 5 (one halving to the floor), too few bands, a path of 100
  points (two cuts), and null everywhere. The defaults of the materials lie between 20 and 60 Ry: a
  request has 40, below the repairer's own 45 Ry, or 60, above its first bump to 55 (section 7).
- *Agent.* Two messages in a session let the second one meet what the first left: a structure, a
  ledger, a file. The workflows are those of the planners, with one element in place of several.
  `LedgerSize` is 2 where the code has 20, so that records drop out. The other session
  needs one message to overlap a command and to plan between the two halves of a planning.
- *Page.* Two messages overlap, or one finds what the other left; two clicks are an upload and a
  change of session, or two changes answered out of order. Of the sessions one has an upload and a
  drawing, one has none, one is made on the way: the cases that `restoreAttachment` and
  `restoreFigures` tell apart. `FirstResearch` lets the first message need an approval and the second
  not. One accuracy is "custom", with inputs left blank or typed; another stands for the rest.
  `Bounded` allows a page in disorder, or with a list out of place, two steps of the user in all,
  since the properties say little about it; it opens the page with the custom accuracy and lets
  it be changed only within the first three steps. The proofs lift all of these.

## 6. Fairness

- `DriverFairSpec`: the driver is a running Python thread. `ToolFairness` (tools end) is an
  assumption inside `DriverStops` alone, and holds in the code by the walltimes of the
  executors; `PromptCancel` does without it.
- `LocalExecutor!FairSpec`: threads run, grace periods and walltimes pass. Programs need not end
  by themselves; `CallReturns` assumes that SIGKILL works and says so (`KillWorks`).
- `StopFairSpec`: threads and handlers run, a killed program dies; `Walltimes` is an assumption
  of `StopEndsCall` alone.
- `SSHExecutor!FairSpec`: fair are the steps that a timeout of ssh or the polling deadline
  brings about, never an answer of the scheduler.
- `WebSessions`, `TaskRunner`, `QECalculations`, `AgentLoop` and `ChatPage` have no liveness property: they
  wait for other parts, or for the user, only.

## 7. What the runs found

Disagreements of the code with its own comments and documents, one violation run each:

| Run | The code | The text |
|---|---|---|
| `GraphRepairLostViolation` | a resume resolves the parameters again and drops repairs, but keeps their count (`runtime/scheduler.py:251`) | "re-resolution is a no-op but keeps resume honest" |
| `AgentMaterialViolation` | a step that names a material runs on the structure of an earlier message or of an upload (`agent_loop/step_prep.py:156`) | "a structure built earlier in this plan is authoritative" |

Met while reading, visible in the modules, without a run of their own:

- `start()` and `retry()` of a run stored with in-flight rows spin for ever (`runtime/engine.py:115`):
  only `resume()` resets such rows, hence the condition of `DriverStops`.
- `cancel_all` between `sbatch` and the recording of the job id marks the record cancelled and
  kills nothing, and the call polls the live job on (`executor.py:647`; `OrphanHasCause`).
- A program between `Popen` and its registration escapes a sweep, and when both sweeps of a stop
  come in between, the stopped call waits for it until its walltime (`executor.py:375`;
  `StopEndsCall` needs `Walltimes`).
- A program killed by a stop may be collected as any other failure, repaired and counted
  (`runtime/scheduler.py:326`), so that a stop may cost a node a repair.
- `blocked` is never saved (`runtime/scheduler.py:79`): readers of the store see `pending`
  (`StoreKeepsUp` allows for it), and a default retry of a blocked node finds none.
- `run_async` looks at the cancel event only after a task has completed
  (`runtime/scheduler.py:224`); `PromptCancel` therefore holds, and is checked, for the threads only.
- A node cancelled with its run is revived by neither resume nor the default retry
  (`runtime/store.py:166`).
- An unresolvable reference leaves the run `running` (`runtime/scheduler.py:252`; `ResolveFails`).
- Results that are in when a cancel is seen are dropped (`runtime/scheduler.py:156`).
- Any negative return code counts as cancelled (`executor.py:418`; `Outcome`), and the group gets
  SIGKILL only if its leader survived SIGTERM (`executor.py:424`; `CallReturns` excepts a child).
- A direct remote run without an exit marker is a success; a download that brings nothing falls
  back on a stale `.out`; PBS calls every finished job completed; `status()` may store
  `pending`, which hides a job from `cancel_all` (`SuccessIsEarned`, `OrphanHasCause`).
- A scheduler state that is no key of `STATUS_MAP` is a failure (`hpc/scheduler.py:114`, `hpc/scheduler.py:154`), and so
  are those of jobs that wait to run again, `NODE_FAIL` and `PREEMPTED` (`hpc/scheduler.py:56`): the call
  ends as failed and the job runs on (`misread` in `OrphanHasCause`).
- The `pkill -f` of a direct run names the directory (`executor.py:653`), which stands in the command line of the
  shell and not in that of the program: the program may outlive its cancel, while the
  broken connection, without an exit marker, counts as its success (`executor.py:837`).
- `TaskRunner`: a tool's own success is ignored, so the product of an earlier run in the directory
  passes; an scf killed between its convergence marker and its save lets the nscf use an older
  density; a pass is recorded with kind `unknown` and the action `retry`; `give_up` counts passes and
  runs of other tasks; a plan starts from `task_spec.parameters` and not from those of the attempt
  before (`runner.py:137`, `runner.py:264`), so that a second one repeats the first, and nothing in `src/` runs
  one; a crash inside `write_text` empties the evidence or the result that the row of an earlier run
  in the directory points to (`PaperTrail`); rows of the Agent have no kind and are never counted; the runners pass no
  `kmode`, so the nscf of a density of states is sampled along the band path and `kpoints_nscf`
  changes nothing, like other adjustments of parameters the failed stage does not read; job timeouts and tool failures are kinds nothing can reach.
- `QECalculations`: the eigenvalues of a plot have fewer points than its axis after a timeout
  repair of the nscf, or when the number of points is null (60 against 100); a repair of a bands or
  DOS node raises a cutoff that their programs do not read; an scf that was repaired and its nscf run with
  different cutoffs; what bands.x writes is read by nobody; dos.x may end well without a file
  and an older one is then taken; after a resume the inputs' parameters return.
- The first repair of a calculation without a cutoff of its own starts from 45 Ry
  (`engines/qe.py:495`), the compiler from the material's default (`compiler/__init__.py:732`), which is
  60 Ry for ten materials: the "safe, monotone" adjustment "(higher cutoff)" (`engines/qe.py:470`) then
  goes down to 55 Ry. `RepairsStrengthen` excepts this bump and nothing else; both sides are in
  the run, and without the exception TLC finds the bump from 60 Ry.
- `AgentLoop`: after a build that failed the next calculation runs on the structure built before it,
  although `step_prep.py:179` means to prevent that; after a run that failed the thermochemistry takes
  the energies that happen to be at the places it looks at; the 0.0 of an nscf node is one of them
  (`result_views.py:210`). A turn that an exception ends outside the `try` leaves its first record in
  the session's ledger and nothing else. An error of `compile_plan` and a success criterion the
  model supplies share one field, so that such a plan is rejected (`planning.py:51`).
- `CommandCapture`: of two commands that overlap, one may hear the other, and `sys.stdout` may be left
  leading to a buffer nobody reads (`tools/definitions.py:76`); a failed import answers with the file
  of an earlier one (`tools/definitions.py:87`).
- `ChatPage`: the answer to `loadSession` is written over whatever the page is in by then
  (`chat.js:280`), and a list of files later still (`workspace.js:194`). A session whose latest answer has no structure keeps the drawing of the one before
  (`chat.js:221` says that figures are scoped to the latest turn), and a session without an upload keeps
  its attachment, so that the next calculation is refused (`workspace.js:237`). Escape closes the
  approval dialog but leaves its message pending, and a later dialog then sends the earlier message
  (`workspace.js:86`). A stop cancels the session the page is in by then, and does nothing
  in a new session before "start" (`chat.js:360`); the first of two overlapping streams to end hides the
  stop button of the other (`chat.js:380`). A run action or an upload lists the files of a session that was
  left meanwhile (`workspace.js:120`, `workspace.js:224`). After a lost stream the session refuses messages
  until its turn ends, and no stop button is shown. Custom inputs may be edited in the dialog under rows
  that are not drawn again, and go out as edited (`workspace.js:93`); the numbers of bands and of
  points on a path are in no row (`workspace.js:56`).
- `run_action` and `chat` may drive a session beside a stream (`GuardsHold`), and the settings
  can change while they do.

## 8. Proofs

TLC checks the instances of section 4; the following hold for every value of the constants
that satisfies the modules' assumptions (which TLC evaluates on every run).

**`GraphRuntimeProofs`**, for every template, number of slots, handler set and bound, both loops:

- `TypeCorrect`: `Spec => []TypeOK`.
- `OrderInvariant`: `Spec => []OrderInv`. `DependencyOrder` alone is not inductive: that a node may
  be dispatched rests on what the driver's place says of `todo` (`PassIsSound`); that a result
  may make a node succeed rests on its future belonging to a running node (`FutureIsRunning`);
  that it holds again after a crash rests on memory and store agreeing on which nodes have
  succeeded (`SameSuccesses`). `OrderInv` joins them.
- `DependenciesFirst`: `Spec => []DependencyOrder`.
- `SuccessIsForever`: `Spec => SucceededForever`, from the same invariant: only `SaveNode`
  writes a row, and no caller of it has a succeeded node in hand.

- `StoreInvariant`: `Spec => []StoreInv`, which adds to `OrderInv` what memory and rows share
  (`MemoryInv`: all but the state of a node, and that too unless a resume made it pending or a pass
  blocked it), why a node is blocked and that a dispatched one has its dependencies (`BlockInv`), and that the
  row of a driven run says so (`RunInv`). Each action is first reduced to `Saves(n, r)`, a load, a
  resume, a blocking pass or rest (`StepIs`); the invariants are proved of these five.
- `StoreNeverLags` (`StoreKeepsUp`) and `BlockedForAReason` (`BlockedHasCause`) follow.
- `AttemptsAreBounded`: `Spec => []AttemptBudget`. Not inductive: a row from which a node can be
  dispatched must leave `Room` for one more, also after a crash dropped the future of a running
  node, which is what `crashes` and `raises` pay for; `BudgetInv` says so for every place of the driver.
- `RowsImplementLifecycle`: `Spec => LifecycleSpec`. Dispatch maps to `Activate`, or to a stutter when the row of a
  resumed node still says that it runs; results and cancels to `Retire`; a reset to `Revive`; the end
  to `Close`, where `BlockInv` gives every waiting row a dependency that will not be done.

- `NobodyWaitsForNothing`: `Spec => []PendingCanMove`: where nodes are pending and none is in flight, a node
  is ready or the next pass of `process_blocked` marks one, so that the loop always has something to do. It is
  what `validate` looks for cycles for, and the only theorem that uses `Acyclic`: nodes on a cycle
  would never be dispatched, and the drive would spin. That a drive does end is `DriverStops`,
  which TLC checks.

`StopChain`, for every template and bound, from the theorems of the two modules it composes:

- `ChainRunsExecutor`: `StopSpec => Exec!Spec`, and `ChainRunsGraph`: `StopSpec => Spec`. A run whose programs are
  watched by handlers and hooks is a run, and its programs are those of `LocalExecutor`; what is proved of
  either holds of the composition.
- `StopInvariant`: `StopSpec => []StopInv`. Neither part knows that a worker thread of the executor is a tool
  of the scheduler: `CallsInTools` says that a worker is in a call only while the future of its node is
  under way. With it a step of the executor alone is a stutter of the scheduler, and a tool
  returns only when its call has.
- `NoProgramSurvives`: `StopSpec => []NoProgramAfterCall`. When the engine call is over no future is under way
  (`FutureIsRunning`), so no worker is in a call (`CallsInTools`), and what is out of its call has no
  program (`NothingLeftBehind`).

**`LocalExecutorProofs`**, for every number of workers and cancellers, with or without forks:

- `SweepInvariant`: `Spec => []SweepInv`. `SweepIsDeadly` speaks of the end of all sweeps; the
  invariant says at every moment who is still going to kill what a sweep saw (`KillIsDue`: some
  canceller has it in its batch or in its grace period), and that a canceller gives up on a
  living target only after SIGKILL (`KillIsSent`).
  The types (`TypeOK`) are part of it.
- `NoneLeftBehind`: `Spec => []NothingLeftBehind`.
- `SweepsAreDeadly`: `Spec => []SweepIsDeadly`.

**`QECalculationsProofs`**, for every request, default cutoff and bound, over the four templates:

- `QEInvariant`: `Spec => []QEInv`, the conjunction of the types (`TypeOK`), the programs there can be
  (`ProgramsInv`: a node that runs or has succeeded has its dependencies, and a program its caller still waits for is
  the one its node knows of, on the input of the node's parameters), `LineageInv` and `PathInv`.
  `LineageHasCause` and `AxisHasCause` speak of a result that is reported. What makes them hold is older: what
  the program of a node has written is in the `.save` directory from then on, through the node's success and
  whatever is dispatched after it, unless a `late` program overwrites it (`HasWritten`); and every path that parameters,
  programs or eigenvalues can have is the request's or one cut by a repair (`OnThePath`).
- `TypeCorrect`, `Lineage` (`LineageHasCause`), `Axis` (`AxisHasCause`).
- `Repairs`: `Spec => RepairsStrengthen`, for every default: the first bump of a node without a cutoff of its
  own is the exception the property names, exactly where the default is not below 55 Ry (section 7).

**`AgentLoopProofs`**, for every set of sessions, plans, systems and size of the ledger:

- `SoloCalls`: `CaptureSpec => []SoloCallIsExact`, with the types. A call that no other overlapped has
  the streams, and hears itself only. With `SoloCallIsExact` for all callers at once the conjunction
  is inductive: a second call makes both `mixed`, and what is left of `saved` by mixed calls
  does not matter to a new one, which takes the streams whatever they lead to.
- `AgentInvariant`: `Spec => []AgentInv`: the types of turns, contexts and ledgers, that a turn which works is at a
  step of a plan for its message (`TurnGood`), and that whatever is within reach of a call, in a buffer or a file,
  was printed for a step that is over, or just now for the one its caller is at (`Past`). `TypeCorrect` follows.
- `AgentCaptures`: `Spec => CaptureSpec`; `SoloTurns`: `Spec => []SoloCallIsExact` for the calls of turns.
- `ForeignPlan`: `Spec => []ForeignPlanHasCause`, from `PlanInv`: whose plan `last_plan_ir` is at each place
  of a planning, for all sessions at once.
- `WrongResult`: `Spec => []WrongResultHasCause`, from `LinkInv`. As long as nothing has gone wrong in a
  turn it is `OnTrack`: the built structure is of the last build, the energies are those of the runs of the plan so
  far in their order, and the ledger ends with them (`InHand`); what the step
  under way was given, and a result, are about what they mean.

Two hypotheses are stated with the theorems that need them. `PayloadsSuffice`: the parameter `Payloads` of
`CommandCapture` contains what the commands of the agent print, which the run gives it exactly.
`PlansLinked`, of `WrongResult` alone: a run that names no material follows the build of what it means, and
energies are combined in the order of the runs before them. The workflows of `rule_planner.py` are so, and TLC
evaluates it on the plans of the run. A plan of an LLM need not be, and a comparison of two results of earlier
messages is not either, since its plan does not say what they are of: nothing is claimed for these.

**`SSHExecutorProofs`**, for any callers, cancellers, jobs and schedulers:

- `RemoteInvariant`: `Spec => []SSHInv`. A job is one caller's (`JobsInv`); what there is of it on the remote
  side at each place of the call (`RemoteInv`); a job that a client's `fetch` would give up is over, lost,
  misread, or told of by its record (`HeldInv`); a cancel aims at a registered job (`CancelInv`).
- `OrphansHaveCauses`, `SuccessesAreEarned`: `Spec => []OrphanHasCause` and `Spec => []SuccessIsEarned`.

**`TaskRunnerProofs`**, for every catalog, `max_attempts`, number of runs and crashes:

- `RunnerInvariant`: `Spec => []RunnerInv`: types (`RunnerTypes`), nothing in the directory is of a later run
  and of the present one only what its stages have come to (`DiskInv`), what a verdict was judged from
  (`JudgeInv`), that a row is such a verdict (`RowsInv`), and which papers are on disk and whole, or cut short
  by a run that has no row (`PaperInv`). A
  row cannot be judged again when it is written, hence the properties of rows are first properties of verdicts.
- `StaleEvidenceHasCause`, `RowsHavePapers`, `LedgerCountsFailures`: three of the four properties of the run.
- `PlansGiveUpByCount`: `Spec => []GiveUpHasCause`. The code counts `run_records` in memory, the property rows in
  the ledger: `CountInv` says that a TaskRunner has a record for each of its rows and for a verdict that waits for its
  row, which is an argument about cardinalities.

**`WebSessionsProofs`**, for any sessions, number of requests and restarts:

- `WebInvariant`: `Spec => []WebInv`, the conjunction of `BasicInv` (types, the places of each kind of
  request, which requests overlap), `LiveInv` (the registry names the streams in flight),
  `GuardInv` (who holds a guard), `EnginesInv` (what the cache and the four steps of an engine's
  construction can hold), `EventInv` (where a cancel event can be), `SweptInv` (whom a sweep
  killed), `KeptInv` and `GoneInv`. The last two are about all copies of a session, in memory, in the hands of
  requests and on disk: every copy has an answered turn that nothing excuses, and no copy
  has one from before a deletion that nothing crossed. `CopiesFollow` and `DiskFollows` show that a new
  copy or file is an old one with at most a turn more, whatever the step.
- `EntriesAreLive`, `RunsAreGuarded`, `StopsHit`, `AnswersAreKept`, `DeletionsLast`, `SweepsFindTheEngine`,
  `StaleEnginesHaveCauses`: the seven properties of the run.

**`ChatPageProofs`**, for any sessions, number and kinds of messages, and clicks:

- `PageKeepsItsInvariant`: `Spec => []PageInv`: what a message in each state has (`MessageInv`), the server
  (`ServerInv`), whose promise a dialog would settle (`PendingInv`), that its rows show the method as long as nothing is
  edited under them (`MethodInv`) and that nothing else happens under a dialog opened on a page at
  rest (`DialogInv`), the buttons (`ControlsInv`), what a calm stop is for (`StopInv`), and
  `Orderly`: on a page that is not `disturbed` whatever is under way is of the page's session, the lists as
  long as the page is not `misfiled`. That is why
  the history variables are needed: a page at rest may show two sessions because of
  something that has long been answered.
- `PageStaysOfOneSession`, `FigureStaysOfTheRequest`, `StructuresAreAtHome`, `MessagesAreApprovedAsSeen`,
  `ControlsFollow`, `StopsNameTheirTurn`: the six properties of the run.

Only model-checked is liveness: fairness and ENABLED are out of the provers' reach (`DriverStops`, `PromptCancel`,
`CallReturns`, `CallEnds`, `StopEndsCall`). Every invariant and every other action property of the passing
runs is a theorem. Facts that need induction over data, or RECURSIVE definitions, would be model-checked as
well; no module here has one.

## 9. Not modelled

- *Graph templates*: the depth-first search of `_detect_cycle`, whose result is `Acyclic`; the loading of the files
  and the syntax of references.
- *Not planned*: what planners make of words and the LLM client (text), the layout of inputs and the parsing of
  outputs (text and numbers), structures and catalog (floating-point crystallography and tables), job
  scripts (text), the CLI's arguments, the MCP server, the protocol classes, and of the
  browser frontend the viewer, the charts and the settings dialog (presentation around the other parts).
- *Within modelled parts*: wording of messages, paths, logging; the LLM settings, artifacts and
  read-only listings of the web server; the input, job, status, parse and ledger steps of a turn, its
  narration and the material's default path density; what SQLite does with a database whose directory was
  removed (`web/__init__.py:727`); the exchange of `.save` directories with a remote host.
