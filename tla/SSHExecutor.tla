---------------------------- MODULE SSHExecutor ----------------------------
(***************************************************************************)
(* SSHExecutor of executor.py over the adapters of hpc/scheduler.py: calls *)
(* that upload a working directory, run a program on the remote side       *)
(* through Slurm, PBS or a direct ssh command, and download what it left;  *)
(* the stage, submit, status, fetch, cancel interface over the same steps; *)
(* and cancel_all, which other threads call.                               *)
(*                                                                         *)
(* The threads share the registry of job records without a lock.  Any ssh  *)
(* command may fail, or time out after it had its effect.                  *)
(***************************************************************************)
EXTENDS Naturals, FiniteSetsExt

CONSTANTS
  Caller,       \* threads with a working directory each, one call at a time
  Canceller,    \* threads that call cancel_all
  Modes,        \* the values of `scheduler`: "slurm", "pbs", "none"
  MaxJobs       \* bound: jobs in a behaviour

ASSUME ActorsAssumption == Caller \cap Canceller = {} /\ MaxJobs \in Nat
ASSUME ModesAssumption == Modes \subseteq {"slurm", "pbs", "none"}

Job == 1..MaxJobs
NoJob == 0

VARIABLES
  mode,       \* the executor's scheduler
  record,     \* record["state"] of each job in the registry
  sched,      \* the jobs whose record has a scheduler_job_id
  remote,     \* what has become of each job on the remote side
  lost,       \* jobs one of whose commands lost its answer
  misread,    \* history: jobs taken for over, by the scheduler's word, while they were not
  job,        \* each caller's job
  at,         \* where each caller is
  tool,       \* the program each caller's job runs
  out,        \* whose .out file is in each caller's directory, and is it complete
  result,     \* how each caller's last call ended
  cancel,     \* where each thread is in cancel_all or cancel
  aim,        \* the job it is cancelling
  known,      \* TRUE: it has read a scheduler_job_id for it
  batch       \* the jobs a cancel_all has yet to look at

registry == <<record, sched>>
callers  == <<job, at, tool, out, result>>
sweep    == <<cancel, aim, known, batch>>
remoting == <<mode, record, sched, remote, lost, misread, job, at, tool, out, result, cancel, aim, known, batch>>

Actor == Caller \cup Canceller
Status == {"pending", "running", "completed", "failed", "cancelled", "timeout"}
TerminalStatus == {"completed", "failed", "cancelled", "timeout"}
Registered == {j \in Job : record[j] # "none"}

Alive == {"queued", "requeued", "running"}
Live(j) == remote[j] \in Alive
Ended == {"done", "error", "killed"}

----------------------------------------------------------------------------
Init ==
  /\ mode \in Modes
  /\ record = [j \in Job |-> "none"]
  /\ sched = {} /\ lost = {} /\ misread = {}
  /\ remote = [j \in Job |-> "absent"]
  /\ job = [c \in Caller |-> NoJob]
  /\ at = [c \in Caller |-> "out"]
  /\ tool = [c \in Caller |-> "pw.x"]
  /\ out = [c \in Caller |-> [of |-> NoJob, done |-> FALSE]]
  /\ result = [c \in Caller |-> "none"]
  /\ cancel = [s \in Actor |-> "none"]
  /\ aim = [s \in Actor |-> NoJob]
  /\ known = [s \in Actor |-> FALSE]
  /\ batch = [k \in Canceller |-> {}]

\* A job enters the registry, with an id and a remote directory of its own.
NewJob(c, place, state) ==
  /\ at[c] = "out"
  /\ \E j \in Job \ Registered :
       /\ \A i \in Job \ Registered : j <= i
       /\ job' = [job EXCEPT ![c] = j]
       /\ record' = [record EXCEPT ![j] = state]
  /\ \E program \in {"pw.x", "post"} : tool' = [tool EXCEPT ![c] = program]
  /\ at' = [at EXCEPT ![c] = place]
  /\ result' = [result EXCEPT ![c] = "none"]
  /\ UNCHANGED <<mode, sched, remote, lost, misread, out, sweep>>

RunTool(c) == NewJob(c, "upload", "running")

Stage(c) == NewJob(c, "staged", "staged")

\* The call of c goes on, or ends with an answer and a last record.
GoOn(c, place) ==
  /\ at' = [at EXCEPT ![c] = place]
  /\ UNCHANGED <<mode, job, tool, result, sweep>>

Return(c, answer, state) ==
  /\ at' = [at EXCEPT ![c] = "out"]
  /\ result' = [result EXCEPT ![c] = answer]
  /\ record' = [record EXCEPT ![job[c]] = state]
  /\ UNCHANGED <<mode, sched, job, tool, sweep>>

\* submit() of a staged job; a cancelled one is not refused.
Submit(c) ==
  /\ at[c] = "staged" /\ cancel[c] = "none"
  /\ GoOn(c, "uploadStaged")
  /\ UNCHANGED <<registry, remote, lost, misread, out>>

FromStaged(c) == at[c] \in {"uploadStaged", "submitStaged", "answerStaged", "directStaged"}

\* _upload_dir, and the way on through the scheduler or a direct run.
Upload(c) ==
  /\ at[c] \in {"upload", "uploadStaged"}
  /\ CASE mode # "none" -> GoOn(c, IF FromStaged(c) THEN "submitStaged" ELSE "submit")
       [] OTHER         -> GoOn(c, IF FromStaged(c) THEN "directStaged" ELSE "direct")
  /\ record' = IF FromStaged(c) /\ mode = "none"
               THEN [record EXCEPT ![job[c]] = "running"] ELSE record
  /\ UNCHANGED <<sched, remote, lost, misread, out>>

UploadFails(c) ==
  /\ at[c] \in {"upload", "uploadStaged"}
  /\ Return(c, "failed", "failed")
  /\ UNCHANGED <<remote, lost, misread, out>>

----------------------------------------------------------------------------
\* submit_job: sbatch or qsub accepts the script ...
Accepted(c) ==
  /\ at[c] \in {"submit", "submitStaged"}
  /\ remote' = [remote EXCEPT ![job[c]] = "queued"]
  /\ GoOn(c, IF FromStaged(c) THEN "answerStaged" ELSE "answer")
  /\ UNCHANGED <<registry, lost, misread, out>>

Refused(c) ==
  /\ at[c] \in {"submit", "submitStaged"}
  /\ Return(c, "failed", "failed")
  /\ UNCHANGED <<remote, lost, misread, out>>

\* ... and its answer arrives, is recorded and, for a client, returned ...
Submitted(c) ==
  /\ at[c] \in {"answer", "answerStaged"}
  /\ sched' = sched \cup {job[c]}
  /\ record' = IF FromStaged(c) THEN [record EXCEPT ![job[c]] = "submitted"] ELSE record
  /\ GoOn(c, IF FromStaged(c) THEN "held" ELSE "poll")
  /\ UNCHANGED <<remote, lost, misread, out>>

\* ... or is lost, or has no job id in it.
AnswerLost(c) ==
  /\ at[c] \in {"answer", "answerStaged"}
  /\ lost' = lost \cup {job[c]}
  /\ Return(c, "failed", "failed")
  /\ UNCHANGED <<remote, misread, out>>

\* What the schedulers call a job.  A job whose node failed or that was
\* preempted waits to run again; Slurm may hold it, or name it by its failure.
\* PBS says no more of a job that ended than that it exits, is complete or
\* finished.
Words(j) ==
  CASE mode = "pbs" /\ remote[j] = "queued"  -> {"Q", "H", "M"}
    [] mode = "pbs" /\ remote[j] = "running" -> {"R", "S", "U"}
    [] mode = "pbs" /\ remote[j] \in Ended    -> {"E", "C", "F"}
    [] mode # "pbs" /\ remote[j] = "queued"   -> {"PENDING", "CONFIGURING"}
    [] mode # "pbs" /\ remote[j] = "requeued" -> {"PENDING", "REQUEUE_HOLD", "NODE_FAIL", "PREEMPTED"}
    [] mode # "pbs" /\ remote[j] = "running"  -> {"RUNNING", "SUSPENDED", "STOPPED"}
    [] mode # "pbs" /\ remote[j] = "done"     -> {"COMPLETING", "COMPLETED", "STAGE_OUT"}
    [] mode # "pbs" /\ remote[j] = "error"    -> {"COMPLETING", "FAILED", "OUT_OF_MEMORY"}
    [] mode # "pbs" /\ remote[j] = "killed"   -> {"COMPLETING", "CANCELLED", "TIMEOUT"}

\* Mutant: a word that is not in the map is a completed job.
StatusOf_Lenient(word) ==
  CASE word \in {"PENDING", "SUSPENDED", "CONFIGURING", "Q", "H", "W", "T"} -> "pending"
    [] word \in {"RUNNING", "COMPLETING", "R", "E", "S"}                   -> "running"
    [] word \in {"CANCELLED", "PREEMPTED"}                                 -> "cancelled"
    [] word \in {"FAILED", "TIMEOUT", "NODE_FAIL", "OUT_OF_MEMORY", "F"}   -> "failed"
    [] OTHER                                                               -> "completed"

\* STATUS_MAP of the two adapters: a word that is not in it is a failure.
StatusOf(word) ==
  CASE word \in {"PENDING", "SUSPENDED", "CONFIGURING", "Q", "H", "W", "T"} -> "pending"
    [] word \in {"RUNNING", "COMPLETING", "R", "E", "S"}                   -> "running"
    [] word \in {"COMPLETED", "C"}                                         -> "completed"
    [] word \in {"CANCELLED", "PREEMPTED"}                                 -> "cancelled"
    [] OTHER                                                               -> "failed"

\* get_job_status: by squeue or qstat, by sacct once squeue has forgotten the
\* job, or nothing at all when the commands fail.
Answer(j) == {"unknown"} \cup {StatusOf(word) : word \in Words(j)}

\* The code takes a job for over that is not.
Misreading(j, status) ==
  misread' = misread \cup (IF Live(j) /\ status \in TerminalStatus THEN {j} ELSE {})

\* Mutant: whatever the scheduler knows of a job ends the loop.
Polled_Known(c) ==
  /\ at[c] = "poll"
  /\ \E s \in Answer(job[c]) \ {"unknown"} :
       /\ IF s = "completed" THEN GoOn(c, "download") /\ UNCHANGED registry
          ELSE Return(c, "failed", "failed")
       /\ Misreading(job[c], s)
  /\ UNCHANGED <<remote, lost, out>>

\* _poll_scheduler sees a terminal state ...
Polled(c) ==
  /\ at[c] = "poll"
  /\ \E s \in Answer(job[c]) \cap TerminalStatus :
       /\ IF s = "completed" THEN GoOn(c, "download") /\ UNCHANGED registry
          ELSE Return(c, "failed", "failed")
       /\ Misreading(job[c], s)
  /\ UNCHANGED <<remote, lost, out>>

\* Mutant: the deadline is looked at only while the job is in the queue.
PollTimeout_InQueue(c) ==
  /\ at[c] = "poll" /\ Live(job[c])
  /\ Return(c, "failed", "timeout")
  /\ UNCHANGED <<remote, lost, misread, out>>

\* ... or its deadline passes.
PollTimeout(c) ==
  /\ at[c] = "poll"
  /\ Return(c, "failed", "timeout")
  /\ UNCHANGED <<remote, lost, misread, out>>

----------------------------------------------------------------------------
\* _run_direct: one blocking ssh command ...
DirectStarts(c) ==
  /\ at[c] \in {"direct", "directStaged"}
  /\ remote[job[c]] = "absent"
  /\ remote' = [remote EXCEPT ![job[c]] = "running"]
  /\ UNCHANGED <<mode, registry, lost, misread, callers, sweep>>

\* What a call returns to its caller, and submit() to a client.
DirectResult(c, ok) ==
  CASE FromStaged(c) -> /\ GoOn(c, "held")
                        /\ record' = [record EXCEPT ![job[c]] = IF ok THEN "completed" ELSE "failed"]
                        /\ UNCHANGED <<sched, out>>
    [] ~FromStaged(c) /\ ok -> GoOn(c, "download") /\ UNCHANGED <<registry, out>>
    [] OTHER -> /\ Return(c, "failed", "failed")
                /\ \E arrived \in BOOLEAN :
                     out' = IF arrived THEN [out EXCEPT ![c] = [of |-> job[c], done |-> FALSE]]
                            ELSE out

\* ... whose output ends with the exit code of the program ...
DirectEnds(c) ==
  /\ at[c] \in {"direct", "directStaged"}
  /\ remote[job[c]] \in Ended
  /\ DirectResult(c, remote[job[c]] = "done")
  /\ UNCHANGED <<remote, lost, misread>>

\* ... or does not, when the connection ends first: no marker is exit code 0.
DirectLost(c) ==
  /\ at[c] \in {"direct", "directStaged"}
  /\ lost' = lost \cup {job[c]}
  /\ DirectResult(c, TRUE)
  /\ UNCHANGED <<remote, misread>>

\* _download_dir brings the files, or nothing at all and no error; pw.x has
\* succeeded if the .out file that is there now says JOB DONE.
Download(c) ==
  /\ at[c] = "download"
  /\ \E arrived \in BOOLEAN :
       LET here == IF arrived THEN [of |-> job[c], done |-> remote[job[c]] = "done"] ELSE out[c]
       IN  /\ out' = [out EXCEPT ![c] = here]
           /\ Return(c, IF tool[c] # "pw.x" \/ here.done THEN "success" ELSE "failed", "completed")
  /\ UNCHANGED <<remote, lost, misread>>

DownloadRaises(c) ==
  /\ at[c] = "download"
  /\ Return(c, "failed", "failed")
  /\ UNCHANGED <<remote, lost, misread, out>>

----------------------------------------------------------------------------
\* status() of a client puts the scheduler's answer into the record.
AskStatus(c) ==
  /\ at[c] = "held" /\ cancel[c] = "none"
  /\ job[c] \in sched
  /\ \E s \in Answer(job[c]) \ {"unknown"} :
       record' = [record EXCEPT ![job[c]] = s] /\ Misreading(job[c], s)
  /\ UNCHANGED <<mode, sched, remote, lost, callers, sweep>>

\* fetch() of a client, who then is done with the job.
Fetch(c) ==
  /\ at[c] = "held" /\ cancel[c] = "none"
  /\ record[job[c]] \notin {"staged", "submitted", "running"}
  /\ \E arrived \in BOOLEAN :
       out' = IF arrived THEN [out EXCEPT ![c] = [of |-> job[c], done |-> remote[job[c]] = "done"]]
              ELSE out
  /\ at' = [at EXCEPT ![c] = "out"]
  /\ result' = [result EXCEPT ![c] = "fetched"]
  /\ UNCHANGED <<mode, registry, remote, lost, misread, job, tool, sweep>>

\* cancel() of a client; the steps below are those of cancel_all as well.
Cancel(c) ==
  /\ at[c] \in {"staged", "held"} /\ cancel[c] = "none"
  /\ cancel' = [cancel EXCEPT ![c] = "send"]
  /\ aim' = [aim EXCEPT ![c] = job[c]]
  /\ known' = [known EXCEPT ![c] = job[c] \in sched]
  /\ UNCHANGED <<mode, registry, remote, lost, misread, callers, batch>>

CancelAll(k) ==
  /\ cancel[k] = "none"
  /\ cancel' = [cancel EXCEPT ![k] = "scan"]
  /\ batch' = [batch EXCEPT ![k] = Registered]
  /\ UNCHANGED <<mode, registry, remote, lost, misread, callers, aim, known>>

\* The next record of the registry, in the order they were made.
Scan(k) ==
  /\ cancel[k] = "scan" /\ batch[k] # {}
  /\ LET j == Min(batch[k])
         live == record[j] \in {"staged", "submitted", "running"}
     IN  /\ batch' = [batch EXCEPT ![k] = @ \ {j}]
         /\ cancel' = [cancel EXCEPT ![k] = IF live THEN "send" ELSE "scan"]
         /\ aim' = [aim EXCEPT ![k] = IF live THEN j ELSE NoJob]
         /\ known' = [known EXCEPT ![k] = live /\ j \in sched]
  /\ UNCHANGED <<mode, registry, remote, lost, misread, callers>>

\* scancel or qdel by id; without an id, pkill -f of the job's directory on the
\* host ssh reaches.  Of a direct run that finds the shell whose command line
\* names the directory, not the program it runs, which may go on; of a job in
\* a queue nothing.  Either command may be lost.
SendCancel(s) ==
  /\ cancel[s] = "send"
  /\ LET stopped == [remote EXCEPT ![aim[s]] = IF Live(aim[s]) THEN "killed" ELSE @]
     IN  \/ known[s] /\ remote' = stopped /\ UNCHANGED lost
         \/ ~known[s] /\ remote' = remote /\ UNCHANGED lost
         \/ ~known[s] /\ mode = "none" /\ remote' = stopped /\ UNCHANGED lost
         \/ lost' = lost \cup {aim[s]} /\ UNCHANGED remote
  /\ cancel' = [cancel EXCEPT ![s] = "mark"]
  /\ UNCHANGED <<mode, registry, misread, callers, aim, known, batch>>

MarkCancelled(s) ==
  /\ cancel[s] = "mark"
  /\ record' = [record EXCEPT ![aim[s]] = "cancelled"]
  /\ cancel' = [cancel EXCEPT ![s] = IF s \in Canceller THEN "scan" ELSE "none"]
  /\ aim' = [aim EXCEPT ![s] = NoJob]
  /\ known' = [known EXCEPT ![s] = FALSE]
  /\ UNCHANGED <<mode, sched, remote, lost, misread, callers, batch>>

SweepDone(k) ==
  /\ cancel[k] = "scan" /\ batch[k] = {}
  /\ cancel' = [cancel EXCEPT ![k] = "none"]
  /\ UNCHANGED <<mode, registry, remote, lost, misread, callers, aim, known, batch>>

----------------------------------------------------------------------------
\* The cluster, or the remote host.
RemoteStarts(j) ==
  /\ remote[j] \in {"queued", "requeued"}
  /\ remote' = [remote EXCEPT ![j] = "running"]
  /\ UNCHANGED <<mode, registry, lost, misread, callers, sweep>>

\* Its node fails, or a job of a higher priority takes it; PBS queues it as
\* it was.
RemoteRequeues(j) ==
  /\ remote[j] = "running" /\ mode # "none"
  /\ remote' = [remote EXCEPT ![j] = IF mode = "slurm" THEN "requeued" ELSE "queued"]
  /\ UNCHANGED <<mode, registry, lost, misread, callers, sweep>>

\* A program ends by itself, or by the walltime of the remote side.
RemoteEnds(j) ==
  /\ remote[j] = "running"
  /\ \E end \in Ended : remote' = [remote EXCEPT ![j] = end]
  /\ UNCHANGED <<mode, registry, lost, misread, callers, sweep>>

----------------------------------------------------------------------------
\* Steps that time alone brings about: an ssh command has a timeout, and the
\* polling has a deadline, but the scheduler need never answer.
Proceed(c) ==
  /\ cancel[c] = "none"
  /\ \/ Upload(c) \/ UploadFails(c) \/ Accepted(c) \/ Refused(c) \/ Submitted(c) \/ AnswerLost(c)
     \/ PollTimeout(c) \/ DirectEnds(c) \/ DirectLost(c)
     \/ Download(c) \/ DownloadRaises(c)

Sweeping(s) == SendCancel(s) \/ MarkCancelled(s)

Next ==
  \/ \E c \in Caller :
       \/ RunTool(c) \/ Stage(c) \/ Submit(c)
       \/ Proceed(c) \/ Polled(c) \/ DirectStarts(c)
       \/ AskStatus(c) \/ Fetch(c) \/ Cancel(c)
  \/ \E k \in Canceller : CancelAll(k) \/ Scan(k) \/ SweepDone(k)
  \/ \E s \in Actor : Sweeping(s)
  \/ \E j \in Job : RemoteStarts(j) \/ RemoteRequeues(j) \/ RemoteEnds(j)

Spec == Init /\ [][Next]_remoting

FairSpec == Spec /\ \A c \in Caller : WF_remoting(Proceed(c))

----------------------------------------------------------------------------
Working == {"upload", "submit", "answer", "poll", "direct", "download",
            "uploadStaged", "submitStaged", "answerStaged", "directStaged"}

\* Types of all variables (executor.py).
TypeOK ==
  /\ mode \in Modes
  /\ record \in [Job -> Status \cup {"none", "staged", "submitted"}]
  /\ sched \subseteq Job /\ lost \subseteq Job /\ misread \subseteq Job
  /\ remote \in [Job -> {"absent"} \cup Alive \cup Ended]
  /\ job \in [Caller -> Job \cup {NoJob}]
  /\ at \in [Caller -> Working \cup {"out", "staged", "held"}]
  /\ tool \in [Caller -> {"pw.x", "post"}]
  /\ out \in [Caller -> [of : Job \cup {NoJob}, done : BOOLEAN]]
  /\ result \in [Caller -> {"none", "success", "failed", "fetched"}]
  /\ cancel \in [Actor -> {"none", "scan", "send", "mark"}]
  /\ aim \in [Actor -> Job \cup {NoJob}]
  /\ known \in [Actor -> BOOLEAN]
  /\ batch \in [Canceller -> SUBSET Job]

InHand(j) == \E c \in Caller : job[c] = j /\ at[c] # "out"

\* A program that is still queued or running when its call is over was given
\* up knowingly (at the polling deadline, or fetched early by a client) or
\* cancelled meanwhile, unless an answer was lost or the adapter translated
\* the scheduler's word for the live job into one for a job that is over.
OrphanHasCause ==
  \A j \in Job : Live(j) /\ ~InHand(j) =>
    j \in lost \cup misread \/ record[j] \in {"timeout", "cancelled", "pending"}

\* What _run_remote_tool takes for the success of a program: that its scheduler
\* says so, PBS being able to tell only that it ended; or, of a direct run, its
\* exit code, or no exit code at all.
Earned(j) ==
  CASE mode = "slurm" -> remote[j] = "done"
    [] mode = "pbs"   -> remote[j] \in Ended
    [] mode = "none"  -> remote[j] = "done" \/ j \in lost

\* run_pw and its like report success only for a program that was seen to
\* end well; PBS tells only that it ended, and a direct run whose connection
\* was lost counts as one that ended well.
SuccessIsEarned == \A c \in Caller : result[c] = "success" => Earned(job[c])

\* Every call ends, even when the scheduler never answers again.
CallEnds == \A c \in Caller : at[c] \in Working ~> at[c] \in {"out", "held"}
=============================================================================
