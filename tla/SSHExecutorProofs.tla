------------------------- MODULE SSHExecutorProofs -------------------------
(***************************************************************************)
(* Proofs about SSHExecutor for any number of callers, cancellers and jobs *)
(* and any choice of schedulers.                                           *)
(***************************************************************************)
EXTENDS SSHExecutor, WellFoundedInduction, TLAPS

Uploading == {"staged", "upload", "uploadStaged", "submit", "submitStaged"}
Queueing == {"submit", "submitStaged", "answer", "answerStaged", "poll"}
Direct == {"direct", "directStaged"}

\* A caller's job is a registered one and nobody else's.
JobsInv ==
  \A c \in Caller :
    /\ job[c] = NoJob \/ job[c] \in Registered
    /\ at[c] # "out" => job[c] # NoJob
    /\ result[c] = "success" => at[c] = "out" /\ job[c] # NoJob
    /\ \A d \in Caller \ {c} : job[c] = NoJob \/ job[d] # job[c]

\* What is there of a job on the remote side while its call is at some place.
RemoteInv ==
  /\ \A j \in Job \ Registered : remote[j] = "absent"
  /\ \A j \in sched : remote[j] # "absent"
  /\ sched # {} => mode # "none"
  /\ \A j \in Job : remote[j] = "requeued" => mode = "slurm"
  /\ \A c \in Caller :
       /\ at[c] \in Uploading => remote[job[c]] = "absent"
       /\ at[c] \in {"answer", "answerStaged", "poll"} => remote[job[c]] # "absent"
       /\ at[c] \in Queueing => mode # "none"
       /\ at[c] \in Direct => mode = "none"
       /\ at[c] = "download" => Earned(job[c])

\* A job that a client holds, and that fetch() would give up, is over, or was
\* lost or misread, or its record tells why it is not.
HeldInv ==
  \A c \in Caller :
    at[c] = "held" /\ Live(job[c]) =>
      job[c] \in lost \cup misread \/ record[job[c]] \notin {"staged", "completed", "failed"}

\* What a cancel is about to stop is registered.
CancelInv ==
  /\ \A s \in Actor : cancel[s] \in {"send", "mark"} => aim[s] \in Registered
  /\ \A k \in Canceller : batch[k] \subseteq Registered

SSHInv == TypeOK /\ JobsInv /\ RemoteInv /\ HeldInv /\ CancelInv /\ OrphanHasCause

USE DEF Uploading, Queueing, Direct, Actor, Job, NoJob, Registered, Alive, Live, Ended

LEMMA SSHInit == Init => SSHInv
<1> SUFFICES ASSUME Init PROVE SSHInv
  OBVIOUS
<1>1. TypeOK
  BY ActorsAssumption DEF Init, TypeOK, Status, Working
<1>2. JobsInv /\ RemoteInv /\ HeldInv /\ CancelInv /\ OrphanHasCause
  BY DEF Init, JobsInv, RemoteInv, HeldInv, CancelInv, OrphanHasCause, InHand
<1>3. QED
  BY <1>1, <1>2 DEF SSHInv

\* A job enters the registry.
LEMMA NewJobStep ==
  ASSUME SSHInv, NEW c \in Caller, RunTool(c) \/ Stage(c)
  PROVE  SSHInv'
<1> USE ActorsAssumption DEF SSHInv
<1>1. PICK place \in {"upload", "staged"}, state \in {"running", "staged"} : NewJob(c, place, state)
  BY DEF RunTool, Stage
<1>2. PICK j \in Job : /\ record[j] = "none"
                       /\ job' = [job EXCEPT ![c] = j]
                       /\ record' = [record EXCEPT ![j] = state]
  BY <1>1 DEF NewJob
<1>3. /\ at[c] = "out" /\ at' = [at EXCEPT ![c] = place]
      /\ result' = [result EXCEPT ![c] = "none"]
      /\ tool' \in [Caller -> {"pw.x", "post"}]
      /\ UNCHANGED <<mode, sched, remote, lost, misread, out, cancel, aim, known, batch>>
  BY <1>1 DEF NewJob, sweep, TypeOK
<1>4. TypeOK'
  BY <1>2, <1>3 DEF TypeOK, Status, Working
<1>5. JobsInv'
  BY <1>2, <1>3 DEF JobsInv, TypeOK
<1>6. RemoteInv'
  <2>1. remote[j] = "absent" /\ j \notin sched
    BY <1>2 DEF RemoteInv
  <2>2. at'[c] = place /\ job'[c] = j
    BY <1>2, <1>3 DEF TypeOK
  <2>3. \A d \in Caller : d # c => at'[d] = at[d] /\ job'[d] = job[d]
    BY <1>2, <1>3 DEF TypeOK
  <2>4. \A k \in Job \ Registered' : k \in Job \ Registered
    BY <1>2 DEF TypeOK
  <2>5. /\ mode' = mode /\ remote' = remote /\ lost' = lost /\ sched' = sched
        /\ sched # {} => mode # "none"
        /\ \A k \in Job : remote[k] = "requeued" => mode = "slurm"
    BY <1>3 DEF RemoteInv
  <2>6. \A k \in Job \ Registered' : remote'[k] = "absent"
    BY <2>4, <2>5 DEF RemoteInv
  <2>7. \A k \in sched' : remote'[k] # "absent"
    BY <2>5 DEF RemoteInv
  <2>8. ASSUME NEW d \in Caller
        PROVE  /\ at'[d] \in Uploading => remote'[job'[d]] = "absent"
               /\ at'[d] \in {"answer", "answerStaged", "poll"} => remote'[job'[d]] # "absent"
               /\ at'[d] \in Queueing => mode' # "none"
               /\ at'[d] \in Direct => mode' = "none"
               /\ at'[d] = "download" => Earned(job[d]) /\ job'[d] = job[d]
    <3>1. CASE d = c
      BY <2>1, <2>2, <2>5, <3>1
    <3>2. CASE d # c
      BY <2>3, <2>5, <3>2 DEF RemoteInv
    <3>3. QED
      BY <3>1, <3>2
  <2>9. \A k : Earned(k) => Earned(k)'
    BY <2>5 DEF Earned
  <2>10. QED
    BY <2>5, <2>6, <2>7, <2>8, <2>9 DEF RemoteInv
<1>7. HeldInv' /\ CancelInv'
  BY <1>2, <1>3 DEF HeldInv, CancelInv, JobsInv, TypeOK
<1>8. OrphanHasCause'
  BY <1>2, <1>3 DEF OrphanHasCause, InHand, JobsInv, RemoteInv, TypeOK
<1>9. QED
  BY <1>4, <1>5, <1>6, <1>7, <1>8

\* What the ends of a program are worth does not depend on the answers lost since.
LEMMA EarnedStays ==
  ASSUME mode \in Modes, mode' = mode, NEW j, remote'[j] = remote[j], lost \subseteq lost',
         Earned(j)
  PROVE  Earned(j)'
<1>1. mode \in {"slurm", "pbs", "none"}
  BY ModesAssumption
<1>2. CASE mode = "slurm"
  BY <1>2 DEF Earned
<1>3. CASE mode = "pbs"
  BY <1>3 DEF Earned
<1>4. CASE mode = "none"
  BY <1>4 DEF Earned
<1>5. QED
  BY <1>1, <1>2, <1>3, <1>4

\* A call of c goes on from one place to another, with nothing new on the remote
\* side; Known is what its record may say by then.
LEMMA MovesOn ==
  ASSUME SSHInv, NEW c \in Caller, NEW place \in Working \cup {"held"},
         NEW state \in Status \cup {"staged", "submitted"},
         at[c] # "out", at' = [at EXCEPT ![c] = place],
         record' = record \/ record' = [record EXCEPT ![job[c]] = state],
         UNCHANGED <<mode, job, tool, out, result, remote, cancel, aim, known, batch>>,
         lost \subseteq lost', lost' \subseteq lost \cup {job[c]},
         misread \subseteq misread', misread' \subseteq misread \cup {job[c]},
         sched' = sched \/ (sched' = sched \cup {job[c]} /\ remote[job[c]] # "absent" /\ mode # "none"),
         place \in Uploading => remote[job[c]] = "absent",
         place \in {"answer", "answerStaged", "poll"} => remote[job[c]] # "absent",
         place \in Queueing => mode # "none",
         place \in Direct => mode = "none",
         place = "download" => Earned(job[c])',
         place = "held" /\ Live(job[c]) =>
           job[c] \in lost' \cup misread' \/ record'[job[c]] \notin {"staged", "completed", "failed"}
  PROVE  SSHInv'
<1>1. /\ job[c] \in Job /\ record[job[c]] # "none" /\ result[c] # "success"
      /\ NoJob \notin Job
  BY DEF SSHInv, JobsInv, TypeOK
<1>2. /\ mode' = mode /\ job' = job /\ tool' = tool /\ out' = out /\ result' = result
      /\ remote' = remote /\ cancel' = cancel /\ aim' = aim /\ known' = known /\ batch' = batch
  OBVIOUS
<1>3. /\ record' \in [Job -> Status \cup {"none", "staged", "submitted"}]
      /\ record'[job[c]] # "none"
      /\ \A j \in Job \ {job[c]} : record'[j] = record[j]
  <2>1. record' = record \/ record' = [record EXCEPT ![job[c]] = state]
    OBVIOUS
  <2>2. CASE record' = record
    BY <1>1, <2>2 DEF SSHInv, TypeOK
  <2>3. CASE record' = [record EXCEPT ![job[c]] = state]
    BY <1>1, <2>3 DEF SSHInv, TypeOK, Status
  <2>4. QED
    BY <2>1, <2>2, <2>3
<1>3a. sched' \subseteq Job /\ lost' \subseteq Job /\ misread' \subseteq Job
  <2>1. sched \subseteq Job /\ lost \subseteq Job /\ misread \subseteq Job
    BY DEF SSHInv, TypeOK
  <2>2. sched' \subseteq Job
    BY <1>1, <2>1
  <2>3. lost' \subseteq Job
    BY <1>1, <2>1
  <2>4. misread' \subseteq Job
    BY <1>1, <2>1
  <2>5. QED
    BY <2>2, <2>3, <2>4
<1>4. /\ at' \in [Caller -> Working \cup {"out", "staged", "held"}]
      /\ at'[c] = place /\ \A d \in Caller \ {c} : at'[d] = at[d]
  BY DEF SSHInv, TypeOK
<1>5. TypeOK'
  BY <1>2, <1>3, <1>3a, <1>4 DEF SSHInv, TypeOK
<1>6. Registered' = Registered
  BY <1>1, <1>3
<1>7. JobsInv'
  BY <1>1, <1>2, <1>4, <1>6 DEF SSHInv, JobsInv
<1>8. RemoteInv'
  <2>1. /\ \A j \in Job \ Registered' : remote'[j] = "absent"
        /\ \A j \in sched' : remote'[j] # "absent"
        /\ sched' # {} => mode' # "none"
        /\ \A j \in Job : remote'[j] = "requeued" => mode' = "slurm"
    BY <1>2, <1>6 DEF SSHInv, RemoteInv
  <2>2. ASSUME NEW d \in Caller
        PROVE  /\ at'[d] \in Uploading => remote'[job'[d]] = "absent"
               /\ at'[d] \in {"answer", "answerStaged", "poll"} => remote'[job'[d]] # "absent"
               /\ at'[d] \in Queueing => mode' # "none"
               /\ at'[d] \in Direct => mode' = "none"
               /\ at'[d] = "download" => Earned(job[d])'
    <3>1. CASE d = c
      BY <1>2, <1>4, <3>1
    <3>2. CASE d # c
      <4>1. Earned(job[d]) => Earned(job[d])'
        BY <1>2, EarnedStays DEF SSHInv, TypeOK
      <4>2. QED
        BY <1>2, <1>4, <3>2, <4>1 DEF SSHInv, RemoteInv
    <3>3. QED
      BY <3>1, <3>2
  <2>3. QED
    BY <2>1, <2>2 DEF RemoteInv
<1>9. HeldInv'
  <2>1. SUFFICES ASSUME NEW d \in Caller, at'[d] = "held", Live(job[d])
                 PROVE  job[d] \in lost' \cup misread' \/ record'[job[d]] \notin {"staged", "completed", "failed"}
    BY <1>2 DEF HeldInv
  <2>2. CASE d = c
    BY <1>4, <2>1, <2>2
  <2>3. CASE d # c
    BY <1>1, <1>3, <1>4, <2>1, <2>3 DEF SSHInv, JobsInv, HeldInv, TypeOK
  <2>4. QED
    BY <2>2, <2>3
<1>10. CancelInv'
  BY <1>2, <1>6 DEF SSHInv, CancelInv
<1>11. OrphanHasCause'
  <2>1. SUFFICES ASSUME NEW j \in Job, Live(j), ~InHand(j)'
                 PROVE  j \in lost' \cup misread' \/ record'[j] \in {"timeout", "cancelled", "pending"}
    BY <1>2 DEF OrphanHasCause
  <2>2. j # job[c]
    BY <1>2, <1>4, <2>1 DEF InHand, Working
  <2>3. ~InHand(j)
    BY <1>2, <1>4, <2>1, <2>2 DEF InHand
  <2>4. QED
    BY <1>3, <2>1, <2>2, <2>3 DEF SSHInv, OrphanHasCause
<1>12. QED
  BY <1>5, <1>7, <1>8, <1>9, <1>10, <1>11 DEF SSHInv

\* A call of c is over: its job is over too, or was lost, or its record says why.
LEMMA GivesUp ==
  ASSUME SSHInv, NEW c \in Caller, NEW answer \in {"success", "failed", "fetched"},
         NEW state \in Status,
         at[c] # "out", at' = [at EXCEPT ![c] = "out"],
         result' = [result EXCEPT ![c] = answer],
         record' = record \/ record' = [record EXCEPT ![job[c]] = state],
         UNCHANGED <<mode, job, tool, remote, sched, cancel, aim, known, batch>>,
         out' \in [Caller -> [of : Job \cup {NoJob}, done : BOOLEAN]],
         lost \subseteq lost', lost' \subseteq lost \cup {job[c]},
         misread \subseteq misread', misread' \subseteq misread \cup {job[c]},
         answer = "success" => Earned(job[c]),
         Live(job[c]) =>
           job[c] \in lost' \cup misread' \/ record'[job[c]] \in {"timeout", "cancelled", "pending"}
  PROVE  SSHInv' /\ (SuccessIsEarned => SuccessIsEarned')
<1>1. /\ job[c] \in Job /\ record[job[c]] # "none"
      /\ NoJob \notin Job
  BY DEF SSHInv, JobsInv, TypeOK
<1>2. /\ mode' = mode /\ job' = job /\ tool' = tool /\ remote' = remote /\ sched' = sched
      /\ cancel' = cancel /\ aim' = aim /\ known' = known /\ batch' = batch
  OBVIOUS
<1>3. /\ record' \in [Job -> Status \cup {"none", "staged", "submitted"}]
      /\ record'[job[c]] # "none"
      /\ \A j \in Job \ {job[c]} : record'[j] = record[j]
  <2>1. record' = record \/ record' = [record EXCEPT ![job[c]] = state]
    OBVIOUS
  <2>2. CASE record' = record
    BY <1>1, <2>2 DEF SSHInv, TypeOK
  <2>3. CASE record' = [record EXCEPT ![job[c]] = state]
    BY <1>1, <2>3 DEF SSHInv, TypeOK, Status
  <2>4. QED
    BY <2>1, <2>2, <2>3
<1>3a. lost' \subseteq Job /\ misread' \subseteq Job
  BY <1>1 DEF SSHInv, TypeOK
<1>4. /\ at' \in [Caller -> Working \cup {"out", "staged", "held"}]
      /\ at'[c] = "out" /\ \A d \in Caller \ {c} : at'[d] = at[d]
      /\ result' \in [Caller -> {"none", "success", "failed", "fetched"}]
      /\ result'[c] = answer /\ \A d \in Caller \ {c} : result'[d] = result[d]
  BY DEF SSHInv, TypeOK
<1>5. TypeOK'
  BY <1>2, <1>3, <1>3a, <1>4 DEF SSHInv, TypeOK
<1>6. Registered' = Registered
  BY <1>1, <1>3
<1>7. JobsInv'
  BY <1>1, <1>2, <1>4, <1>6 DEF SSHInv, JobsInv
<1>7a. \A d \in Caller : Earned(job[d]) => Earned(job[d])'
  BY <1>2, EarnedStays DEF SSHInv, TypeOK
<1>8. RemoteInv'
  BY <1>2, <1>4, <1>6, <1>7a DEF SSHInv, RemoteInv
<1>9. HeldInv'
  BY <1>1, <1>2, <1>3, <1>4 DEF SSHInv, JobsInv, HeldInv, TypeOK
<1>10. CancelInv'
  BY <1>2, <1>6 DEF SSHInv, CancelInv
<1>11. OrphanHasCause'
  <2>1. SUFFICES ASSUME NEW j \in Job, Live(j), ~InHand(j)'
                 PROVE  j \in lost' \cup misread' \/ record'[j] \in {"timeout", "cancelled", "pending"}
    BY <1>2 DEF OrphanHasCause
  <2>2. CASE j = job[c]
    BY <2>1, <2>2
  <2>3. CASE j # job[c]
    <3>1. ~InHand(j)
      BY <1>2, <1>4, <2>1, <2>3 DEF InHand
    <3>2. QED
      BY <1>3, <2>1, <2>3, <3>1 DEF SSHInv, OrphanHasCause
  <2>4. QED
    BY <2>2, <2>3
<1>12. SuccessIsEarned => SuccessIsEarned'
  BY <1>2, <1>4, <1>7a DEF SuccessIsEarned
<1>13. QED
  BY <1>5, <1>7, <1>8, <1>9, <1>10, <1>11, <1>12 DEF SSHInv

\* What the words of the scheduler for a job it knows are translated to: never
\* to a completion of a job that is not over.
LEMMA AnswerType ==
  ASSUME SSHInv, NEW j \in Job, remote[j] # "absent", mode # "none"
  PROVE  /\ Answer(j) \subseteq Status \cup {"unknown"}
         /\ "completed" \in Answer(j) => remote[j] \in Ended
         /\ mode = "slurm" /\ "completed" \in Answer(j) => remote[j] = "done"
<1>1. /\ remote[j] \in {"queued", "requeued", "running", "done", "error", "killed"}
      /\ mode \in {"slurm", "pbs"}
  BY ModesAssumption DEF SSHInv, TypeOK
<1>2. \A word : StatusOf(word) \in Status
  BY DEF StatusOf, Status
<1>3. Answer(j) \subseteq Status \cup {"unknown"}
  BY <1>2 DEF Answer
<1>4. \A word : StatusOf(word) = "completed" => word \in {"COMPLETED", "C"}
  BY DEF StatusOf
<1>5. "completed" \in Answer(j) => "COMPLETED" \in Words(j) \/ "C" \in Words(j)
  BY <1>4 DEF Answer
<1>6. CASE mode = "pbs"
  <2>1. remote[j] \in {"queued", "running"} => "COMPLETED" \notin Words(j) /\ "C" \notin Words(j)
    BY <1>6 DEF Words
  <2>2. remote[j] # "requeued"
    BY <1>6 DEF SSHInv, RemoteInv
  <2>3. QED
    BY <1>1, <1>3, <1>5, <1>6, <2>1, <2>2
<1>7. CASE mode = "slurm"
  <2>1. remote[j] # "done" => "COMPLETED" \notin Words(j) /\ "C" \notin Words(j)
    BY <1>1, <1>7 DEF Words
  <2>2. QED
    BY <1>3, <1>5, <1>7, <2>1
<1>8. QED
  BY <1>1, <1>6, <1>7

\* A job that its scheduler is taken to call over is over, or is misread.
LEMMA MisreadingMarks ==
  ASSUME SSHInv, NEW j \in Job, NEW status, Misreading(j, status)
  PROVE  /\ misread \subseteq misread' /\ misread' \subseteq misread \cup {j}
         /\ Live(j) /\ status \in TerminalStatus => j \in misread'
  BY DEF Misreading

\* The way of a call up to the queue of the scheduler or a direct run.
LEMMA UploadStep ==
  ASSUME SSHInv, NEW c \in Caller,
         Submit(c) \/ Upload(c) \/ UploadFails(c) \/ Refused(c) \/ Submitted(c) \/ AnswerLost(c)
  PROVE  SSHInv' /\ (SuccessIsEarned => SuccessIsEarned')
<1>1. job[c] \in Job /\ mode \in Modes
  BY DEF SSHInv, JobsInv, TypeOK, Submit, Upload, UploadFails, Refused, Submitted, AnswerLost
<1>2. ASSUME mode' = mode, result' = result, job' = job, remote' = remote, lost' = lost
      PROVE  SuccessIsEarned => SuccessIsEarned'
  BY <1>1, <1>2, EarnedStays DEF SuccessIsEarned
<1>3. CASE Submit(c)
  <2>1. /\ at[c] = "staged" /\ at' = [at EXCEPT ![c] = "uploadStaged"] /\ remote[job[c]] = "absent"
        /\ UNCHANGED <<mode, job, tool, out, result, remote, cancel, aim, known, batch>>
        /\ record' = record /\ sched' = sched /\ lost' = lost /\ misread' = misread
    BY <1>3 DEF Submit, GoOn, sweep, registry, SSHInv, RemoteInv
  <2>2. SSHInv'
    BY <2>1, MovesOn DEF Working, Status
  <2>3. QED
    BY <2>1, <2>2, <1>2
<1>4. CASE Upload(c)
  <2>1. PICK place \in {"submit", "submitStaged", "direct", "directStaged"} :
          /\ at[c] \in {"upload", "uploadStaged"} /\ at' = [at EXCEPT ![c] = place]
          /\ place \in {"submit", "submitStaged"} <=> mode # "none"
          /\ UNCHANGED <<mode, job, tool, out, result, remote, cancel, aim, known, batch>>
          /\ sched' = sched /\ lost' = lost /\ misread' = misread
    BY <1>4 DEF Upload, GoOn, sweep
  <2>2. record' = record \/ record' = [record EXCEPT ![job[c]] = "running"]
    BY <1>4 DEF Upload
  <2>3. remote[job[c]] = "absent"
    BY <2>1 DEF SSHInv, RemoteInv
  <2>4. SSHInv'
    BY <2>1, <2>2, <2>3, MovesOn DEF Working, Status
  <2>5. QED
    BY <2>1, <2>4, <1>2
<1>5. CASE UploadFails(c) \/ Refused(c)
  <2>1. /\ at[c] \in Uploading /\ remote[job[c]] = "absent"
        /\ at' = [at EXCEPT ![c] = "out"] /\ result' = [result EXCEPT ![c] = "failed"]
        /\ record' = [record EXCEPT ![job[c]] = "failed"]
        /\ UNCHANGED <<mode, job, tool, remote, sched, cancel, aim, known, batch>>
        /\ out' = out /\ lost' = lost /\ misread' = misread
    BY <1>5 DEF UploadFails, Refused, Return, sweep, SSHInv, RemoteInv
  <2>2. out \in [Caller -> [of : Job \cup {NoJob}, done : BOOLEAN]]
    BY DEF SSHInv, TypeOK
  <2>3. QED
    BY <2>1, <2>2, GivesUp DEF Status
<1>6. CASE Submitted(c)
  <2>1. PICK place \in {"held", "poll"} :
          /\ at[c] \in {"answer", "answerStaged"} /\ at' = [at EXCEPT ![c] = place]
          /\ UNCHANGED <<mode, job, tool, out, result, remote, cancel, aim, known, batch>>
          /\ sched' = sched \cup {job[c]} /\ lost' = lost /\ misread' = misread
          /\ place = "poll" => record' = record
          /\ place = "held" => record' = [record EXCEPT ![job[c]] = "submitted"]
    BY <1>6 DEF Submitted, GoOn, sweep, FromStaged
  <2>2. remote[job[c]] # "absent" /\ mode # "none"
    BY <2>1 DEF SSHInv, RemoteInv
  <2>3. place = "held" => record'[job[c]] = "submitted"
    BY <1>1, <2>1 DEF SSHInv, TypeOK
  <2>4. record' = record \/ record' = [record EXCEPT ![job[c]] = "submitted"]
    BY <2>1
  <2>5. SSHInv'
    BY <2>1, <2>2, <2>3, <2>4, MovesOn DEF Working, Status
  <2>6. QED
    BY <2>1, <2>5, <1>2
<1>7. CASE AnswerLost(c)
  <2>1. /\ at[c] \in {"answer", "answerStaged"} /\ lost' = lost \cup {job[c]}
        /\ at' = [at EXCEPT ![c] = "out"] /\ result' = [result EXCEPT ![c] = "failed"]
        /\ record' = [record EXCEPT ![job[c]] = "failed"]
        /\ UNCHANGED <<mode, job, tool, remote, sched, cancel, aim, known, batch>>
        /\ out' = out /\ misread' = misread
    BY <1>7 DEF AnswerLost, Return, sweep
  <2>2. out \in [Caller -> [of : Job \cup {NoJob}, done : BOOLEAN]]
    BY DEF SSHInv, TypeOK
  <2>3. QED
    BY <2>1, <2>2, GivesUp DEF Status
<1>8. QED
  BY <1>3, <1>4, <1>5, <1>6, <1>7

\* The polling loop.
LEMMA PollStep ==
  ASSUME SSHInv, NEW c \in Caller, Polled(c) \/ PollTimeout(c)
  PROVE  SSHInv' /\ (SuccessIsEarned => SuccessIsEarned')
<1>1. /\ job[c] \in Job /\ at[c] = "poll" /\ remote[job[c]] # "absent" /\ mode # "none"
      /\ mode \in Modes /\ record \in [Job -> Status \cup {"none", "staged", "submitted"}]
      /\ out \in [Caller -> [of : Job \cup {NoJob}, done : BOOLEAN]]
  BY DEF SSHInv, JobsInv, RemoteInv, TypeOK, Polled, PollTimeout
<1>2. remote' = remote /\ lost' = lost /\ out' = out
  BY DEF Polled, PollTimeout
<1>3. CASE PollTimeout(c)
  <2>0. misread' = misread
    BY <1>3 DEF PollTimeout
  <2>1. /\ at' = [at EXCEPT ![c] = "out"] /\ result' = [result EXCEPT ![c] = "failed"]
        /\ record' = [record EXCEPT ![job[c]] = "timeout"]
        /\ UNCHANGED <<mode, job, tool, remote, sched, cancel, aim, known, batch>>
    BY <1>3 DEF PollTimeout, Return, sweep
  <2>2. record'[job[c]] = "timeout"
    BY <1>1, <2>1
  <2>3. QED
    BY <1>1, <1>2, <2>0, <2>1, <2>2, GivesUp DEF Status
<1>4. CASE Polled(c)
  <2>1. PICK s \in Answer(job[c]) \cap TerminalStatus :
          /\ IF s = "completed" THEN GoOn(c, "download") /\ UNCHANGED registry
             ELSE Return(c, "failed", "failed")
          /\ Misreading(job[c], s)
    BY <1>4 DEF Polled
  <2>2. /\ misread \subseteq misread' /\ misread' \subseteq misread \cup {job[c]}
        /\ Live(job[c]) => job[c] \in misread'
    <3>1. Misreading(job[c], s) /\ s \in TerminalStatus
      BY <2>1
    <3>2. QED
      BY <1>1, <3>1, MisreadingMarks
  <2>3. CASE s = "completed"
    <3>1. /\ at' = [at EXCEPT ![c] = "download"] /\ record' = record /\ sched' = sched
          /\ UNCHANGED <<mode, job, tool, out, result, remote, cancel, aim, known, batch>>
      BY <1>2, <2>1, <2>3 DEF GoOn, sweep, registry
    <3>2. Earned(job[c])
      <4>1. mode = "slurm" => remote[job[c]] = "done"
        BY <1>1, <2>1, <2>3, AnswerType
      <4>2. mode \in {"slurm", "pbs"}
        BY <1>1, ModesAssumption
      <4>3. CASE mode = "slurm"
        BY <4>1, <4>3 DEF Earned
      <4>4. CASE mode = "pbs"
        BY <1>1, <2>1, <2>3, <4>4, AnswerType DEF Earned
      <4>5. QED
        BY <4>2, <4>3, <4>4
    <3>3. Earned(job[c])'
      BY <1>1, <1>2, <3>1, <3>2, EarnedStays
    <3>4. SSHInv'
      BY <1>1, <1>2, <2>2, <3>1, <3>3, MovesOn DEF Working, Status
    <3>5. SuccessIsEarned => SuccessIsEarned'
      BY <1>1, <1>2, <3>1, EarnedStays DEF SuccessIsEarned
    <3>6. QED
      BY <3>4, <3>5
  <2>4. CASE s # "completed"
    <3>1. /\ at' = [at EXCEPT ![c] = "out"] /\ result' = [result EXCEPT ![c] = "failed"]
          /\ record' = [record EXCEPT ![job[c]] = "failed"]
          /\ UNCHANGED <<mode, job, tool, remote, sched, cancel, aim, known, batch>>
      BY <1>2, <2>1, <2>4 DEF Return, sweep
    <3>2. QED
      BY <1>1, <1>2, <2>2, <3>1, GivesUp DEF Status
  <2>5. QED
    BY <2>3, <2>4
<1>5. QED
  BY <1>3, <1>4

\* A direct run answers, or its connection ends.
LEMMA DirectStep ==
  ASSUME SSHInv, NEW c \in Caller, DirectEnds(c) \/ DirectLost(c)
  PROVE  SSHInv' /\ (SuccessIsEarned => SuccessIsEarned')
<1>1. /\ job[c] \in Job /\ at[c] \in {"direct", "directStaged"} /\ mode = "none" /\ mode \in Modes
      /\ record \in [Job -> Status \cup {"none", "staged", "submitted"}]
      /\ out \in [Caller -> [of : Job \cup {NoJob}, done : BOOLEAN]]
  BY DEF SSHInv, JobsInv, RemoteInv, TypeOK, DirectEnds, DirectLost
<1>2. remote' = remote /\ lost \subseteq lost' /\ lost' \subseteq lost \cup {job[c]} /\ misread' = misread
  BY DEF DirectEnds, DirectLost
<1>3. \/ /\ remote[job[c]] \in Ended \/ job[c] \in lost'
         /\ \E state \in {"completed", "failed"} :
              /\ GoOn(c, "held") /\ record' = [record EXCEPT ![job[c]] = state]
              /\ sched' = sched /\ out' = out
      \/ /\ remote[job[c]] = "done" \/ job[c] \in lost'
         /\ GoOn(c, "download") /\ record' = record /\ sched' = sched /\ out' = out
      \/ /\ remote[job[c]] \in Ended
         /\ Return(c, "failed", "failed")
         /\ \/ out' = out
            \/ out' = [out EXCEPT ![c] = [of |-> job[c], done |-> FALSE]]
  <2>1. CASE DirectEnds(c) /\ remote[job[c]] = "done"
    BY <2>1 DEF DirectEnds, DirectResult, registry
  <2>2. CASE DirectEnds(c) /\ remote[job[c]] # "done"
    BY <2>2 DEF DirectEnds, DirectResult, registry
  <2>3. CASE DirectLost(c)
    BY <2>3 DEF DirectLost, DirectResult, registry
  <2>4. QED
    BY <2>1, <2>2, <2>3
<1>4. CASE \E state \in {"completed", "failed"} :
             /\ GoOn(c, "held") /\ record' = [record EXCEPT ![job[c]] = state]
             /\ sched' = sched /\ out' = out
             /\ remote[job[c]] \in Ended \/ job[c] \in lost'
  <2>1. PICK state \in {"completed", "failed"} :
          /\ at' = [at EXCEPT ![c] = "held"] /\ record' = [record EXCEPT ![job[c]] = state]
          /\ UNCHANGED <<mode, job, tool, out, result, remote, cancel, aim, known, batch>>
          /\ sched' = sched
    BY <1>2, <1>4 DEF GoOn, sweep
  <2>2. Live(job[c]) => job[c] \in lost'
    BY <1>4
  <2>3. SSHInv'
    BY <1>1, <1>2, <2>1, <2>2, MovesOn DEF Working, Status
  <2>4. SuccessIsEarned => SuccessIsEarned'
    BY <1>1, <1>2, <2>1, EarnedStays DEF SuccessIsEarned
  <2>5. QED
    BY <2>3, <2>4
<1>5. CASE /\ GoOn(c, "download") /\ record' = record /\ sched' = sched /\ out' = out
           /\ remote[job[c]] = "done" \/ job[c] \in lost'
  <2>1. /\ at' = [at EXCEPT ![c] = "download"] /\ record' = record
        /\ UNCHANGED <<mode, job, tool, out, result, remote, cancel, aim, known, batch>>
        /\ sched' = sched
    BY <1>2, <1>5 DEF GoOn, sweep
  <2>2. Earned(job[c])'
    BY <1>1, <1>2, <1>5, <2>1 DEF Earned
  <2>3. SSHInv'
    BY <1>1, <1>2, <2>1, <2>2, MovesOn DEF Working, Status
  <2>4. SuccessIsEarned => SuccessIsEarned'
    BY <1>1, <1>2, <2>1, EarnedStays DEF SuccessIsEarned
  <2>5. QED
    BY <2>3, <2>4
<1>6. CASE /\ Return(c, "failed", "failed") /\ remote[job[c]] \in Ended
           /\ \/ out' = out
              \/ out' = [out EXCEPT ![c] = [of |-> job[c], done |-> FALSE]]
  <2>1. /\ at' = [at EXCEPT ![c] = "out"] /\ result' = [result EXCEPT ![c] = "failed"]
        /\ record' = [record EXCEPT ![job[c]] = "failed"]
        /\ UNCHANGED <<mode, job, tool, remote, sched, cancel, aim, known, batch>>
    BY <1>2, <1>6 DEF Return, sweep
  <2>2. out' \in [Caller -> [of : Job \cup {NoJob}, done : BOOLEAN]]
    <3>1. [of |-> job[c], done |-> FALSE] \in [of : Job \cup {NoJob}, done : BOOLEAN]
      BY <1>1
    <3>2. QED
      BY <1>1, <1>6, <3>1, Zenon
  <2>3. QED
    BY <1>1, <1>2, <1>6, <2>1, <2>2, GivesUp DEF Status
<1>7. QED
  BY <1>3, <1>4, <1>5, <1>6

\* The end of a call, and a client that takes what there is.
LEMMA DownloadStep ==
  ASSUME SSHInv, NEW c \in Caller, Download(c) \/ DownloadRaises(c) \/ Fetch(c)
  PROVE  SSHInv' /\ (SuccessIsEarned => SuccessIsEarned')
<1>1. /\ job[c] \in Job /\ at[c] \in {"download", "held"} /\ mode \in {"slurm", "pbs", "none"}
      /\ record \in [Job -> Status \cup {"none", "staged", "submitted"}] /\ record[job[c]] # "none"
      /\ out \in [Caller -> [of : Job \cup {NoJob}, done : BOOLEAN]]
  BY ModesAssumption DEF SSHInv, JobsInv, TypeOK, Download, DownloadRaises, Fetch
<1>2. remote' = remote /\ lost' = lost /\ misread' = misread
  BY DEF Download, DownloadRaises, Fetch
<1>3. CASE Download(c)
  <2>1. PICK answer \in {"success", "failed"} :
        /\ at[c] = "download"
        /\ at' = [at EXCEPT ![c] = "out"] /\ result' = [result EXCEPT ![c] = answer]
        /\ record' = [record EXCEPT ![job[c]] = "completed"]
        /\ UNCHANGED <<mode, job, tool, remote, sched, cancel, aim, known, batch>>
    BY <1>2, <1>3 DEF Download, Return, sweep
  <2>2. out' \in [Caller -> [of : Job \cup {NoJob}, done : BOOLEAN]]
    <3>1. PICK here \in [of : Job \cup {NoJob}, done : BOOLEAN] : out' = [out EXCEPT ![c] = here]
      BY <1>1, <1>3 DEF Download
    <3>2. QED
      BY <1>1, <3>1
  <2>3. Earned(job[c])
    BY <2>1 DEF SSHInv, RemoteInv
  <2>4. Live(job[c]) => job[c] \in lost
    BY <1>1, <2>3 DEF Earned
  <2>5. QED
    BY <1>1, <1>2, <2>1, <2>2, <2>3, <2>4, GivesUp DEF Status
<1>4. CASE DownloadRaises(c)
  <2>1. /\ at[c] = "download"
        /\ at' = [at EXCEPT ![c] = "out"] /\ result' = [result EXCEPT ![c] = "failed"]
        /\ record' = [record EXCEPT ![job[c]] = "failed"] /\ out' = out
        /\ UNCHANGED <<mode, job, tool, remote, sched, cancel, aim, known, batch>>
    BY <1>2, <1>4 DEF DownloadRaises, Return, sweep
  <2>2. Earned(job[c])
    BY <2>1 DEF SSHInv, RemoteInv
  <2>3. Live(job[c]) => job[c] \in lost
    BY <1>1, <2>2 DEF Earned
  <2>4. QED
    BY <1>1, <1>2, <2>1, <2>3, GivesUp DEF Status
<1>5. CASE Fetch(c)
  <2>1. /\ at[c] = "held" /\ record[job[c]] \notin {"staged", "submitted", "running"}
        /\ at' = [at EXCEPT ![c] = "out"] /\ result' = [result EXCEPT ![c] = "fetched"]
        /\ record' = record
        /\ UNCHANGED <<mode, job, tool, remote, sched, cancel, aim, known, batch>>
    BY <1>2, <1>5 DEF Fetch, registry, sweep
  <2>2. out' \in [Caller -> [of : Job \cup {NoJob}, done : BOOLEAN]]
    <3>1. \/ out' = out
          \/ \E here \in [of : Job \cup {NoJob}, done : BOOLEAN] : out' = [out EXCEPT ![c] = here]
      BY <1>1, <1>5 DEF Fetch
    <3>2. QED
      BY <1>1, <3>1
  <2>3. Live(job[c]) => job[c] \in lost \cup misread \/ record[job[c]] \in {"timeout", "cancelled", "pending"}
    BY <1>1, <2>1 DEF SSHInv, HeldInv, Status
  <2>4. QED
    BY <1>1, <1>2, <2>1, <2>2, <2>3, GivesUp DEF Status
<1>6. QED
  BY <1>3, <1>4, <1>5

\* sbatch accepts a script, or a direct run starts: its job is the caller's own.
LEMMA StartStep ==
  ASSUME SSHInv, NEW c \in Caller, Accepted(c) \/ DirectStarts(c)
  PROVE  SSHInv' /\ (SuccessIsEarned => SuccessIsEarned')
<1>1. /\ job[c] \in Job /\ record[job[c]] # "none" /\ remote[job[c]] = "absent"
      /\ at[c] \in {"submit", "submitStaged", "direct", "directStaged"}
      /\ NoJob \notin Job
  BY DEF SSHInv, JobsInv, RemoteInv, TypeOK, Accepted, DirectStarts
<1>2. PICK place \in Working, x \in {"queued", "running"} :
        /\ \/ place \in {"answer", "answerStaged"} /\ mode # "none"
           \/ place = at[c] /\ at[c] \in Direct
        /\ at' = [at EXCEPT ![c] = place] /\ remote' = [remote EXCEPT ![job[c]] = x]
        /\ mode' = mode /\ record' = record /\ sched' = sched /\ lost' = lost /\ misread' = misread /\ job' = job
        /\ tool' = tool /\ out' = out /\ result' = result
        /\ cancel' = cancel /\ aim' = aim /\ known' = known /\ batch' = batch
  <2>1. CASE Accepted(c)
    BY <2>1 DEF Accepted, GoOn, registry, sweep, Working, SSHInv, RemoteInv
  <2>2. CASE DirectStarts(c)
    <3>1. at = [at EXCEPT ![c] = at[c]]
      BY DEF SSHInv, TypeOK
    <3>2. QED
      BY <2>2, <3>1 DEF DirectStarts, registry, callers, sweep, Working
  <2>3. QED
    BY <2>1, <2>2
<1>3. /\ remote' \in [Job -> {"absent"} \cup Alive \cup Ended]
      /\ remote'[job[c]] = x /\ \A j \in Job \ {job[c]} : remote'[j] = remote[j]
      /\ at' \in [Caller -> Working \cup {"out", "staged", "held"}]
      /\ at'[c] = place /\ \A d \in Caller \ {c} : at'[d] = at[d]
  BY <1>1, <1>2 DEF SSHInv, TypeOK
<1>4. TypeOK'
  BY <1>2, <1>3 DEF SSHInv, TypeOK
<1>5. JobsInv'
  BY <1>1, <1>2, <1>3 DEF SSHInv, JobsInv, Working
<1>6. \A d \in Caller \ {c} : job[d] = NoJob \/ (job[d] \in Job /\ job[d] # job[c])
  BY <1>1 DEF SSHInv, JobsInv
<1>7. ASSUME NEW d \in Caller \ {c}, Earned(job[d]), job[d] # NoJob
      PROVE  Earned(job[d])'
  BY <1>2, <1>3, <1>6, <1>7, EarnedStays DEF SSHInv, TypeOK
<1>8. RemoteInv'
  <2>1. /\ \A j \in Job \ Registered' : remote'[j] = "absent"
        /\ \A j \in sched' : remote'[j] # "absent"
        /\ sched' # {} => mode' # "none"
        /\ \A j \in Job : remote'[j] = "requeued" => mode' = "slurm"
    BY <1>1, <1>2, <1>3 DEF SSHInv, RemoteInv, TypeOK
  <2>2. ASSUME NEW d \in Caller
        PROVE  /\ at'[d] \in Uploading => remote'[job'[d]] = "absent"
               /\ at'[d] \in {"answer", "answerStaged", "poll"} => remote'[job'[d]] # "absent"
               /\ at'[d] \in Queueing => mode' # "none"
               /\ at'[d] \in Direct => mode' = "none"
               /\ at'[d] = "download" => Earned(job[d])'
    <3>1. CASE d = c
      BY <1>1, <1>2, <1>3, <3>1 DEF SSHInv, RemoteInv
    <3>2. CASE d # c
      BY <1>2, <1>3, <1>6, <1>7, <3>2 DEF SSHInv, RemoteInv, JobsInv
    <3>3. QED
      BY <3>1, <3>2
  <2>3. QED
    BY <2>1, <2>2 DEF RemoteInv
<1>9. HeldInv'
  BY <1>1, <1>2, <1>3, <1>6 DEF SSHInv, HeldInv, JobsInv, Working
<1>10. CancelInv'
  BY <1>2 DEF SSHInv, CancelInv
<1>11. OrphanHasCause'
  BY <1>1, <1>2, <1>3 DEF SSHInv, OrphanHasCause, InHand, Working
<1>12. SuccessIsEarned => SuccessIsEarned'
  BY <1>1, <1>2, <1>6, <1>7 DEF SuccessIsEarned, SSHInv, JobsInv
<1>13. QED
  BY <1>4, <1>5, <1>8, <1>9, <1>10, <1>11, <1>12 DEF SSHInv

\* A live job goes on or ends on the remote side, by itself or by a cancel.
LEMMA RemoteMoves ==
  ASSUME SSHInv, NEW j \in Job, NEW x \in {"queued", "requeued", "running"} \cup Ended, x = "requeued" => mode = "slurm",
         remote' = [remote EXCEPT ![j] = x], Live(j),
         mode' = mode, record' = record, sched' = sched, lost' = lost, misread' = misread, job' = job, at' = at,
         tool' = tool, out' = out, result' = result,
         aim' = aim, known' = known, batch' = batch,
         cancel' \in [Actor -> {"none", "scan", "send", "mark"}],
         \A s \in Actor : cancel'[s] \in {"send", "mark"} => cancel[s] \in {"send", "mark"}
  PROVE  SSHInv' /\ (SuccessIsEarned => SuccessIsEarned')
<1>1. /\ remote' \in [Job -> {"absent"} \cup Alive \cup Ended]
      /\ remote'[j] = x /\ \A i \in Job \ {j} : remote'[i] = remote[i]
  BY DEF SSHInv, TypeOK
<1>2. TypeOK'
  BY <1>1 DEF SSHInv, TypeOK
<1>3. JobsInv' /\ CancelInv'
  BY DEF SSHInv, JobsInv, CancelInv
<1>4. ASSUME NEW i \in Job, Earned(i) PROVE Earned(i)'
  <2>1. mode \in {"slurm", "pbs", "none"}
    BY ModesAssumption DEF SSHInv, TypeOK
  <2>2. CASE i # j
    BY <1>1, <1>4, <2>2, EarnedStays DEF SSHInv, TypeOK
  <2>3. CASE i = j
    BY <1>4, <2>1, <2>3 DEF Earned
  <2>4. QED
    BY <2>2, <2>3
<1>5. RemoteInv'
  <2>1. \A c \in Caller : at[c] # "out" => job[c] \in Job
    BY DEF SSHInv, JobsInv
  <2>2. QED
    BY <1>1, <1>4, <2>1 DEF SSHInv, RemoteInv
<1>6. HeldInv' /\ OrphanHasCause'
  BY <1>1 DEF SSHInv, HeldInv, JobsInv, OrphanHasCause, InHand
<1>7. SuccessIsEarned => SuccessIsEarned'
  BY <1>4 DEF SuccessIsEarned, SSHInv, JobsInv
<1>8. QED
  BY <1>2, <1>3, <1>5, <1>6, <1>7 DEF SSHInv

\* cancel() and cancel_all read and write records, and their answers may be lost.
LEMMA Rerecorded ==
  ASSUME SSHInv, NEW j \in Job, NEW state \in Status, record[j] # "none",
         record' = record \/ record' = [record EXCEPT ![j] = state],
         mode' = mode, sched' = sched, remote' = remote, job' = job, at' = at,
         tool' = tool, out' = out, result' = result,
         lost \subseteq lost', lost' \subseteq Job,
         misread \subseteq misread', misread' \subseteq Job,
         aim' \in [Actor -> Job \cup {NoJob}], known' \in [Actor -> BOOLEAN],
         cancel' \in [Actor -> {"none", "scan", "send", "mark"}],
         batch' \in [Canceller -> SUBSET Registered],
         \A s \in Actor : cancel'[s] \in {"send", "mark"} => aim'[s] \in Registered,
         Live(j) => j \in misread' \/ state \in {"pending", "running", "cancelled"},
         Live(j) /\ state = "running" => InHand(j)
  PROVE  SSHInv' /\ (SuccessIsEarned => SuccessIsEarned')
<1>1. /\ record' \in [Job -> Status \cup {"none", "staged", "submitted"}]
      /\ record'[j] \in {record[j], state} /\ \A i \in Job \ {j} : record'[i] = record[i]
  <2>1. CASE record' = record
    BY <2>1 DEF SSHInv, TypeOK
  <2>2. CASE record' = [record EXCEPT ![j] = state]
    BY <2>2 DEF SSHInv, TypeOK
  <2>3. QED
    BY <2>1, <2>2
<1>2. Registered' = Registered
  BY <1>1 DEF Status
<1>3. TypeOK'
  BY <1>1 DEF SSHInv, TypeOK
<1>4. JobsInv' /\ CancelInv'
  BY <1>2 DEF SSHInv, JobsInv, CancelInv
<1>5. \A c \in Caller : Earned(job[c]) => Earned(job[c])'
  BY EarnedStays DEF SSHInv, TypeOK
<1>6. RemoteInv'
  BY <1>2, <1>5 DEF SSHInv, RemoteInv
<1>7. HeldInv'
  BY <1>1 DEF SSHInv, HeldInv, JobsInv
<1>8. OrphanHasCause'
  BY <1>1 DEF SSHInv, OrphanHasCause, InHand
<1>9. SuccessIsEarned => SuccessIsEarned'
  BY <1>5 DEF SuccessIsEarned
<1>10. QED
  BY <1>3, <1>4, <1>6, <1>7, <1>8, <1>9 DEF SSHInv

\* A set of jobs has a first one.
LEMMA FirstJob ==
  ASSUME NEW S \in SUBSET Nat, S # {}
  PROVE  Min(S) \in S
<1>1. PICK x \in S : \A y \in S : <<y, x>> \notin {ss \in Nat \X Nat : ss[1] < ss[2]}
  BY NatLessThanWellFounded, WFMin, Zenon DEF OpToRel
<1>2. ASSUME NEW y \in S PROVE x <= y
  <2>1. x \in Nat /\ y \in Nat /\ <<y, x>> \in Nat \X Nat
    OBVIOUS
  <2>2. ~(<<y, x>>[1] < <<y, x>>[2])
    BY <1>1, <2>1, Zenon
  <2>3. QED
    BY <2>1, <2>2
<1>3. \A y \in S : x <= y
  BY <1>2
<1>4. QED
  BY <1>1, <1>3, Zenon DEF Min

LEMMA SweepStep ==
  ASSUME SSHInv, NEW k \in Canceller, CancelAll(k) \/ Scan(k) \/ SweepDone(k)
  PROVE  SSHInv' /\ (SuccessIsEarned => SuccessIsEarned')
<1>1. /\ mode' = mode /\ record' = record /\ sched' = sched /\ remote' = remote /\ lost' = lost
      /\ misread' = misread /\ job' = job /\ at' = at /\ tool' = tool /\ out' = out /\ result' = result
  BY DEF CancelAll, Scan, SweepDone, registry, callers
<1>2. /\ cancel \in [Actor -> {"none", "scan", "send", "mark"}]
      /\ aim \in [Actor -> Job \cup {NoJob}] /\ known \in [Actor -> BOOLEAN]
      /\ batch \in [Canceller -> SUBSET Registered] /\ Registered \subseteq Job
      /\ k \in Actor /\ NoJob \notin Job
  BY DEF SSHInv, TypeOK, CancelInv
<1>3. Registered' = Registered
  BY <1>1
<1>4. /\ cancel' \in [Actor -> {"none", "scan", "send", "mark"}]
      /\ aim' \in [Actor -> Job \cup {NoJob}] /\ known' \in [Actor -> BOOLEAN]
      /\ batch' \in [Canceller -> SUBSET Registered]
      /\ \A s \in Actor : cancel'[s] \in {"send", "mark"} => aim'[s] \in Registered
  <2>1. CASE CancelAll(k)
    BY <1>2, <2>1 DEF CancelAll, SSHInv, CancelInv
  <2>2. CASE SweepDone(k)
    BY <1>2, <2>2 DEF SweepDone, SSHInv, CancelInv
  <2>3. CASE Scan(k)
    <3>1. PICK live \in BOOLEAN, j \in Registered :
            /\ batch' = [batch EXCEPT ![k] = @ \ {j}]
            /\ cancel' = [cancel EXCEPT ![k] = IF live THEN "send" ELSE "scan"]
            /\ aim' = [aim EXCEPT ![k] = IF live THEN j ELSE NoJob]
      <4>1. Min(batch[k]) \in Registered
        BY <1>2, <2>3, FirstJob DEF Scan
      <4>2. CASE record[Min(batch[k])] \in {"staged", "submitted", "running"}
        BY <2>3, <4>1, <4>2 DEF Scan
      <4>3. CASE record[Min(batch[k])] \notin {"staged", "submitted", "running"}
        BY <2>3, <4>1, <4>3 DEF Scan
      <4>4. QED
        BY <4>2, <4>3
    <3>2. known' \in [Actor -> BOOLEAN]
      <4>1. PICK b \in BOOLEAN : known' = [known EXCEPT ![k] = b]
        BY <2>3, Zenon DEF Scan
      <4>2. QED
        BY <1>2, <4>1
    <3>3. QED
      BY <1>2, <3>1, <3>2 DEF SSHInv, CancelInv
  <2>4. QED
    BY <2>1, <2>2, <2>3
<1>5. TypeOK'
  BY <1>1, <1>2, <1>4 DEF SSHInv, TypeOK
<1>6. CancelInv'
  BY <1>3, <1>4 DEF CancelInv
<1>7. JobsInv' /\ HeldInv' /\ OrphanHasCause'
  BY <1>1, <1>3 DEF SSHInv, JobsInv, HeldInv, OrphanHasCause, InHand
<1>8. \A c \in Caller : Earned(job[c]) => Earned(job[c])'
  BY <1>1, EarnedStays DEF SSHInv, TypeOK
<1>9. RemoteInv' /\ (SuccessIsEarned => SuccessIsEarned')
  BY <1>1, <1>3, <1>8 DEF SSHInv, RemoteInv, SuccessIsEarned
<1>10. QED
  BY <1>5, <1>6, <1>7, <1>9 DEF SSHInv

LEMMA CancelStep ==
  ASSUME SSHInv, NEW s \in Actor, SendCancel(s) \/ MarkCancelled(s)
  PROVE  SSHInv' /\ (SuccessIsEarned => SuccessIsEarned')
<1>1. /\ mode' = mode /\ sched' = sched /\ misread' = misread /\ misread \subseteq Job
      /\ job' = job /\ at' = at /\ tool' = tool /\ out' = out /\ result' = result /\ batch' = batch
  BY DEF SendCancel, MarkCancelled, registry, callers, SSHInv, TypeOK
<1>2. /\ cancel[s] \in {"send", "mark"} /\ aim[s] \in Job /\ record[aim[s]] # "none"
      /\ cancel \in [Actor -> {"none", "scan", "send", "mark"}]
      /\ aim \in [Actor -> Job \cup {NoJob}] /\ known \in [Actor -> BOOLEAN]
      /\ batch \in [Canceller -> SUBSET Registered] /\ lost \subseteq Job
  BY DEF SSHInv, TypeOK, CancelInv, SendCancel, MarkCancelled
<1>3. CASE MarkCancelled(s)
  <2>1. PICK place \in {"scan", "none"} :
          /\ record' = [record EXCEPT ![aim[s]] = "cancelled"]
          /\ cancel' = [cancel EXCEPT ![s] = place]
          /\ aim' = [aim EXCEPT ![s] = NoJob] /\ known' = [known EXCEPT ![s] = FALSE]
          /\ remote' = remote /\ lost' = lost
    BY <1>3 DEF MarkCancelled
  <2>2. /\ aim' \in [Actor -> Job \cup {NoJob}] /\ known' \in [Actor -> BOOLEAN]
        /\ cancel' \in [Actor -> {"none", "scan", "send", "mark"}]
        /\ \A r \in Actor : cancel'[r] \in {"send", "mark"} => aim'[r] \in Registered
    BY <1>2, <2>1 DEF SSHInv, CancelInv
  <2>3. QED
    BY <1>1, <1>2, <2>1, <2>2, Rerecorded DEF Status
<1>4. CASE SendCancel(s)
  <2>1. /\ cancel' = [cancel EXCEPT ![s] = "mark"]
        /\ record' = record /\ aim' = aim /\ known' = known
    BY <1>4 DEF SendCancel, registry
  <2>2. /\ cancel' \in [Actor -> {"none", "scan", "send", "mark"}]
        /\ \A r \in Actor : cancel'[r] \in {"send", "mark"} => cancel[r] \in {"send", "mark"}
        /\ \A r \in Actor : cancel'[r] \in {"send", "mark"} => aim[r] \in Registered
    BY <1>2, <2>1 DEF SSHInv, CancelInv
  <2>3. CASE remote' = remote /\ lost' \in {lost, lost \cup {aim[s]}}
    BY <1>1, <1>2, <2>1, <2>2, <2>3, Rerecorded DEF Status
  <2>4. CASE Live(aim[s]) /\ remote' = [remote EXCEPT ![aim[s]] = "killed"] /\ lost' = lost
    BY <1>1, <1>2, <2>1, <2>2, <2>4, RemoteMoves
  <2>5. \/ remote' = remote /\ lost' \in {lost, lost \cup {aim[s]}}
        \/ /\ remote' = [remote EXCEPT ![aim[s]] = IF Live(aim[s]) THEN "killed" ELSE @]
           /\ lost' = lost
    BY <1>4, Zenon DEF SendCancel
  <2>6. ~Live(aim[s]) => [remote EXCEPT ![aim[s]] = IF Live(aim[s]) THEN "killed" ELSE @] = remote
    BY <1>2 DEF SSHInv, TypeOK
  <2>7. QED
    BY <2>3, <2>4, <2>5, <2>6
<1>5. QED
  BY <1>3, <1>4

\* What a client does with the job it holds.
LEMMA ClientStep ==
  ASSUME SSHInv, NEW c \in Caller, AskStatus(c) \/ Cancel(c)
  PROVE  SSHInv' /\ (SuccessIsEarned => SuccessIsEarned')
<1>1. /\ mode' = mode /\ sched' = sched /\ remote' = remote /\ lost' = lost /\ misread \subseteq Job
      /\ job' = job /\ at' = at /\ tool' = tool /\ out' = out /\ result' = result /\ batch' = batch
  BY DEF AskStatus, Cancel, registry, callers, sweep, SSHInv, TypeOK
<1>2. /\ at[c] # "out" /\ job[c] \in Job /\ record[job[c]] # "none" /\ InHand(job[c])
      /\ c \in Actor /\ lost \subseteq Job
      /\ cancel \in [Actor -> {"none", "scan", "send", "mark"}]
      /\ aim \in [Actor -> Job \cup {NoJob}] /\ known \in [Actor -> BOOLEAN]
      /\ batch \in [Canceller -> SUBSET Registered]
      /\ \A r \in Actor : cancel[r] \in {"send", "mark"} => aim[r] \in Registered
  BY DEF SSHInv, TypeOK, JobsInv, CancelInv, AskStatus, Cancel, InHand
<1>3. CASE AskStatus(c)
  <2>1. PICK state \in Answer(job[c]) \ {"unknown"} :
          record' = [record EXCEPT ![job[c]] = state] /\ Misreading(job[c], state)
    BY <1>3 DEF AskStatus
  <2>2. /\ misread \subseteq misread' /\ misread' \subseteq Job
        /\ Live(job[c]) /\ state \in TerminalStatus => job[c] \in misread'
    BY <1>1, <1>2, <2>1, MisreadingMarks
  <2>2a. state \in Status
    <3>1. remote[job[c]] # "absent" /\ mode # "none"
      BY <1>3 DEF AskStatus, SSHInv, RemoteInv
    <3>2. QED
      BY <1>2, <2>1, <3>1, AnswerType
  <2>3. Live(job[c]) => job[c] \in misread' \/ state \in {"pending", "running", "cancelled"}
    BY <2>2, <2>2a DEF Status, TerminalStatus
  <2>4. cancel' = cancel /\ aim' = aim /\ known' = known
    BY <1>3 DEF AskStatus, sweep
  <2>5. QED
    BY <1>1, <1>2, <2>1, <2>2, <2>2a, <2>3, <2>4, Rerecorded
<1>4. CASE Cancel(c)
  <2>1. PICK b \in BOOLEAN : known' = [known EXCEPT ![c] = b]
    <3>1. (job[c] \in sched) \in BOOLEAN
      OBVIOUS
    <3>2. known' = [known EXCEPT ![c] = job[c] \in sched]
      BY <1>4 DEF Cancel
    <3>3. QED
      BY <3>1, <3>2, Zenon
  <2>2. /\ cancel' = [cancel EXCEPT ![c] = "send"] /\ aim' = [aim EXCEPT ![c] = job[c]]
        /\ record' = record /\ misread' = misread
    BY <1>4 DEF Cancel, registry
  <2>3. /\ aim' \in [Actor -> Job \cup {NoJob}] /\ known' \in [Actor -> BOOLEAN]
        /\ cancel' \in [Actor -> {"none", "scan", "send", "mark"}]
        /\ \A r \in Actor : cancel'[r] \in {"send", "mark"} => aim'[r] \in Registered
    BY <1>2, <2>1, <2>2
  <2>4. QED
    BY <1>1, <1>2, <2>2, <2>3, Rerecorded DEF Status
<1>5. QED
  BY <1>3, <1>4

LEMMA RemoteStep ==
  ASSUME SSHInv, NEW j \in Job, RemoteStarts(j) \/ RemoteRequeues(j) \/ RemoteEnds(j)
  PROVE  SSHInv' /\ (SuccessIsEarned => SuccessIsEarned')
<1>1. PICK x \in {"queued", "requeued", "running"} \cup Ended :
        remote' = [remote EXCEPT ![j] = x] /\ Live(j) /\ (x = "requeued" => mode = "slurm")
  <2>1. CASE RemoteRequeues(j)
    <3>1. CASE mode = "slurm"
      BY <2>1, <3>1 DEF RemoteRequeues
    <3>2. CASE mode # "slurm"
      BY <2>1, <3>2 DEF RemoteRequeues
    <3>3. QED
      BY <3>1, <3>2
  <2>2. CASE RemoteStarts(j) \/ RemoteEnds(j)
    BY <2>2 DEF RemoteStarts, RemoteEnds
  <2>3. QED
    BY <2>1, <2>2
<1>2. /\ mode' = mode /\ record' = record /\ sched' = sched /\ lost' = lost /\ job' = job /\ at' = at
      /\ misread' = misread /\ tool' = tool /\ out' = out /\ result' = result
      /\ cancel' = cancel /\ aim' = aim /\ known' = known /\ batch' = batch
  BY DEF RemoteStarts, RemoteRequeues, RemoteEnds, registry, callers, sweep
<1>3. cancel \in [Actor -> {"none", "scan", "send", "mark"}]
  BY DEF SSHInv, TypeOK
<1>4. QED
  BY <1>1, <1>2, <1>3, RemoteMoves

LEMMA SSHStep ==
  ASSUME SSHInv, SuccessIsEarned, [Next]_remoting
  PROVE  SSHInv' /\ SuccessIsEarned'
<1>1. ASSUME NEW c \in Caller, RunTool(c) \/ Stage(c) PROVE SSHInv' /\ SuccessIsEarned'
  <2>1. SSHInv'
    BY <1>1, NewJobStep
  <2>2. SuccessIsEarned'
    <3>1. PICK place, state : NewJob(c, place, state)
      BY <1>1 DEF RunTool, Stage
    <3>2. /\ mode' = mode /\ remote' = remote /\ lost' = lost /\ at[c] = "out"
          /\ result' = [result EXCEPT ![c] = "none"]
          /\ \A d \in Caller \ {c} : job'[d] = job[d]
      BY <3>1 DEF NewJob, SSHInv, TypeOK
    <3>3. ASSUME NEW d \in Caller, result'[d] = "success" PROVE Earned(job[d])'
      <4>1. d # c /\ result[d] = "success" /\ job'[d] = job[d]
        BY <3>2, <3>3 DEF SSHInv, TypeOK
      <4>2. Earned(job[d])
        BY <4>1 DEF SuccessIsEarned
      <4>3. Earned(job[d])' <=> Earned(job[d])
        BY <3>2, <4>1 DEF Earned
      <4>4. QED
        BY <4>2, <4>3
    <3>4. QED
      BY <3>3 DEF SuccessIsEarned
  <2>3. QED
    BY <2>1, <2>2
<1>2. ASSUME NEW c \in Caller,
             Submit(c) \/ Proceed(c) \/ Polled(c) \/ DirectStarts(c)
               \/ AskStatus(c) \/ Fetch(c) \/ Cancel(c)
      PROVE  SSHInv' /\ SuccessIsEarned'
  BY <1>2, UploadStep, PollStep, DirectStep, DownloadStep, StartStep, ClientStep DEF Proceed
<1>3. ASSUME NEW k \in Canceller, CancelAll(k) \/ Scan(k) \/ SweepDone(k)
      PROVE  SSHInv' /\ SuccessIsEarned'
  BY <1>3, SweepStep
<1>4. ASSUME NEW s \in Actor, Sweeping(s) PROVE SSHInv' /\ SuccessIsEarned'
  BY <1>4, CancelStep DEF Sweeping
<1>5. ASSUME NEW j \in Job, RemoteStarts(j) \/ RemoteRequeues(j) \/ RemoteEnds(j)
      PROVE  SSHInv' /\ SuccessIsEarned'
  BY <1>5, RemoteStep
<1>6. CASE UNCHANGED remoting
  <2>1. /\ mode' = mode /\ record' = record /\ sched' = sched /\ remote' = remote /\ lost' = lost
        /\ misread' = misread /\ job' = job /\ at' = at /\ tool' = tool /\ out' = out /\ result' = result
        /\ cancel' = cancel /\ aim' = aim /\ known' = known /\ batch' = batch
    BY <1>6 DEF remoting
  <2>2. TypeOK' /\ JobsInv' /\ HeldInv' /\ CancelInv' /\ OrphanHasCause'
    BY <2>1 DEF SSHInv, TypeOK, JobsInv, HeldInv, CancelInv, OrphanHasCause, InHand
  <2>3. \A c \in Caller : Earned(job[c]) => Earned(job[c])'
    BY <2>1, EarnedStays DEF SSHInv, TypeOK
  <2>4. RemoteInv' /\ SuccessIsEarned'
    BY <2>1, <2>3 DEF SSHInv, RemoteInv, SuccessIsEarned
  <2>5. QED
    BY <2>2, <2>4 DEF SSHInv
<1>7. QED
  BY <1>1, <1>2, <1>3, <1>4, <1>5, <1>6 DEF Next

\* The inductive invariant: types, a job of its own for each call, what there is
\* of it on the remote side at each place of the call, and what cancels aim at
\* (executor.py, SSHExecutor).
THEOREM RemoteInvariant == Spec => [](SSHInv /\ SuccessIsEarned)
<1>1. Init => SSHInv /\ SuccessIsEarned
  BY SSHInit DEF Init, SuccessIsEarned
<1>2. SSHInv /\ SuccessIsEarned /\ [Next]_remoting => (SSHInv /\ SuccessIsEarned)'
  BY SSHStep
<1>3. QED
  BY <1>1, <1>2, PTL DEF Spec

\* Whatever commands fail or lose their answers and whoever cancels, a program
\* that goes on after its call has a recorded cause (_run_remote_tool,
\* _poll_scheduler, fetch, cancel_all).
THEOREM OrphansHaveCauses == Spec => []OrphanHasCause
<1>1. SSHInv => OrphanHasCause
  BY DEF SSHInv
<1>2. QED
  BY <1>1, RemoteInvariant, PTL

\* A success that run_pw and its like report is one of a program that ended well,
\* as far as its scheduler can tell, or of a direct run that lost its connection
\* (_poll_scheduler, _run_direct).
THEOREM SuccessesAreEarned == Spec => []SuccessIsEarned
BY RemoteInvariant, PTL

=============================================================================
