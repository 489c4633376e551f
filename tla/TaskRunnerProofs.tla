------------------------- MODULE TaskRunnerProofs --------------------------
(***************************************************************************)
(* Proofs about TaskRunner for any catalog of tasks, any max_attempts, and *)
(* any number of runs and crashes.                                         *)
(***************************************************************************)
EXTENDS TaskRunner, FiniteSetTheorems, TLAPS

Early == {"relax", "scf", "nscf", "tool"}
Writing == {"evidenceOpen", "result", "resultOpen", "ledger"}
Late == {"evidence"} \cup Writing
Stages == Early \cup {"judge"} \cup Late
Fronts == {"runner", "agent"}
Answers == {"ecutwfc", "kpoints", "check_pseudos", "nbnd", "kpoints_nscf", "check_nscf_output",
            "conv_thr", "check_structure", "retry", "give_up"}

Verdicts == [passed: BOOLEAN, kind: Kinds \cup {""}, actions: SUBSET Answers, attempt: Nat,
             rests: Products]
RunRecords == [stage: Stages, task: Tasks, front: Fronts, run: RunIds, scf: ScfOutcomes,
               nscf: NscfOutcomes, tool: ToolOutcomes, reasons: SUBSET Reasons,
               verdict: Verdicts]
KnownRecords == [run: RunIds, life: Nat, front: Fronts, scf: ScfOutcomes, nscf: NscfOutcomes,
                 tool: ToolOutcomes, reasons: SUBSET Reasons, rests: Products]
RowRecords == [task: Tasks, success: BOOLEAN, attempt: Nat, kind: Kinds \cup {""},
               actions: SUBSET Answers, known: KnownRecords]
Disks == [save: Saves, bands: Products, dos: Products, evidence: Papers, result: Papers]

RunnerTypes ==
  /\ cur \in {Idle} \cup RunRecords
  /\ lives \in [n: Nat \ {0}, records: Nat]
  /\ disk \in Disks
  /\ rows \in Seq(RowRecords)
  /\ runs \in RunIds
  /\ crashes \in 0..MaxCrashes
  /\ lives.records <= runs
  /\ cur # Idle => cur.run = runs /\ runs > 0
  /\ cur # Idle /\ cur.stage \in Early \cup {"judge"} => lives.records < runs

\* Nothing in the directory is of a later run than the present one, and of the
\* present one is only what its stages have come to.
DiskInv ==
  /\ disk.save.scf <= runs
  /\ disk.bands.by <= runs /\ disk.dos.by <= runs
  /\ disk.evidence.of <= runs /\ disk.result.of <= runs
  /\ cur.stage \in Early => disk.bands.by < runs /\ disk.dos.by < runs
  /\ cur.stage \in {"relax", "scf"} => disk.save.scf < runs
  /\ cur.stage \in {"nscf", "tool"} =>
       /\ cur.scf = "good" => disk.save.scf = runs
       /\ cur.scf = "cut" => disk.save.scf < runs
  /\ cur.stage = "tool" /\ cur.nscf = "good" => disk.save.nscf = runs

\* What a passed verdict may rest on: StaleHasCause of one run.
RestsHaveCause(run, scf, tool, rests) ==
  \/ rests = OwnWork(run)
  \/ tool = "nothing" /\ rests.by \in 1..(run - 1)
  \/ /\ scf = "cut"
     /\ rests = [OwnWork(run) EXCEPT !.save.scf = rests.save.scf]
     /\ rests.save.scf \in 1..(run - 1)

\* The reasons of a verdict are those of its pipeline's checks.
Checked(task, scf, nscf, reasons, rests) ==
  IF Pipeline[task] = "T1" THEN reasons \in {{}} \cup T1Failures
  ELSE reasons = T2Reasons(scf, nscf, rests)

JudgeInv ==
  /\ cur.stage = "relax" => Pipeline[cur.task] = "T1"
  /\ cur.stage \in {"scf", "nscf", "tool"} => Pipeline[cur.task] # "T1"
  /\ cur.stage \in {"judge"} \cup Late =>
       /\ Checked(cur.task, cur.scf, cur.nscf, cur.reasons, cur.verdict.rests)
       /\ Pipeline[cur.task] # "T1" /\ cur.reasons = {} =>
            RestsHaveCause(cur.run, cur.scf, cur.tool, cur.verdict.rests)
  /\ cur.stage \in Late =>
       /\ cur.verdict.passed <=> cur.reasons = {}
       /\ cur.verdict.kind = Classify(cur.reasons)
       /\ cur.verdict.actions \in {{"give_up"}, Planned[cur.verdict.kind]}

\* What every row of the ledger is: the verdict of a run.
RowIsFair(row) ==
  LET k == row.known IN
  /\ Checked(row.task, k.scf, k.nscf, k.reasons, k.rests)
  /\ row.success <=> k.reasons = {}
  /\ Pipeline[row.task] # "T1" /\ k.reasons = {} => RestsHaveCause(k.run, k.scf, k.tool, k.rests)
  /\ \/ k.front = "agent" /\ row.kind = "" /\ row.actions = {}
     \/ /\ k.front = "runner" /\ row.kind = Classify(k.reasons)
        /\ row.actions \in {{"give_up"}, Planned[row.kind]}

RowsInv == \A i \in DOMAIN rows : RowIsFair(rows[i])

\* The files of a run are there and whole before its row, whatever died in
\* between; a file cut short is of a run without a row.
PaperInv ==
  /\ \A i \in DOMAIN rows :
       /\ rows[i].known.run <= disk.result.of /\ rows[i].known.run <= disk.evidence.of
       /\ ~disk.evidence.whole => rows[i].known.run < disk.evidence.of
       /\ ~disk.result.whole => rows[i].known.run < disk.result.of
       /\ rows[i].known.run <= runs
       /\ cur # Idle => rows[i].known.run < runs
  /\ disk.result.of <= disk.evidence.of
  /\ cur.stage \in Writing => disk.evidence.of = runs
  /\ cur.stage \in Writing \ {"evidenceOpen"} => disk.evidence.whole
  /\ cur.stage \in {"resultOpen", "ledger"} => disk.result.of = runs
  /\ cur.stage = "ledger" => disk.result.whole
  /\ crashes = 0 =>
       /\ cur.stage # "evidenceOpen" => disk.evidence.whole
       /\ cur.stage # "resultOpen" => disk.result.whole
       /\ cur.stage \notin {"evidenceOpen", "result"} => disk.evidence.of = disk.result.of
  /\ ~disk.evidence.whole => crashes > 0 \/ disk.evidence.of = runs
  /\ ~disk.result.whole => crashes > 0 \/ disk.result.of = runs

RunnerInv == RunnerTypes /\ DiskInv /\ JudgeInv /\ RowsInv /\ PaperInv

-----------------------------------------------------------------------------
\* The fields of a typed state.
LEMMA Fields ==
  ASSUME RunnerTypes
  PROVE  /\ MaxRuns \in Nat /\ runs \in Nat /\ runs <= MaxRuns
         /\ cur.stage \in Stages \cup {"idle"}
         /\ cur = Idle <=> cur.stage = "idle"
         /\ cur # Idle => cur \in RunRecords /\ cur.run = runs /\ runs > 0
         /\ cur # Idle =>
              /\ cur.task \in Tasks /\ cur.front \in Fronts
              /\ cur.scf \in ScfOutcomes /\ cur.nscf \in NscfOutcomes
              /\ cur.tool \in ToolOutcomes /\ cur.reasons \in SUBSET Reasons
              /\ cur.verdict \in Verdicts
         /\ disk.save \in Saves /\ disk.bands \in Products /\ disk.dos \in Products
         /\ disk.evidence \in Papers /\ disk.result \in Papers
         /\ lives.n \in Nat \ {0} /\ lives.records \in Nat
PROOF
  BY RunnerAssumption DEF RunnerTypes, RunRecords, Disks, Idle, Stages, Early, Late, Writing, RunIds

LEMMA InitRunner ==
  ASSUME Init
  PROVE  RunnerInv
PROOF
  <1>1. RunnerTypes
    BY RunnerAssumption DEF Init, RunnerTypes, Disks, Saves, Products, Papers, NoSave, NoProduct,
                            NoPaper, RunIds, Idle, Early
  <1>2. DiskInv
    BY DEF Init, DiskInv, NoSave, NoProduct, NoPaper, Idle, Early
  <1>3. JudgeInv /\ RowsInv /\ PaperInv
    BY DEF Init, JudgeInv, RowsInv, PaperInv, NoPaper, Idle, Early, Late, Writing
  <1> QED
    BY <1>1, <1>2, <1>3 DEF RunnerInv

\* A step that changes neither the ledger nor any verdict in it.
LEMMA RowsRest ==
  ASSUME RowsInv, rows' = rows
  PROVE  RowsInv'
PROOF
  BY DEF RowsInv, RowIsFair, Checked, RestsHaveCause

\* The run of every row is a number.
LEMMA RowRuns ==
  ASSUME RunnerTypes
  PROVE  \A i \in DOMAIN rows : rows[i].known.run \in Nat
PROOF
  <1>1. \A i \in DOMAIN rows : rows[i] \in RowRecords
    BY DEF RunnerTypes
  <1>2. \A row \in RowRecords : row.known.run \in RunIds
    BY DEF RowRecords, KnownRecords
  <1> QED
    BY <1>1, <1>2, RunnerAssumption DEF RunIds

LEMMA StartKeeps ==
  ASSUME RunnerInv, NEW t \in Tasks, NEW front \in Fronts, Start(t, front)
  PROVE  RunnerInv'
PROOF
  <1>0. /\ cur = Idle /\ runs < MaxRuns /\ runs' = runs + 1
        /\ lives' = lives /\ disk' = disk /\ rows' = rows /\ crashes' = crashes
        /\ cur' = [stage |-> FirstStage(t), task |-> t, front |-> front, run |-> runs + 1,
                   scf |-> "broken", nscf |-> "broken", tool |-> "nothing",
                   reasons |-> {}, verdict |-> NoVerdict]
    BY DEF Start
  <1>f. /\ MaxRuns \in Nat /\ runs \in Nat
        /\ disk.save \in Saves /\ disk.bands \in Products /\ disk.dos \in Products
        /\ disk.evidence \in Papers /\ disk.result \in Papers
    BY Fields DEF RunnerInv
  <1>s. FirstStage(t) \in {"relax", "scf"}
        /\ (FirstStage(t) = "relax" => Pipeline[t] = "T1")
        /\ (FirstStage(t) = "scf" => Pipeline[t] # "T1")
    BY DEF FirstStage
  <1>v. NoVerdict \in Verdicts
    BY <1>f DEF NoVerdict, Verdicts, NoProduct, Products, NoSave, Saves, RunIds
  <1>1. RunnerTypes'
    <2>1. cur' \in RunRecords
      BY <1>0, <1>f, <1>s, <1>v
      DEF RunRecords, Stages, Early, Late, Writing, ScfOutcomes, NscfOutcomes, ToolOutcomes, RunIds
    <2> QED
      BY <1>0, <1>f, <2>1 DEF RunnerInv, RunnerTypes, RunIds
  <1>2. DiskInv'
    BY <1>0, <1>f, <1>s DEF RunnerInv, DiskInv, Early, Saves, Products, Papers, RunIds
  <1>3. JudgeInv'
    BY <1>0, <1>s DEF JudgeInv, Late, Writing
  <1>4. PaperInv'
    <2>1. /\ disk.evidence.of \in Nat /\ disk.result.of \in Nat /\ crashes \in Nat
          /\ \A i \in DOMAIN rows : rows[i].known.run \in Nat
      BY RowRuns, RunnerAssumption DEF RunnerInv, RunnerTypes, Disks, Papers, RunIds
    <2>2. cur.stage = "idle" /\ disk.evidence.of <= runs /\ disk.result.of <= runs
      BY <1>0 DEF RunnerInv, DiskInv, Idle
    <2>3. crashes = 0 => disk.evidence.whole /\ disk.result.whole
      BY <2>2 DEF RunnerInv, PaperInv, Writing, Idle
    <2> QED
      BY <1>0, <1>f, <1>s, <2>1, <2>2, <2>3 DEF RunnerInv, PaperInv, Writing, Idle
  <1> QED
    BY <1>0, <1>1, <1>2, <1>3, <1>4, RowsRest DEF RunnerInv

\* The run is over without a row: the compiler raised or the process died.
LEMMA RunEnds ==
  ASSUME RunnerInv, cur' = Idle, disk' = disk, rows' = rows, runs' = runs,
         lives' \in [n: Nat \ {0}, records: Nat], lives'.records <= runs,
         crashes' \in 0..MaxCrashes,
         crashes' = 0 \/ cur = Idle => crashes' = crashes,
         crashes' = 0 => cur.stage \notin {"evidenceOpen", "result", "resultOpen"},
         crashes' # crashes => crashes' > 0
  PROVE  RunnerInv'
PROOF
  <1>1. RunnerTypes'
    BY DEF RunnerInv, RunnerTypes, Idle, Early
  <1>2. DiskInv'
    BY DEF RunnerInv, DiskInv, Idle, Early
  <1>3. JudgeInv'
    BY DEF JudgeInv, Idle, Late, Writing
  <1>4. PaperInv'
    BY DEF RunnerInv, PaperInv, Idle, Writing
  <1> QED
    BY <1>1, <1>2, <1>3, <1>4, RowsRest DEF RunnerInv

LEMMA CompileFailsKeeps ==
  ASSUME RunnerInv, CompileFails
  PROVE  RunnerInv'
PROOF
  BY RunEnds DEF CompileFails, RunnerInv, RunnerTypes, Idle

LEMMA CrashKeeps ==
  ASSUME RunnerInv, Crash
  PROVE  RunnerInv'
PROOF
  <1>1. /\ lives' = [n |-> lives.n + 1, records |-> 0] /\ lives.n \in Nat
        /\ crashes < MaxCrashes /\ crashes' = crashes + 1 /\ MaxCrashes \in Nat
        /\ runs \in Nat /\ crashes \in 0..MaxCrashes
    BY Fields, RunnerAssumption DEF Crash, RunnerInv, RunnerTypes
  <1>2. lives' \in [n: Nat \ {0}, records: Nat] /\ lives'.records <= runs
    BY <1>1
  <1>3. crashes' \in 0..MaxCrashes /\ crashes' # 0
    BY <1>1
  <1> QED
    BY <1>2, <1>3, RunEnds DEF Crash

LEMMA NewRunnerKeeps ==
  ASSUME RunnerInv, NewRunner
  PROVE  RunnerInv'
PROOF
  <1>1. /\ lives' = [n |-> lives.n + 1, records |-> 0] /\ lives.n \in Nat /\ runs \in Nat
        /\ cur = Idle /\ cur' = cur
    BY Fields DEF NewRunner, RunnerInv
  <1>2. lives' \in [n: Nat \ {0}, records: Nat] /\ lives'.records <= runs
    BY <1>1
  <1> QED
    BY <1>1, <1>2, RunEnds DEF NewRunner, RunnerInv, RunnerTypes, Idle

LEMMA FailuresAreReasons ==
  /\ T1Failures \subseteq SUBSET Reasons
  /\ \A scf, nscf, product : T2Reasons(scf, nscf, product) \subseteq {"scf", "nscf", "missing", "empty"}
PROOF
  BY DEF T1Failures, T2Reasons, Reasons

LEMMA RelaxKeeps ==
  ASSUME RunnerInv, Relax
  PROVE  RunnerInv'
PROOF
  <1>1. PICK reasons \in {{}} \cup T1Failures :
          cur' = [cur EXCEPT !.stage = "judge", !.reasons = reasons]
    BY DEF Relax
  <1>2. /\ cur.stage = "relax" /\ lives' = lives /\ rows' = rows /\ runs' = runs
        /\ crashes' = crashes
        /\ disk' = disk \/ disk' = [disk EXCEPT !.save = [scf |-> cur.run, nscf |-> 0]]
    BY DEF Relax
  <1>3. /\ cur \in RunRecords /\ cur # Idle /\ cur.run = runs /\ runs \in RunIds
        /\ runs \in Nat /\ runs > 0
    BY <1>2, Fields DEF RunnerInv, RunnerTypes
  <1>4. reasons \in SUBSET Reasons
    BY FailuresAreReasons
  <1>5. cur' \in RunRecords
    BY <1>1, <1>3, <1>4 DEF RunRecords, Stages
  <1>6. /\ cur'.stage = "judge" /\ cur'.reasons = reasons /\ cur'.task = cur.task
        /\ cur'.run = cur.run
    BY <1>1, <1>3 DEF RunRecords
  <1>7. /\ disk' \in Disks
        /\ disk'.save.scf <= runs
        /\ disk'.bands = disk.bands /\ disk'.dos = disk.dos
        /\ disk'.evidence = disk.evidence /\ disk'.result = disk.result
    <2>1. disk \in Disks /\ disk.save.scf <= runs
      BY DEF RunnerInv, RunnerTypes, DiskInv
    <2>2. [scf |-> cur.run, nscf |-> 0] \in Saves
      BY <1>3, RunnerAssumption DEF Saves, RunIds
    <2> QED
      BY <1>2, <1>3, <2>1, <2>2 DEF Disks
  <1>8. RunnerTypes'
    BY <1>2, <1>3, <1>5, <1>6, <1>7 DEF RunnerInv, RunnerTypes, Idle, Early
  <1>9. DiskInv'
    BY <1>2, <1>6, <1>7 DEF RunnerInv, DiskInv, Early
  <1>10. JudgeInv'
    <2>1. Pipeline[cur.task] = "T1"
      BY <1>2 DEF RunnerInv, JudgeInv
    <2> QED
      BY <1>6, <2>1 DEF JudgeInv, Checked, Late, Writing
  <1>11. PaperInv'
    BY <1>2, <1>6, <1>7 DEF RunnerInv, PaperInv, Writing, Idle
  <1> QED
    BY <1>2, <1>8, <1>9, <1>10, <1>11, RowsRest DEF RunnerInv

LEMMA ScfKeeps ==
  ASSUME RunnerInv, Scf
  PROVE  RunnerInv'
PROOF
  <1>1. PICK out \in ScfOutcomes :
          /\ cur' = [cur EXCEPT !.stage = "nscf", !.scf = out]
          /\ disk' = IF out \in {"unconverged", "good"}
                     THEN [disk EXCEPT !.save = [scf |-> cur.run, nscf |-> 0]]
                     ELSE disk
    BY DEF Scf
  <1>2. /\ cur.stage = "scf" /\ lives' = lives /\ rows' = rows /\ runs' = runs
        /\ crashes' = crashes
    BY DEF Scf
  <1>3. /\ cur \in RunRecords /\ cur # Idle /\ cur.run = runs /\ runs \in RunIds
        /\ runs \in Nat /\ runs > 0
    BY <1>2, Fields DEF RunnerInv, RunnerTypes
  <1>5. cur' \in RunRecords
    BY <1>1, <1>3 DEF RunRecords, Stages, Early
  <1>6. cur'.stage = "nscf" /\ cur'.scf = out /\ cur'.task = cur.task /\ cur'.run = cur.run
    BY <1>1, <1>3 DEF RunRecords
  <1>7. /\ disk' \in Disks
        /\ disk'.save.scf <= runs
        /\ out = "good" => disk'.save.scf = runs
        /\ out = "cut" => disk'.save.scf < runs
        /\ disk'.bands = disk.bands /\ disk'.dos = disk.dos
        /\ disk'.evidence = disk.evidence /\ disk'.result = disk.result
    <2>1. disk \in Disks /\ disk.save.scf <= runs /\ disk.save.scf < runs
      BY <1>2 DEF RunnerInv, RunnerTypes, DiskInv
    <2>2. [scf |-> cur.run, nscf |-> 0] \in Saves
      BY <1>3, RunnerAssumption DEF Saves, RunIds
    <2>3. CASE out \in {"unconverged", "good"}
      BY <1>1, <1>3, <2>1, <2>2, <2>3 DEF Disks
    <2>4. CASE out \notin {"unconverged", "good"}
      BY <1>1, <2>1, <2>4
    <2> QED
      BY <2>3, <2>4
  <1>8. RunnerTypes'
    BY <1>2, <1>3, <1>5, <1>6, <1>7 DEF RunnerInv, RunnerTypes, Idle, Early
  <1>9. DiskInv'
    BY <1>2, <1>6, <1>7 DEF RunnerInv, DiskInv, Early
  <1>10. JudgeInv'
    BY <1>2, <1>6 DEF RunnerInv, JudgeInv, Late, Writing
  <1>11. PaperInv'
    BY <1>2, <1>6, <1>7 DEF RunnerInv, PaperInv, Writing, Idle
  <1> QED
    BY <1>2, <1>8, <1>9, <1>10, <1>11, RowsRest DEF RunnerInv

LEMMA NscfKeeps ==
  ASSUME RunnerInv, Nscf
  PROVE  RunnerInv'
PROOF
  <1>1. PICK out \in NscfOutcomes :
          /\ cur' = [cur EXCEPT !.stage = "tool", !.nscf = out]
          /\ disk' = IF out = "good" THEN [disk EXCEPT !.save.nscf = cur.run] ELSE disk
    BY DEF Nscf
  <1>2. /\ cur.stage = "nscf" /\ lives' = lives /\ rows' = rows /\ runs' = runs
        /\ crashes' = crashes
    BY DEF Nscf
  <1>3. /\ cur \in RunRecords /\ cur # Idle /\ cur.run = runs /\ runs \in RunIds
        /\ runs \in Nat /\ runs > 0
    BY <1>2, Fields DEF RunnerInv, RunnerTypes
  <1>5. cur' \in RunRecords
    BY <1>1, <1>3 DEF RunRecords, Stages, Early
  <1>6. /\ cur'.stage = "tool" /\ cur'.nscf = out /\ cur'.scf = cur.scf
        /\ cur'.task = cur.task /\ cur'.run = cur.run
    BY <1>1, <1>3 DEF RunRecords
  <1>7. /\ disk' \in Disks
        /\ disk'.save.scf = disk.save.scf
        /\ out = "good" => disk'.save.nscf = runs
        /\ disk'.bands = disk.bands /\ disk'.dos = disk.dos
        /\ disk'.evidence = disk.evidence /\ disk'.result = disk.result
    <2>1. disk \in Disks /\ disk.save \in Saves
      BY DEF RunnerInv, RunnerTypes, Disks
    <2>2. [disk.save EXCEPT !.nscf = cur.run] \in Saves
      BY <1>3, <2>1 DEF Saves
    <2>3. CASE out = "good"
      <3>1. disk' = [disk EXCEPT !.save = [disk.save EXCEPT !.nscf = cur.run]]
        BY <1>1, <2>3
      <3> QED
        BY <1>3, <2>1, <2>2, <3>1 DEF Disks, Saves
    <2>4. CASE out # "good"
      BY <1>1, <2>1, <2>4
    <2> QED
      BY <2>3, <2>4
  <1>8. RunnerTypes'
    BY <1>2, <1>3, <1>5, <1>6, <1>7 DEF RunnerInv, RunnerTypes, Idle, Early
  <1>9. DiskInv'
    BY <1>2, <1>6, <1>7 DEF RunnerInv, DiskInv, Early
  <1>10. JudgeInv'
    BY <1>2, <1>6 DEF RunnerInv, JudgeInv, Late, Writing
  <1>11. PaperInv'
    BY <1>2, <1>6, <1>7 DEF RunnerInv, PaperInv, Writing, Idle
  <1> QED
    BY <1>2, <1>8, <1>9, <1>10, <1>11, RowsRest DEF RunnerInv

LEMMA MixedWork ==
  ASSUME NEW run, NEW scf
  PROVE  [OwnWork(run) EXCEPT !.save.scf = scf]
           = [by |-> run, save |-> [scf |-> scf, nscf |-> run], data |-> TRUE]
PROOF
  <1>1. [OwnWork(run) EXCEPT !.save.scf = scf]
          = [OwnWork(run) EXCEPT !.save = [[scf |-> run, nscf |-> run] EXCEPT !.scf = scf]]
    BY DEF OwnWork
  <1>2. [[scf |-> run, nscf |-> run] EXCEPT !.scf = scf] = [scf |-> scf, nscf |-> run]
    OBVIOUS
  <1>3. [OwnWork(run) EXCEPT !.save = [scf |-> scf, nscf |-> run]]
          = [by |-> run, save |-> [scf |-> scf, nscf |-> run], data |-> TRUE]
    <2>1. ASSUME NEW save, NEW data
          PROVE  [[by |-> run, save |-> [scf |-> run, nscf |-> run], data |-> data]
                    EXCEPT !.save = save] = [by |-> run, save |-> save, data |-> data]
      OBVIOUS
    <2> QED
      BY <2>1, Zenon DEF OwnWork
  <1> QED
    BY <1>1, <1>2, <1>3, Zenon

\* What the verifier finds to hold is the run's own work, or has a cause.
LEMMA PassedRests ==
  ASSUME RunnerInv, cur.stage = "tool", NEW out \in ToolOutcomes, NEW product \in Products,
         out = "nothing" => product.by < cur.run,
         out # "nothing" => product.by = cur.run /\ product.save = disk.save,
         out = "empty" => ~product.data,
         out = "good" => disk.save.scf # 0,
         T2Reasons(cur.scf, cur.nscf, product) = {}
  PROVE  RestsHaveCause(cur.run, cur.scf, out, product)
PROOF
  <1>1. cur \in RunRecords /\ cur.run = runs /\ runs \in Nat /\ runs > 0
    BY Fields DEF RunnerInv, Stages
  <1>2. cur.scf \in {"cut", "good"} /\ cur.nscf = "good" /\ product.by # 0 /\ product.data
    BY DEF T2Reasons
  <1>3. disk.save \in Saves /\ product.by \in Nat /\ disk.save.scf \in Nat
    BY Fields, RunnerAssumption DEF RunnerInv, Products, Saves, RunIds
  <1>4. disk.save.nscf = runs
    BY <1>2 DEF RunnerInv, DiskInv
  <1>5. CASE out = "nothing"
    BY <1>1, <1>2, <1>3, <1>5 DEF RestsHaveCause
  <1>6. CASE out # "nothing"
    <2>1. product = [by |-> runs, save |-> disk.save, data |-> TRUE]
      <3>1. product = [by |-> product.by, save |-> product.save, data |-> product.data]
        BY Zenon DEF Products
      <3>2. product.data \in BOOLEAN
        BY Zenon DEF Products
      <3>3. product.data = TRUE
        BY <1>2, <3>2, Zenon
      <3>4. product.by = runs /\ product.save = disk.save
        BY <1>1, <1>6
      <3> QED
        BY <3>1, <3>3, <3>4, Zenon
    <2>2. disk.save = [scf |-> disk.save.scf, nscf |-> runs]
      BY <1>3, <1>4 DEF Saves
    <2>3. CASE cur.scf = "good"
      <3>1. disk.save.scf = runs
        BY <2>3 DEF RunnerInv, DiskInv
      <3>2. product = OwnWork(runs)
        BY <2>1, <2>2, <3>1, Zenon DEF OwnWork
      <3> QED
        BY <1>1, <3>2 DEF RestsHaveCause
    <2>4. CASE cur.scf = "cut"
      <3>1. disk.save.scf < runs
        BY <2>4 DEF RunnerInv, DiskInv
      <3>2. disk.save.scf > 0
        BY <1>2, <1>3, <1>6 DEF ToolOutcomes
      <3>3. product.save.scf = disk.save.scf
        BY <1>6
      <3>4. product = [by |-> runs, save |-> [scf |-> product.save.scf, nscf |-> runs],
                       data |-> TRUE]
        BY <2>1, <2>2, <3>3, Zenon
      <3>5. product = [OwnWork(cur.run) EXCEPT !.save.scf = product.save.scf]
        BY <1>1, <3>4, MixedWork, Zenon
      <3>6. product.save.scf \in 1..(cur.run - 1)
        BY <1>1, <1>3, <3>1, <3>2, <3>3
      <3> QED
        BY <2>4, <3>5, <3>6, Zenon DEF RestsHaveCause
    <2> QED
      BY <1>2, <2>3, <2>4
  <1> QED
    BY <1>5, <1>6

LEMMA ToolKeeps ==
  ASSUME RunnerInv, Tool
  PROVE  RunnerInv'
PROOF
  <1> DEFINE made(out) == IF out = "nothing" THEN disk[Mine]
                          ELSE [by |-> cur.run, save |-> disk.save, data |-> out = "good"]
  <1>1. PICK out \in ToolOutcomes :
          /\ out = "good" => disk.save.scf # 0
          /\ disk' = [disk EXCEPT ![Mine] = made(out)]
          /\ cur' = [cur EXCEPT !.stage = "judge", !.tool = out,
                                !.reasons = T2Reasons(cur.scf, cur.nscf, made(out)),
                                !.verdict.rests = made(out)]
    BY DEF Tool
  <1>2. /\ cur.stage = "tool" /\ lives' = lives /\ rows' = rows /\ runs' = runs
        /\ crashes' = crashes
    BY DEF Tool
  <1>3. /\ cur \in RunRecords /\ cur # Idle /\ cur.run = runs /\ runs \in RunIds
        /\ runs \in Nat /\ runs > 0 /\ cur.verdict \in Verdicts /\ disk.save \in Saves
        /\ disk \in Disks
    BY <1>2, Fields DEF RunnerInv, RunnerTypes
  <1>4. Mine \in {"bands", "dos"} /\ Pipeline[cur.task] # "T1" /\ Mine = Pipeline[cur.task]
    BY <1>2, <1>3, RunnerAssumption DEF RunnerInv, JudgeInv, Mine, Pipelines, RunRecords
  <1>5. disk[Mine] \in Products /\ disk[Mine].by < runs
    <2>1. disk.bands \in Products /\ disk.dos \in Products
      BY Fields DEF RunnerInv
    <2>2. disk.bands.by < runs /\ disk.dos.by < runs
      BY <1>2 DEF RunnerInv, DiskInv, Early
    <2> QED
      BY <1>4, <2>1, <2>2
  <1>6. PICK product \in Products :
          /\ product = made(out)
          /\ out = "nothing" => product.by < cur.run
          /\ out # "nothing" => product.by = cur.run /\ product.save = disk.save
          /\ out = "empty" => ~product.data
          /\ product.by <= runs
    <2>1. (out = "good") \in BOOLEAN
      OBVIOUS
    <2>2. PICK b \in BOOLEAN : b = (out = "good")
      BY <2>1, Zenon
    <2>4. [by |-> cur.run, save |-> disk.save, data |-> b] \in Products
      BY <1>3, <2>2, Zenon DEF Products
    <2>3. made(out) \in Products /\ (out # "nothing" => made(out).by = cur.run)
          /\ (out = "nothing" => made(out).by < cur.run)
          /\ (out # "nothing" => made(out).save = disk.save)
          /\ (out = "empty" => ~made(out).data)
      <3>1. CASE out = "nothing"
        <4>1. made(out) = disk[Mine]
          BY <3>1
        <4> HIDE DEF made
        <4> QED
          BY <1>3, <1>5, <3>1, <4>1
      <3>2. CASE out # "nothing"
        <4>1. made(out) = [by |-> cur.run, save |-> disk.save, data |-> b]
          BY <2>2, <3>2, Zenon
        <4> HIDE DEF made
        <4>2. made(out) \in Products /\ made(out).by = cur.run /\ made(out).save = disk.save
          BY <1>3, <2>4, <4>1
        <4>3. made(out).data <=> b
          BY <4>1
        <4>4. out = "empty" => ~b
          BY <2>2
        <4> QED
          BY <3>2, <4>2, <4>3, <4>4, Zenon
      <3> QED
        BY <3>1, <3>2
    <2> HIDE DEF made
    <2>5. made(out).by <= runs
      BY <1>3, <2>3, RunnerAssumption DEF Products, RunIds
    <2> QED
      BY <2>3, <2>5, Zenon
  <1> DEFINE found == T2Reasons(cur.scf, cur.nscf, product)
  <1>7. cur' = [cur EXCEPT !.stage = "judge", !.tool = out, !.reasons = found,
                          !.verdict = [cur.verdict EXCEPT !.rests = product]]
    BY <1>1, <1>6
  <1>8. found \in SUBSET Reasons /\ [cur.verdict EXCEPT !.rests = product] \in Verdicts
    <2>1. found \in SUBSET Reasons
      BY FailuresAreReasons DEF Reasons
    <2>2. [cur.verdict EXCEPT !.rests = product] \in Verdicts
      BY <1>3, <1>6 DEF Verdicts
    <2> QED
      BY <2>1, <2>2
  <1>9. cur' \in RunRecords
    <2> HIDE DEF found
    <2> QED
      BY <1>3, <1>7, <1>8 DEF RunRecords, Stages
  <1>10. /\ cur'.stage = "judge" /\ cur'.tool = out /\ cur'.reasons = found
         /\ cur'.verdict.rests = product /\ cur'.task = cur.task /\ cur'.run = cur.run
         /\ cur'.scf = cur.scf /\ cur'.nscf = cur.nscf
    <2> HIDE DEF found
    <2> QED
      BY <1>3, <1>7 DEF RunRecords, Verdicts
  <1>11. /\ disk' \in Disks
         /\ disk'.save = disk.save
         /\ disk'.bands.by <= runs /\ disk'.dos.by <= runs
         /\ disk'.evidence = disk.evidence /\ disk'.result = disk.result
    <2>1. disk.bands.by <= runs /\ disk.dos.by <= runs
      BY DEF RunnerInv, DiskInv
    <2>2. CASE Mine = "bands"
      <3>1. disk' = [disk EXCEPT !.bands = product]
        BY <1>1, <1>6, <2>2
      <3> QED
        BY <1>3, <1>6, <2>1, <3>1 DEF Disks
    <2>3. CASE Mine = "dos"
      <3>1. disk' = [disk EXCEPT !.dos = product]
        BY <1>1, <1>6, <2>3
      <3> QED
        BY <1>3, <1>6, <2>1, <3>1 DEF Disks
    <2> QED
      BY <1>4, <2>2, <2>3
  <1>12. RunnerTypes'
    BY <1>2, <1>3, <1>9, <1>10, <1>11 DEF RunnerInv, RunnerTypes, Idle, Early
  <1>13. DiskInv'
    BY <1>2, <1>10, <1>11 DEF RunnerInv, DiskInv, Early
  <1>14. JudgeInv'
    <2>1. Checked(cur'.task, cur'.scf, cur'.nscf, cur'.reasons, cur'.verdict.rests)
      BY <1>4, <1>10 DEF Checked
    <2>2. cur'.reasons = {} => RestsHaveCause(cur'.run, cur'.scf, cur'.tool, cur'.verdict.rests)
      BY <1>1, <1>2, <1>6, <1>10, PassedRests
    <2> QED
      BY <1>10, <2>1, <2>2 DEF JudgeInv, Late, Writing, Checked, RestsHaveCause
  <1>15. PaperInv'
    BY <1>2, <1>10, <1>11 DEF RunnerInv, PaperInv, Writing, Idle
  <1> QED
    BY <1>2, <1>12, <1>13, <1>14, <1>15, RowsRest DEF RunnerInv

LEMMA ClassifyIsKind ==
  \A reasons : Classify(reasons) \in Kinds
PROOF
  <1> SUFFICES ASSUME NEW reasons PROVE Classify(reasons) \in Kinds
    OBVIOUS
  <1>1. CASE "scf" \in reasons
    BY <1>1 DEF Classify, Kinds
  <1>2. CASE "scf" \notin reasons /\ "nscf" \in reasons
    BY <1>2 DEF Classify, Kinds
  <1>3. CASE reasons \cap {"scf", "nscf"} = {} /\ reasons \cap {"missing", "empty"} # {}
    BY <1>3 DEF Classify, Kinds
  <1>4. CASE reasons \cap {"scf", "nscf"} = {} /\ reasons \cap {"missing", "empty"} = {}
    BY <1>4 DEF Classify, Kinds
  <1> QED
    BY <1>1, <1>2, <1>3, <1>4

LEMMA PlansAreAnswers ==
  ASSUME NEW kind \in Kinds, NEW attempt
  PROVE  /\ PlanActions(kind, attempt) \in SUBSET Answers
         /\ PlanActions(kind, attempt) \in {{"give_up"}, Planned[kind]}
PROOF
  BY DEF Kinds, PlanActions, Planned, Answers

LEMMA JudgeKeeps ==
  ASSUME RunnerInv, Judge
  PROVE  RunnerInv'
PROOF
  <1>1. /\ cur.stage = "judge" /\ disk' = disk /\ rows' = rows /\ runs' = runs
        /\ crashes' = crashes
        /\ lives' \in {lives, [lives EXCEPT !.records = @ + 1]}
    BY DEF Judge
  <1>2. /\ cur \in RunRecords /\ cur # Idle /\ cur.run = runs /\ runs \in RunIds
        /\ runs \in Nat /\ runs > 0 /\ cur.verdict \in Verdicts
        /\ cur.verdict.rests \in Products /\ cur.reasons \in SUBSET Reasons
        /\ lives \in [n: Nat \ {0}, records: Nat] /\ lives.records < runs
    BY <1>1, Fields DEF RunnerInv, RunnerTypes, Stages, Early, Verdicts
  <1> DEFINE attempt == IF cur.front = "agent" THEN 1 ELSE lives.records + 1
             kind == Classify(cur.reasons)
             verdict == [passed |-> cur.reasons = {}, kind |-> kind,
                         actions |-> PlanActions(kind, attempt), attempt |-> attempt,
                         rests |-> cur.verdict.rests]
  <1>3. cur' = [cur EXCEPT !.stage = "evidence", !.verdict = verdict]
    BY DEF Judge
  <1>4. /\ verdict \in Verdicts
        /\ verdict.passed <=> cur.reasons = {}
        /\ verdict.kind = kind /\ verdict.actions \in {{"give_up"}, Planned[kind]}
        /\ verdict.rests = cur.verdict.rests
    <2>1. kind \in Kinds /\ attempt \in Nat
      BY <1>2, ClassifyIsKind
    <2>2. PICK b \in BOOLEAN : b = (cur.reasons = {})
      <3>1. (cur.reasons = {}) \in BOOLEAN
        OBVIOUS
      <3> QED
        BY <3>1, Zenon
    <2>3. PICK plan \in SUBSET Answers :
            plan = PlanActions(kind, attempt) /\ plan \in {{"give_up"}, Planned[kind]}
      BY <2>1, PlansAreAnswers
    <2>4. verdict = [passed |-> b, kind |-> kind, actions |-> plan, attempt |-> attempt,
                     rests |-> cur.verdict.rests]
      BY <2>2, <2>3, Zenon
    <2> HIDE DEF verdict, kind, attempt
    <2>5. verdict \in Verdicts
      BY <1>2, <2>1, <2>4 DEF Verdicts
    <2>6. /\ verdict.passed <=> b
          /\ verdict.kind = kind /\ verdict.actions = plan
          /\ verdict.rests = cur.verdict.rests
      BY <2>4
    <2>7. b <=> cur.reasons = {}
      BY <2>2
    <2> QED
      BY <2>3, <2>5, <2>6, <2>7, Zenon
  <1> HIDE DEF verdict, attempt
  <1>5. cur' \in RunRecords
    BY <1>2, <1>3, <1>4 DEF RunRecords, Stages, Late, Writing
  <1>6. /\ cur'.stage = "evidence" /\ cur'.verdict = verdict /\ cur'.task = cur.task
        /\ cur'.run = cur.run /\ cur'.scf = cur.scf /\ cur'.nscf = cur.nscf
        /\ cur'.tool = cur.tool /\ cur'.reasons = cur.reasons
    BY <1>2, <1>3 DEF RunRecords
  <1>7. lives' \in [n: Nat \ {0}, records: Nat] /\ lives'.records <= runs
    BY <1>1, <1>2
  <1>8. RunnerTypes'
    BY <1>1, <1>2, <1>5, <1>6, <1>7 DEF RunnerInv, RunnerTypes, Idle, Early
  <1>9. DiskInv'
    BY <1>1, <1>6 DEF RunnerInv, DiskInv, Early
  <1>10. JudgeInv'
    <2>1. /\ Checked(cur.task, cur.scf, cur.nscf, cur.reasons, cur.verdict.rests)
          /\ Pipeline[cur.task] # "T1" /\ cur.reasons = {} =>
               RestsHaveCause(cur.run, cur.scf, cur.tool, cur.verdict.rests)
      BY <1>1 DEF RunnerInv, JudgeInv
    <2> QED
      BY <1>4, <1>6, <2>1 DEF JudgeInv, Late, Writing, Checked, RestsHaveCause
  <1>11. PaperInv'
    BY <1>1, <1>6 DEF RunnerInv, PaperInv, Writing, Idle
  <1> QED
    BY <1>1, <1>8, <1>9, <1>10, <1>11, RowsRest DEF RunnerInv

\* The two files are opened and written one after the other, for the run in
\* progress: what they are of only rises.
LEMMA FileWritten ==
  ASSUME RunnerInv, NEW stage \in Writing, cur.stage \in Late,
         cur' = [cur EXCEPT !.stage = stage],
         disk' \in Disks, disk'.save = disk.save, disk'.bands = disk.bands, disk'.dos = disk.dos,
         lives' = lives, rows' = rows, runs' = runs, crashes' = crashes,
         disk'.evidence = disk.evidence \/ disk'.evidence.of = runs,
         disk'.result = disk.result \/ disk'.result.of = runs,
         disk'.evidence.of = runs,
         stage # "evidenceOpen" => disk'.evidence.whole,
         stage \in {"evidenceOpen", "result"} => disk'.result = disk.result,
         stage \in {"resultOpen", "ledger"} => disk'.result.of = runs,
         stage = "ledger" => disk'.result.whole,
         cur.stage # "resultOpen" \/ stage = "ledger"
  PROVE  RunnerInv'
PROOF
  <1>1. /\ cur \in RunRecords /\ cur # Idle /\ cur.run = runs /\ runs \in RunIds
        /\ runs \in Nat /\ runs > 0
    BY Fields DEF RunnerInv, RunnerTypes, Stages, Late, Writing
  <1>2. cur' \in RunRecords
    BY <1>1 DEF RunRecords, Stages, Late
  <1>3. /\ cur'.stage = stage /\ cur'.verdict = cur.verdict /\ cur'.task = cur.task
        /\ cur'.run = cur.run /\ cur'.scf = cur.scf /\ cur'.nscf = cur.nscf
        /\ cur'.tool = cur.tool /\ cur'.reasons = cur.reasons
    BY <1>1 DEF RunRecords
  <1>4. RunnerTypes'
    BY <1>1, <1>2, <1>3 DEF RunnerInv, RunnerTypes, Idle, Early, Late, Writing
  <1>5. DiskInv'
    BY <1>1, <1>3 DEF RunnerInv, DiskInv, Early, Late, Writing
  <1>6. JudgeInv'
    BY <1>3 DEF RunnerInv, JudgeInv, Early, Late, Writing, Checked, RestsHaveCause
  <1>7. PaperInv'
    <2>1. /\ \A i \in DOMAIN rows : rows[i].known.run \in Nat /\ rows[i].known.run < runs
          /\ disk.result.of <= runs /\ disk.result.of \in Nat
      BY <1>1, RowRuns, RunnerAssumption
      DEF RunnerInv, PaperInv, DiskInv, RunnerTypes, Disks, Papers, RunIds
    <2>2. \A i \in DOMAIN rows :
            /\ rows[i].known.run <= disk'.result.of /\ rows[i].known.run <= disk'.evidence.of
            /\ ~disk'.evidence.whole => rows[i].known.run < disk'.evidence.of
            /\ ~disk'.result.whole => rows[i].known.run < disk'.result.of
      BY <1>1, <2>1 DEF RunnerInv, PaperInv
    <2>3. disk'.result.of <= disk'.evidence.of
      BY <1>1, <2>1
    <2>4. crashes = 0 /\ stage # "resultOpen" => disk'.result.whole
      <3>1. CASE stage \in {"evidenceOpen", "result"}
        BY <1>1, <3>1 DEF RunnerInv, PaperInv
      <3> QED
        BY <3>1 DEF Writing
    <2> QED
      BY <1>1, <1>3, <2>1, <2>2, <2>3, <2>4 DEF RunnerInv, PaperInv, Writing, Idle
  <1> QED
    BY <1>4, <1>5, <1>6, <1>7, RowsRest DEF RunnerInv

\* What Opened and Written do to the directory.
LEMMA PaperOnDisk ==
  ASSUME disk \in Disks, cur.run \in RunIds, NEW paper \in {"evidence", "result"},
         NEW whole \in BOOLEAN,
         disk' = [disk EXCEPT ![paper] = [of |-> cur.run, whole |-> whole]]
  PROVE  /\ disk' \in Disks /\ disk'.save = disk.save /\ disk'.bands = disk.bands
         /\ disk'.dos = disk.dos
         /\ paper = "evidence" => disk'.evidence.of = cur.run /\ disk'.evidence.whole = whole
                                  /\ disk'.result = disk.result
         /\ paper = "result" => disk'.result.of = cur.run /\ disk'.result.whole = whole
                                /\ disk'.evidence = disk.evidence
PROOF
  <1>1. PICK new \in Papers : new = [of |-> cur.run, whole |-> whole]
    BY DEF Papers
  <1>2. new.of = cur.run /\ new.whole = whole
    BY <1>1
  <1>3. CASE paper = "evidence"
    <2>1. disk' = [disk EXCEPT !.evidence = new]
      BY <1>1, <1>3
    <2> QED
      BY <1>2, <1>3, <2>1 DEF Disks
  <1>4. CASE paper = "result"
    <2>1. disk' = [disk EXCEPT !.result = new]
      BY <1>1, <1>4
    <2> QED
      BY <1>2, <1>4, <2>1 DEF Disks
  <1> QED
    BY <1>3, <1>4

LEMMA WritesKeep ==
  ASSUME RunnerInv, OpenEvidence \/ WriteEvidence \/ OpenResult \/ WriteResult
  PROVE  RunnerInv'
PROOF
  <1>1. /\ cur.stage \in {"evidence", "evidenceOpen", "result", "resultOpen"}
        /\ cur.run = runs /\ runs \in RunIds /\ disk \in Disks
        /\ lives' = lives /\ rows' = rows /\ runs' = runs /\ crashes' = crashes
    BY Fields DEF OpenEvidence, WriteEvidence, OpenResult, WriteResult, RunnerInv, RunnerTypes
  <1>2. /\ cur.stage \in Writing => disk.evidence.of = runs
        /\ cur.stage \in {"result", "resultOpen"} => disk.evidence.whole
    BY DEF RunnerInv, PaperInv, Writing
  <1>3. CASE OpenEvidence
    <2>1. disk' = [disk EXCEPT !["evidence"] = [of |-> cur.run, whole |-> FALSE]]
      BY <1>3 DEF OpenEvidence, Opened
    <2>2. cur.stage = "evidence" /\ cur' = [cur EXCEPT !.stage = "evidenceOpen"]
      BY <1>3 DEF OpenEvidence
    <2> QED
      BY <1>1, <2>1, <2>2, PaperOnDisk, FileWritten DEF Late, Writing
  <1>4. CASE WriteEvidence
    <2>1. disk' = [disk EXCEPT !["evidence"] = [of |-> cur.run, whole |-> TRUE]]
      BY <1>4 DEF WriteEvidence, Written
    <2>2. cur.stage = "evidenceOpen" /\ cur' = [cur EXCEPT !.stage = "result"]
      BY <1>4 DEF WriteEvidence
    <2> QED
      BY <1>1, <2>1, <2>2, PaperOnDisk, FileWritten DEF Late, Writing
  <1>5. CASE OpenResult
    <2>1. disk' = [disk EXCEPT !["result"] = [of |-> cur.run, whole |-> FALSE]]
      BY <1>5 DEF OpenResult, Opened
    <2>2. cur.stage = "result" /\ cur' = [cur EXCEPT !.stage = "resultOpen"]
      BY <1>5 DEF OpenResult
    <2> QED
      BY <1>1, <1>2, <2>1, <2>2, PaperOnDisk, FileWritten DEF Late, Writing
  <1>6. CASE WriteResult
    <2>1. disk' = [disk EXCEPT !["result"] = [of |-> cur.run, whole |-> TRUE]]
      BY <1>6 DEF WriteResult, Written
    <2>2. cur.stage = "resultOpen" /\ cur' = [cur EXCEPT !.stage = "ledger"]
      BY <1>6 DEF WriteResult
    <2> QED
      BY <1>1, <1>2, <2>1, <2>2, PaperOnDisk, FileWritten DEF Late, Writing
  <1> QED
    BY <1>3, <1>4, <1>5, <1>6

LEMMA RecordRunKeeps ==
  ASSUME RunnerInv, RecordRun
  PROVE  RunnerInv'
PROOF
  <1> DEFINE row == IF cur.front = "agent" THEN AgentRow ELSE RunnerRow
  <1>1. /\ cur.stage = "ledger" /\ cur' = Idle /\ rows' = Append(rows, row)
        /\ lives' = lives /\ disk' = disk /\ runs' = runs /\ crashes' = crashes
    BY DEF RecordRun
  <1>2. /\ cur \in RunRecords /\ cur # Idle /\ cur.run = runs /\ runs \in RunIds
        /\ runs \in Nat /\ cur.verdict \in Verdicts /\ cur.task \in Tasks
        /\ cur.front \in Fronts /\ lives.n \in Nat
        /\ cur.verdict.passed \in BOOLEAN /\ cur.verdict.kind \in Kinds \cup {""}
        /\ cur.verdict.actions \in SUBSET Answers /\ cur.verdict.attempt \in Nat
    BY <1>1, Fields DEF RunnerInv, RunnerTypes, Stages, Verdicts
  <1>3. Known \in KnownRecords
    BY <1>2 DEF Known, KnownRecords, RunRecords, Verdicts
  <1>4. /\ row \in RowRecords
        /\ row.task = cur.task /\ row.known = Known /\ (row.success <=> cur.verdict.passed)
        /\ \/ cur.front = "agent" /\ row.kind = "" /\ row.actions = {}
           \/ /\ cur.front = "runner" /\ row.kind = cur.verdict.kind
              /\ row.actions = cur.verdict.actions
    <2>1. PICK b \in BOOLEAN : b = cur.verdict.passed
      BY <1>2, Zenon
    <2>2. CASE cur.front = "agent"
      <3>1. row = [task |-> cur.task, success |-> b, attempt |-> 1, kind |-> "",
                   actions |-> {}, known |-> Known]
        BY <2>1, <2>2, Zenon DEF AgentRow
      <3> HIDE DEF row
      <3>2. row \in RowRecords
        BY <1>2, <1>3, <3>1 DEF RowRecords
      <3>3. /\ row.task = cur.task /\ row.known = Known /\ row.success = b
            /\ row.kind = "" /\ row.actions = {}
        BY <3>1
      <3> QED
        BY <2>1, <2>2, <3>2, <3>3, Zenon
    <2>3. CASE cur.front # "agent"
      <3>1. row = [task |-> cur.task, success |-> b, attempt |-> cur.verdict.attempt,
                   kind |-> cur.verdict.kind, actions |-> cur.verdict.actions, known |-> Known]
        BY <2>1, <2>3, Zenon DEF RunnerRow
      <3> HIDE DEF row
      <3>2. row \in RowRecords
        BY <1>2, <1>3, <3>1 DEF RowRecords
      <3>3. /\ row.task = cur.task /\ row.known = Known /\ row.success = b
            /\ row.kind = cur.verdict.kind /\ row.actions = cur.verdict.actions
        BY <3>1
      <3>4. cur.front = "runner"
        BY <1>2, <2>3 DEF Fronts
      <3> QED
        BY <2>1, <3>2, <3>3, <3>4, Zenon
    <2> QED
      BY <2>2, <2>3
  <1> HIDE DEF row
  <1>5. /\ rows' \in Seq(RowRecords)
        /\ \A i \in DOMAIN rows' : (i \in DOMAIN rows /\ rows'[i] = rows[i]) \/ rows'[i] = row
    <2>1. rows \in Seq(RowRecords) /\ row \in RowRecords
      BY <1>4 DEF RunnerInv, RunnerTypes
    <2>2. rows' \in Seq(RowRecords) /\ Len(rows') = Len(rows) + 1
      BY <1>1, <2>1
    <2>3. \A i \in 1..Len(rows) : rows'[i] = rows[i]
      BY <1>1, <2>1
    <2>4. rows'[Len(rows) + 1] = row
      BY <1>1, <2>1
    <2>5. DOMAIN rows = 1..Len(rows) /\ DOMAIN rows' = 1..(Len(rows) + 1) /\ Len(rows) \in Nat
      BY <2>1, <2>2
    <2> QED
      BY <2>2, <2>3, <2>4, <2>5
  <1>6. RowIsFair(row)
    <2>1. /\ Checked(cur.task, cur.scf, cur.nscf, cur.reasons, cur.verdict.rests)
          /\ Pipeline[cur.task] # "T1" /\ cur.reasons = {} =>
               RestsHaveCause(cur.run, cur.scf, cur.tool, cur.verdict.rests)
          /\ cur.verdict.passed <=> cur.reasons = {}
          /\ cur.verdict.kind = Classify(cur.reasons)
          /\ cur.verdict.actions \in {{"give_up"}, Planned[cur.verdict.kind]}
      BY <1>1 DEF RunnerInv, JudgeInv, Late, Writing
    <2>2. /\ Known.run = cur.run /\ Known.front = cur.front /\ Known.scf = cur.scf
          /\ Known.nscf = cur.nscf /\ Known.tool = cur.tool /\ Known.reasons = cur.reasons
          /\ Known.rests = cur.verdict.rests
      BY DEF Known
    <2> QED
      BY <1>4, <2>1, <2>2 DEF RowIsFair
  <1>7. RunnerTypes'
    BY <1>1, <1>5 DEF RunnerInv, RunnerTypes
  <1>8. DiskInv'
    BY <1>1 DEF RunnerInv, DiskInv, Idle, Early
  <1>9. JudgeInv'
    BY <1>1 DEF JudgeInv, Idle, Late, Writing
  <1>10. RowsInv'
    <2>1. \A i \in DOMAIN rows' : RowIsFair(rows'[i])
      BY <1>5, <1>6 DEF RunnerInv, RowsInv
    <2> QED
      BY <2>1 DEF RowsInv, RowIsFair, Checked, RestsHaveCause
  <1>11. PaperInv'
    <2>1. row.known.run = runs
      <3>1. Known.run = cur.run
        BY DEF Known
      <3> QED
        BY <1>2, <1>4, <3>1
    <2>2. /\ disk.result.of = runs /\ disk.evidence.of = runs
          /\ disk.result.whole /\ disk.evidence.whole
      BY <1>1 DEF RunnerInv, PaperInv, Writing
    <2>3. \A i \in DOMAIN rows : rows[i].known.run <= runs
      BY DEF RunnerInv, PaperInv
    <2>4. runs <= runs
      <3>1. runs \in Nat
        BY <1>2, Zenon
      <3> QED
        BY <3>1
    <2>5. \A i \in DOMAIN rows' : rows'[i].known.run <= runs
      <3> SUFFICES ASSUME NEW i \in DOMAIN rows' PROVE rows'[i].known.run <= runs
        OBVIOUS
      <3>1. CASE i \in DOMAIN rows /\ rows'[i] = rows[i]
        BY <2>3, <3>1
      <3>2. CASE rows'[i] = row
        <4>1. rows'[i].known.run = runs
          BY <2>1, <3>2, Zenon
        <4> QED
          BY <4>1, <2>4, Zenon
      <3> QED
        BY <1>5, <3>1, <3>2, Zenon
    <2>6. /\ disk'.result.of = runs /\ disk'.evidence.of = runs /\ runs' = runs
          /\ disk'.result.whole /\ disk'.evidence.whole
          /\ cur' = Idle /\ cur'.stage = "idle"
      BY <1>1, <2>2, Zenon DEF Idle
    <2> QED
      BY <2>5, <2>6, <2>4 DEF PaperInv, Writing
  <1> QED
    BY <1>7, <1>8, <1>9, <1>10, <1>11 DEF RunnerInv

-----------------------------------------------------------------------------
\* The invariant holds in every state of every behaviour.
THEOREM RunnerInvariant == Spec => []RunnerInv
PROOF
  <1>1. Init => RunnerInv
    BY InitRunner
  <1>2. RunnerInv /\ [Next]_vars => RunnerInv'
    <2> SUFFICES ASSUME RunnerInv, [Next]_vars PROVE RunnerInv'
      OBVIOUS
    <2>1. ASSUME NEW t \in Tasks, Begin(t) PROVE RunnerInv'
      BY <2>1, StartKeeps DEF Begin, Fronts
    <2>2. ASSUME NEW t \in Tasks, AgentBegins(t) PROVE RunnerInv'
      BY <2>2, StartKeeps DEF AgentBegins, Fronts
    <2>3. CASE UNCHANGED vars
      <3>1. cur' = cur /\ lives' = lives /\ disk' = disk /\ rows' = rows /\ runs' = runs
            /\ crashes' = crashes
        BY <2>3 DEF vars
      <3>2. RunnerTypes' /\ DiskInv' /\ JudgeInv' /\ PaperInv'
        BY <3>1 DEF RunnerInv, RunnerTypes, DiskInv, JudgeInv, PaperInv, Checked, RestsHaveCause
      <3> QED
        BY <3>1, <3>2, RowsRest DEF RunnerInv
    <2> QED
      BY <2>1, <2>2, <2>3, NewRunnerKeeps, CompileFailsKeeps, RelaxKeeps, ScfKeeps, NscfKeeps,
         ToolKeeps, JudgeKeeps, WritesKeep, RecordRunKeeps, CrashKeeps
      DEF Next
  <1> QED
    BY <1>1, <1>2, PTL DEF Spec

\* What a kind of failure says of the checks that failed.
LEMMA KindsTell ==
  ASSUME NEW reasons
  PROVE  /\ Classify(reasons) = "nscf_not_converged" =>
              "scf" \notin reasons /\ "nscf" \in reasons
         /\ Classify(reasons) = "output_missing" =>
              reasons \cap {"scf", "nscf"} = {} /\ reasons \cap {"missing", "empty"} # {}
         /\ Classify(reasons) \in {"forces_too_high", "bad_cell"} => "scf" \notin reasons
PROOF
  <1>1. CASE "scf" \in reasons
    BY <1>1 DEF Classify
  <1>2. CASE "scf" \notin reasons /\ "nscf" \in reasons
    BY <1>2 DEF Classify
  <1>3. CASE reasons \cap {"scf", "nscf"} = {} /\ reasons \cap {"missing", "empty"} # {}
    BY <1>3 DEF Classify
  <1>4. CASE reasons \cap {"scf", "nscf"} = {} /\ reasons \cap {"missing", "empty"} = {}
    BY <1>4 DEF Classify
  <1> QED
    BY <1>1, <1>2, <1>3, <1>4

\* A row of the ledger, with its types and its verdict.
LEMMA RowFacts ==
  ASSUME RunnerInv, NEW i \in DOMAIN rows
  PROVE  /\ RowIsFair(rows[i])
         /\ rows[i].task \in Tasks /\ rows[i].kind \in Kinds \cup {""}
         /\ rows[i].known.scf \in ScfOutcomes /\ rows[i].known.nscf \in NscfOutcomes
         /\ rows[i].known.front \in Fronts
PROOF
  <1>1. rows[i] \in RowRecords
    BY DEF RunnerInv, RunnerTypes
  <1>2. \A row \in RowRecords :
          /\ row.task \in Tasks /\ row.kind \in Kinds \cup {""}
          /\ row.known.scf \in ScfOutcomes /\ row.known.nscf \in NscfOutcomes
          /\ row.known.front \in Fronts
    BY DEF RowRecords, KnownRecords
  <1> QED
    BY <1>1, <1>2 DEF RunnerInv, RowsInv

\* A kind that only a T2 check can bring about comes from a T2 task's checks.
LEMMA T2KindsTell ==
  ASSUME RunnerInv, NEW i \in DOMAIN rows,
         rows[i].kind \in {"nscf_not_converged", "output_missing"}
  PROVE  /\ Pipeline[rows[i].task] # "T1"
         /\ rows[i].known.scf \in {"cut", "good"}
         /\ rows[i].kind = "nscf_not_converged" => rows[i].known.nscf = "broken"
         /\ rows[i].kind = "output_missing" => rows[i].known.nscf = "good"
PROOF
  <1> DEFINE row == rows[i]
             k == row.known
  <1>1. /\ Checked(row.task, k.scf, k.nscf, k.reasons, k.rests)
        /\ row.kind = Classify(k.reasons)
        /\ k.nscf \in NscfOutcomes
    BY RowFacts DEF RowIsFair
  <1> HIDE DEF row
  <1>2. "scf" \notin k.reasons
        /\ (row.kind = "nscf_not_converged" => "nscf" \in k.reasons)
        /\ (row.kind = "output_missing" => "nscf" \notin k.reasons)
        /\ k.reasons \cap {"nscf", "missing", "empty"} # {}
    BY <1>1, KindsTell DEF row
  <1>3. Pipeline[row.task] # "T1"
    BY <1>1, <1>2 DEF Checked, T1Failures
  <1>4. k.reasons = T2Reasons(k.scf, k.nscf, k.rests)
    BY <1>1, <1>3 DEF Checked
  <1>5. k.scf \in {"cut", "good"}
    BY <1>2, <1>4 DEF T2Reasons
  <1>6. "nscf" \in k.reasons <=> k.nscf # "good"
    BY <1>4 DEF T2Reasons
  <1> QED
    BY <1>1, <1>2, <1>3, <1>5, <1>6 DEF row, NscfOutcomes

\* What a passed run rests on that is not its own work was left by an earlier
\* run, and only where the scf died before its save or the tool wrote nothing
\* (runner.py hands over through files that nobody removes).
THEOREM StaleEvidenceHasCause == Spec => []StaleHasCause
PROOF
  <1>1. RunnerInv => StaleHasCause
    <2> SUFFICES ASSUME RunnerInv PROVE StaleHasCause
      OBVIOUS
    <2>1. ASSUME NEW i \in DOMAIN rows, rows[i].success, Pipeline[rows[i].task] # "T1"
          PROVE  LET k == rows[i].known IN RestsHaveCause(k.run, k.scf, k.tool, k.rests)
      <3>1. RowIsFair(rows[i])
        BY RowFacts
      <3> QED
        BY <2>1, <3>1 DEF RowIsFair
    <2> QED
      BY <2>1, Zenon DEF StaleHasCause, RestsHaveCause
  <1> QED
    BY <1>1, RunnerInvariant, PTL

\* A row has the papers of its run or of a later one, and only a run that has no
\* row of its own, since it is writing or died of it, has left one cut short.
THEOREM RowsHavePapers == Spec => []PaperTrail
PROOF
  <1>1. RunnerInv => PaperTrail
    <2> SUFFICES ASSUME RunnerInv PROVE PaperTrail
      OBVIOUS
    <2>1. disk.result.of \in Nat /\ disk.evidence.of \in Nat /\ crashes \in Nat
      BY Fields, RunnerAssumption DEF RunnerInv, RunnerTypes, Papers, RunIds
    <2>2. \A i \in DOMAIN rows : rows[i].known.run \in Nat
      BY RowRuns DEF RunnerInv
    <2>3. /\ cur = Idle => cur.stage = "idle"
          /\ cur # Idle => cur.run = runs
      BY DEF RunnerInv, RunnerTypes, Idle
    <2>4. crashes = 0 /\ cur = Idle => disk.evidence.whole /\ disk.result.whole
      BY <2>3 DEF RunnerInv, PaperInv
    <2> QED
      BY <2>1, <2>2, <2>3, <2>4 DEF RunnerInv, PaperInv, PaperTrail
  <1> QED
    BY <1>1, RunnerInvariant, PTL

\* Every failure a TaskRunner records is found again by get_failure_patterns,
\* under the earliest stage that failed.
THEOREM LedgerCountsFailures == Spec => []FailuresAreCounted
PROOF
  <1>1. RunnerInv => FailuresAreCounted
    <2> SUFFICES ASSUME RunnerInv PROVE FailuresAreCounted
      OBVIOUS
    <2>1. ASSUME NEW i \in DOMAIN rows, ~rows[i].success, rows[i].known.front # "agent"
          PROVE  \E kind \in Kinds : i \in FailurePatterns(kind)
      <3>1. rows[i].kind = Classify(rows[i].known.reasons)
        BY <2>1, RowFacts DEF RowIsFair, Fronts
      <3>2. rows[i].kind \in Kinds /\ rows[i].kind # ""
        BY <3>1, ClassifyIsKind DEF Kinds
      <3> QED
        BY <2>1, <3>2 DEF FailurePatterns
    <2>2. \A i \in FailurePatterns("nscf_not_converged") :
            rows[i].known.scf \in {"cut", "good"} /\ rows[i].known.nscf = "broken"
      BY T2KindsTell DEF FailurePatterns
    <2>3. \A i \in FailurePatterns("output_missing") :
            rows[i].known.scf \in {"cut", "good"} /\ rows[i].known.nscf = "good"
      BY T2KindsTell DEF FailurePatterns
    <2>4. \A i \in FailurePatterns("forces_too_high") \cup FailurePatterns("bad_cell") :
            "scf" \notin rows[i].known.reasons
      <3> SUFFICES ASSUME NEW i \in DOMAIN rows, rows[i].kind \in {"forces_too_high", "bad_cell"}
                   PROVE  "scf" \notin rows[i].known.reasons
        BY DEF FailurePatterns
      <3>1. rows[i].kind = Classify(rows[i].known.reasons)
        BY RowFacts DEF RowIsFair
      <3> QED
        BY <3>1, KindsTell
    <2> QED
      BY <2>1, <2>2, <2>3, <2>4 DEF FailuresAreCounted
  <1> QED
    BY <1>1, RunnerInvariant, PTL

-----------------------------------------------------------------------------
\* The rows up to the i-th that one TaskRunner recorded for its own callers.
Mates(table, life, i) ==
  {j \in 1..i : table[j].known.front = "runner" /\ table[j].known.life = life}

\* A verdict of the TaskRunner that waits for its row.
Pending == cur # Idle /\ cur.front = "runner" /\ cur.stage \in Late

\* run_records holds a record for each row of this runner, and the one under way.
CountInv ==
  /\ \A i \in DOMAIN rows : rows[i].known.life <= lives.n
  /\ lives.records = Cardinality(Mates(rows, lives.n, Len(rows))) + (IF Pending THEN 1 ELSE 0)
  /\ Pending => cur.verdict.actions = PlanActions(cur.verdict.kind, lives.records)
  /\ \A i \in DOMAIN rows : rows[i].known.front = "runner" =>
       rows[i].actions = PlanActions(rows[i].kind, Cardinality(Mates(rows, rows[i].known.life, i)))

LEMMA MatesAreFinite ==
  ASSUME NEW table, NEW life, NEW i \in Nat
  PROVE  /\ IsFiniteSet(Mates(table, life, i))
         /\ Cardinality(Mates(table, life, i)) \in Nat
PROOF
  <1>1. IsFiniteSet(1..i)
    BY FS_Interval
  <1>2. Mates(table, life, i) \in SUBSET (1..i)
    BY DEF Mates
  <1>3. IsFiniteSet(Mates(table, life, i))
    BY <1>1, <1>2, FS_Subset
  <1> QED
    BY <1>3, FS_CardinalityType

\* A life without rows has no mates.
LEMMA NewLifeIsAlone ==
  ASSUME RunnerTypes, \A i \in DOMAIN rows : rows[i].known.life <= lives.n
  PROVE  Mates(rows, lives.n + 1, Len(rows)) = {}
PROOF
  <1>1. lives.n \in Nat
    BY Fields
  <1>2. DOMAIN rows = 1..Len(rows)
    BY DEF RunnerTypes
  <1> SUFFICES ASSUME NEW j \in 1..Len(rows), rows[j].known.life = lives.n + 1
               PROVE  FALSE
    BY DEF Mates
  <1>3. rows[j].known.life <= lives.n
    BY <1>2
  <1> QED
    BY <1>1, <1>3

\* A row that is added is counted with the rows before it, and with no others.
LEMMA MatesOfALongerTable ==
  ASSUME RunnerTypes, NEW row, rows' = Append(rows, row)
  PROVE  /\ Len(rows') = Len(rows) + 1 /\ Len(rows) \in Nat
         /\ DOMAIN rows = 1..Len(rows) /\ DOMAIN rows' = 1..(Len(rows) + 1)
         /\ \A j \in 1..Len(rows) : rows'[j] = rows[j]
         /\ rows'[Len(rows) + 1] = row
         /\ \A life : \A i \in 1..Len(rows) : Mates(rows', life, i) = Mates(rows, life, i)
         /\ \A life : Mates(rows', life, Len(rows) + 1) =
              Mates(rows, life, Len(rows))
                \cup (IF row.known.front = "runner" /\ row.known.life = life
                      THEN {Len(rows) + 1} ELSE {})
PROOF
  <1>1. rows \in Seq(RowRecords) /\ Len(rows) \in Nat /\ DOMAIN rows = 1..Len(rows)
    BY DEF RunnerTypes
  <1>2. /\ Len(rows') = Len(rows) + 1 /\ DOMAIN rows' = 1..(Len(rows) + 1)
        /\ \A j \in 1..Len(rows) : rows'[j] = rows[j]
        /\ rows'[Len(rows) + 1] = row
    BY <1>1
  <1>3. \A life : \A i \in 1..Len(rows) : Mates(rows', life, i) = Mates(rows, life, i)
    BY <1>1, <1>2 DEF Mates
  <1>4. 1..(Len(rows) + 1) = 1..Len(rows) \cup {Len(rows) + 1}
    BY <1>1
  <1>5. \A life : Mates(rows', life, Len(rows) + 1) =
           Mates(rows, life, Len(rows))
             \cup (IF row.known.front = "runner" /\ row.known.life = life
                   THEN {Len(rows) + 1} ELSE {})
    BY <1>2, <1>4, Zenon DEF Mates
  <1> QED
    BY <1>1, <1>2, <1>3, <1>5

\* A step that leaves the table and the records alone, and does not come to a
\* verdict nor leave one.
LEMMA CountRests ==
  ASSUME CountInv, rows' = rows, lives' = lives, Pending' = Pending,
         Pending => cur'.verdict = cur.verdict
  PROVE  CountInv'
PROOF
  BY DEF CountInv, Mates

\* A runner that is new has recorded nothing, and has no verdict under way.
LEMMA NewLifeCounts ==
  ASSUME RunnerInv, CountInv, rows' = rows, lives' = [n |-> lives.n + 1, records |-> 0],
         ~Pending'
  PROVE  CountInv'
PROOF
  <1>1. lives.n \in Nat /\ \A i \in DOMAIN rows : rows[i].known.life \in Nat
    <2>1. \A row \in RowRecords : row.known.life \in Nat
      BY DEF RowRecords, KnownRecords
    <2> QED
      BY <2>1, Fields DEF RunnerInv, RunnerTypes
  <1>2. Mates(rows, lives.n + 1, Len(rows)) = {}
    BY NewLifeIsAlone DEF RunnerInv, CountInv
  <1>3. lives'.n = lives.n + 1 /\ lives'.records = 0
    OBVIOUS
  <1>4. \A i \in DOMAIN rows : rows[i].known.life <= lives.n + 1
    BY <1>1 DEF CountInv
  <1>5. lives'.records = Cardinality(Mates(rows', lives'.n, Len(rows')))
    BY <1>2, <1>3, FS_EmptySet, Zenon
  <1>6. Cardinality(Mates(rows', lives'.n, Len(rows'))) + 0 = lives'.records
    BY <1>3, <1>5
  <1>7. \A i \in DOMAIN rows : rows[i].known.front = "runner" =>
          rows[i].actions = PlanActions(rows[i].kind, Cardinality(Mates(rows, rows[i].known.life, i)))
    BY DEF CountInv
  <1>8. /\ \A i \in DOMAIN rows' : rows'[i].known.life <= lives'.n
        /\ \A i \in DOMAIN rows' : rows'[i].known.front = "runner" =>
             rows'[i].actions =
               PlanActions(rows'[i].kind, Cardinality(Mates(rows', rows'[i].known.life, i)))
    BY <1>3, <1>4, <1>7
  <1> QED
    BY <1>6, <1>8 DEF CountInv

LEMMA JudgeCounts ==
  ASSUME RunnerInv, CountInv, Judge
  PROVE  CountInv'
PROOF
  <1>1. cur \in RunRecords /\ cur # Idle /\ cur.stage = "judge" /\ cur.front \in Fronts
        /\ cur.verdict \in Verdicts
    BY Fields DEF Judge, RunnerInv, Idle
  <1>2. ~Pending
    BY <1>1 DEF Pending, Late, Writing
  <1>3. /\ cur'.front = cur.front /\ cur'.stage = "evidence" /\ cur' # Idle /\ rows' = rows
        /\ cur.front = "runner" =>
             cur'.verdict.actions = PlanActions(cur'.verdict.kind, lives.records + 1)
    BY <1>1 DEF Judge, RunRecords, Idle
  <1>4. Pending' <=> cur.front = "runner"
    BY <1>3 DEF Pending, Late
  <1>5. CASE cur.front = "agent"
    <2>1. lives' = lives /\ Pending' = Pending
      BY <1>2, <1>4, <1>5 DEF Judge, Pending
    <2> QED
      BY <1>2, <1>3, <2>1, CountRests
  <1>6. CASE cur.front = "runner"
    <2>1. lives' = [lives EXCEPT !.records = @ + 1]
      BY <1>6 DEF Judge
    <2>2. lives'.n = lives.n /\ lives'.records = lives.records + 1
      BY <2>1 DEF RunnerInv, RunnerTypes
    <2>3. lives.records = Cardinality(Mates(rows, lives.n, Len(rows))) + 0
      BY <1>2 DEF CountInv
    <2>4. Cardinality(Mates(rows, lives.n, Len(rows))) \in Nat
      BY MatesAreFinite DEF RunnerInv, RunnerTypes
    <2> QED
      BY <1>3, <1>4, <1>6, <2>2, <2>3, <2>4 DEF CountInv, Mates
  <1> QED
    BY <1>1, <1>5, <1>6 DEF Fronts

LEMMA RecordRunCounts ==
  ASSUME RunnerInv, CountInv, RecordRun
  PROVE  CountInv'
PROOF
  <1> DEFINE row == IF cur.front = "agent" THEN AgentRow ELSE RunnerRow
  <1>1. /\ cur.stage = "ledger" /\ cur' = Idle /\ lives' = lives
        /\ rows' = Append(rows, row)
    BY DEF RecordRun
  <1>2. cur # Idle /\ cur.front \in Fronts /\ lives.n \in Nat
    BY <1>1, Fields DEF RunnerInv, Idle
  <1>3. /\ row.known.life = lives.n /\ row.known.front = cur.front
        /\ cur.front = "runner" =>
             row.actions = cur.verdict.actions /\ row.kind = cur.verdict.kind
    BY <1>2 DEF RunnerRow, AgentRow, Known, Fronts
  <1> HIDE DEF row
  <1>4. RunnerTypes
    BY DEF RunnerInv
  <1>5. /\ Len(rows') = Len(rows) + 1 /\ Len(rows) \in Nat
        /\ DOMAIN rows = 1..Len(rows) /\ DOMAIN rows' = 1..(Len(rows) + 1)
        /\ \A j \in 1..Len(rows) : rows'[j] = rows[j]
        /\ rows'[Len(rows) + 1] = row
        /\ \A life : \A i \in 1..Len(rows) : Mates(rows', life, i) = Mates(rows, life, i)
        /\ \A life : Mates(rows', life, Len(rows) + 1) =
             Mates(rows, life, Len(rows))
               \cup (IF row.known.front = "runner" /\ row.known.life = life
                     THEN {Len(rows) + 1} ELSE {})
    BY <1>1, <1>4, MatesOfALongerTable
  <1>6. ~Pending'
    BY <1>1 DEF Pending
  <1>7. Pending <=> cur.front = "runner"
    BY <1>1, <1>2 DEF Pending, Late, Writing
  <1> DEFINE now == Mates(rows, lives.n, Len(rows))
  <1>8. IsFiniteSet(now) /\ Cardinality(now) \in Nat /\ (Len(rows) + 1) \notin now
    <2>1. (Len(rows) + 1) \notin 1..Len(rows)
      BY <1>5
    <2>2. (Len(rows) + 1) \notin now
      BY <2>1, Zenon DEF Mates
    <2>3. Len(rows) \in Nat
      BY <1>5
    <2> QED
      BY <2>2, <2>3, MatesAreFinite
  <1>9. lives.records = Cardinality(Mates(rows', lives.n, Len(rows) + 1))
    <2>1. CASE cur.front = "runner"
      <3>1. Mates(rows', lives.n, Len(rows) + 1) = now \cup {Len(rows) + 1}
        BY <1>3, <1>5, <2>1
      <3>2. Cardinality(now \cup {Len(rows) + 1}) = Cardinality(now) + 1
        BY <1>8, FS_AddElement
      <3>3. lives.records = Cardinality(now) + 1
        BY <1>7, <2>1 DEF CountInv
      <3> QED
        BY <3>1, <3>2, <3>3
    <2>2. CASE cur.front # "runner"
      <3>1. Mates(rows', lives.n, Len(rows) + 1) = now
        BY <1>3, <1>5, <2>2
      <3>2. lives.records = Cardinality(now) + 0
        BY <1>7, <2>2 DEF CountInv
      <3> QED
        BY <1>8, <3>1, <3>2
    <2> QED
      BY <2>1, <2>2
  <1>10. \A i \in DOMAIN rows' : rows'[i].known.life <= lives.n
    <2> SUFFICES ASSUME NEW i \in DOMAIN rows' PROVE rows'[i].known.life <= lives.n
      OBVIOUS
    <2>1. CASE i \in 1..Len(rows)
      BY <1>5, <2>1 DEF CountInv
    <2>2. CASE i = Len(rows) + 1
      <3>1. rows'[i].known.life = lives.n
        BY <1>3, <1>5, <2>2
      <3> QED
        BY <1>2, <3>1
    <2> QED
      BY <1>5, <2>1, <2>2
  <1>11. \A i \in DOMAIN rows' : rows'[i].known.front = "runner" =>
           rows'[i].actions =
             PlanActions(rows'[i].kind, Cardinality(Mates(rows', rows'[i].known.life, i)))
    <2> SUFFICES ASSUME NEW i \in DOMAIN rows', rows'[i].known.front = "runner"
                 PROVE  rows'[i].actions =
                   PlanActions(rows'[i].kind, Cardinality(Mates(rows', rows'[i].known.life, i)))
      OBVIOUS
    <2>1. CASE i \in 1..Len(rows)
      <3>1. rows'[i] = rows[i] /\ i \in DOMAIN rows
            /\ Mates(rows', rows[i].known.life, i) = Mates(rows, rows[i].known.life, i)
        BY <1>5, <2>1
      <3> QED
        BY <3>1 DEF CountInv
    <2>2. CASE i = Len(rows) + 1
      <3>1. rows'[i] = row /\ cur.front = "runner"
        BY <1>3, <1>5, <2>2
      <3>2. row.actions = PlanActions(row.kind, lives.records)
        BY <1>3, <1>7, <3>1 DEF CountInv
      <3>3. row.known.life = lives.n
        BY <1>3
      <3> QED
        BY <1>9, <2>2, <3>1, <3>2, <3>3
    <2> QED
      BY <1>5, <2>1, <2>2
  <1>12. lives.records + 0 = lives.records
    BY <1>4, Fields
  <1> QED
    BY <1>1, <1>5, <1>6, <1>9, <1>10, <1>11, <1>12 DEF CountInv

\* The count is kept by every step ...
LEMMA StepCounts ==
  ASSUME RunnerInv, CountInv, [Next]_vars
  PROVE  CountInv'
PROOF
  <1>1. /\ cur = Idle <=> cur.stage = "idle"
        /\ cur # Idle => cur \in RunRecords
    BY Fields DEF RunnerInv
  <1>2. ASSUME NEW t \in Tasks, NEW front, Start(t, front) PROVE CountInv'
    <2>1. ~Pending /\ rows' = rows /\ lives' = lives
      BY <1>2 DEF Start, Pending
    <2>2. ~Pending'
      BY <1>2 DEF Start, Pending, FirstStage, Late, Writing
    <2> QED
      BY <2>1, <2>2, CountRests DEF Pending
  <1>3. CASE NewRunner
    BY <1>3, NewLifeCounts DEF NewRunner, Pending
  <1>4. CASE Crash
    BY <1>4, NewLifeCounts DEF Crash, Pending
  <1>5. CASE CompileFails
    <2>1. ~Pending /\ ~Pending' /\ rows' = rows /\ lives' = lives
      BY <1>5 DEF CompileFails, Pending, Late, Writing
    <2> QED
      BY <2>1, CountRests DEF Pending
  <1>6. CASE Relax \/ Scf \/ Nscf \/ Tool
    <2>1. rows' = rows /\ lives' = lives /\ cur.stage \in Early
      BY <1>6 DEF Relax, Scf, Nscf, Tool, Early
    <2>2. cur \in RunRecords
      BY <1>1, <2>1 DEF Early
    <2>3. cur'.stage \in {"nscf", "tool", "judge"}
      BY <1>6, <2>2 DEF Relax, Scf, Nscf, Tool, RunRecords
    <2>4. ~Pending /\ ~Pending'
      BY <2>1, <2>3 DEF Pending, Early, Late, Writing
    <2> QED
      BY <2>1, <2>4, CountRests DEF Pending
  <1>7. CASE OpenEvidence \/ WriteEvidence \/ OpenResult \/ WriteResult
    <2>1. rows' = rows /\ lives' = lives /\ cur.stage \in Late
      BY <1>7 DEF OpenEvidence, WriteEvidence, OpenResult, WriteResult, Late, Writing
    <2>2. cur \in RunRecords /\ cur # Idle
      BY <1>1, <2>1 DEF Late, Writing, Idle
    <2>3. cur'.stage \in Late /\ cur'.front = cur.front /\ cur'.verdict = cur.verdict
      BY <1>7, <2>2
      DEF OpenEvidence, WriteEvidence, OpenResult, WriteResult, RunRecords, Late, Writing
    <2>4. cur' # Idle
      BY <2>3 DEF Late, Writing, Idle
    <2>5. Pending' = Pending
      BY <2>1, <2>2, <2>3, <2>4 DEF Pending
    <2> QED
      BY <2>1, <2>3, <2>5, CountRests
  <1>8. CASE UNCHANGED vars
    <2>1. rows' = rows /\ lives' = lives /\ cur' = cur
      BY <1>8 DEF vars
    <2> QED
      BY <2>1, CountRests DEF Pending
  <1> QED
    BY <1>2, <1>3, <1>4, <1>5, <1>6, <1>7, <1>8, JudgeCounts, RecordRunCounts
    DEF Next, Begin, AgentBegins

\* ... so that a plan gives up exactly when the TaskRunner that makes it has
\* max_attempts of its runs in the ledger, whatever they were and came to.
THEOREM PlansGiveUpByCount == Spec => []GiveUpHasCause
PROOF
  <1>1. Init => CountInv
    <2> SUFFICES ASSUME Init PROVE CountInv
      OBVIOUS
    <2>1. rows = <<>> /\ Len(rows) = 0 /\ DOMAIN rows = {} /\ ~Pending
          /\ lives.n = 1 /\ lives.records = 0
      BY DEF Init, Pending
    <2>2. Mates(rows, 1, 0) = {}
      BY DEF Mates
    <2>3. Mates(rows, lives.n, Len(rows)) = {}
      BY <2>1, <2>2, Zenon
    <2>4. Cardinality(Mates(rows, lives.n, Len(rows))) = 0
      BY <2>3, FS_EmptySet, Zenon
    <2>5. lives.records = Cardinality(Mates(rows, lives.n, Len(rows))) + (IF Pending THEN 1 ELSE 0)
      BY <2>1, <2>4
    <2> QED
      BY <2>1, <2>5 DEF CountInv
  <1>2. RunnerInv /\ CountInv => GiveUpHasCause
    <2> SUFFICES ASSUME RunnerInv, CountInv, NEW i \in DOMAIN rows
                 PROVE  rows[i].actions = {"give_up"} <=>
                          /\ rows[i].known.front = "runner"
                          /\ Cardinality(Mates(rows, rows[i].known.life, i)) >= MaxAttempts
      BY DEF GiveUpHasCause, Mates
    <2>1. RowIsFair(rows[i]) /\ rows[i].known.front \in Fronts
      BY RowFacts
    <2>2. CASE rows[i].known.front = "agent"
      BY <2>1, <2>2 DEF RowIsFair
    <2>3. CASE rows[i].known.front = "runner"
      <3>1. rows[i].kind \in Kinds
        BY <2>1, <2>3, ClassifyIsKind DEF RowIsFair
      <3>2. Planned[rows[i].kind] # {"give_up"}
        BY <3>1 DEF Kinds, Planned
      <3>3. rows[i].actions =
              PlanActions(rows[i].kind, Cardinality(Mates(rows, rows[i].known.life, i)))
        BY <2>3 DEF CountInv
      <3> QED
        BY <2>3, <3>2, <3>3 DEF PlanActions
    <2> QED
      BY <2>1, <2>2, <2>3 DEF Fronts
  <1>3. RunnerInv /\ CountInv /\ [Next]_vars => CountInv'
    BY StepCounts
  <1> QED
    BY <1>1, <1>2, <1>3, RunnerInvariant, PTL DEF Spec

=============================================================================
