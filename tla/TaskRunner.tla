----------------------------- MODULE TaskRunner -----------------------------
(***************************************************************************)
(* The deterministic pipeline (runner.py) with its verifier (verifier.py), *)
(* its recovery controller (recovery.py), the evidence ledger (ledger.py)  *)
(* and the Agent that runs single tasks through it (agent.py).             *)
(*                                                                         *)
(* A caller runs tasks one after the other, any of them several times, in  *)
(* one work directory, with a TaskRunner it keeps or through the Agent,    *)
(* which builds one for every call.  Nothing is removed from the directory *)
(* between two runs: every file is stamped with the number of the run that *)
(* wrote it, so that what a verdict rests on can be told.  All tasks are   *)
(* of one material, hence of one QE prefix and one .save directory.        *)
(***************************************************************************)
EXTENDS Integers, Sequences, FiniteSets

CONSTANTS
  Tasks,          \* task ids of the catalog
  Pipeline,       \* [Tasks -> {"T1", "bands", "dos"}]
  MaxAttempts,    \* RecoveryController.max_attempts
  MaxRuns,        \* bound on the runs started
  MaxCrashes      \* bound on the deaths of the process

Pipelines == {"T1", "bands", "dos"}

ASSUME RunnerAssumption ==
  /\ Pipeline \in [Tasks -> Pipelines]
  /\ MaxAttempts \in Nat \ {0}
  /\ MaxRuns \in Nat /\ MaxCrashes \in Nat

VARIABLES
  cur,        \* the run in progress, or Idle
  lives,      \* [n |-> which TaskRunner object, records |-> Len(run_records)]
  disk,       \* the work directory
  rows,       \* the ledger's table
  runs,       \* runs started
  crashes

vars == <<cur, lives, disk, rows, runs, crashes>>

RunIds == 0..MaxRuns                       \* 0: nobody wrote it
Saves == [scf: RunIds, nscf: RunIds]       \* the prefix's .save directory
\* The file of bands.x or dos.x: who wrote it, from which save, and whether
\* the parser finds data in it (in a file cut short it finds none).
Products == [by: RunIds, save: Saves, data: BOOLEAN]
\* evidence.json or result.json: whose it is, and FALSE while it is cut short.
Papers == [of: RunIds, whole: BOOLEAN]

\* What a pw.x run of the scf stage may leave: no usable output; an output
\* without the convergence marker; the marker, but killed before the save;
\* or all of it.
ScfOutcomes == {"broken", "unconverged", "cut", "good"}
\* verify_nscf wants three markers, which pw.x prints after it has saved.
NscfOutcomes == {"broken", "good"}
\* What bands.x or dos.x does to the file the verifier reads.
ToolOutcomes == {"nothing", "empty", "good"}

Reasons == {"scf", "nscf", "missing", "empty",
            "force", "pressure", "cell", "parser", "other"}
Kinds == {"scf_not_converged", "nscf_not_converged", "output_missing",
          "forces_too_high", "pressure_too_high", "bad_cell",
          "parser_mismatch", "unknown"}

Idle == [stage |-> "idle"]
NoSave == [scf |-> 0, nscf |-> 0]
NoProduct == [by |-> 0, save |-> NoSave, data |-> FALSE]
NoPaper == [of |-> 0, whole |-> TRUE]
NoVerdict == [passed |-> FALSE, kind |-> "", actions |-> {}, attempt |-> 0,
              rests |-> NoProduct]

Init ==
  /\ cur = Idle
  /\ lives = [n |-> 1, records |-> 0]
  /\ disk = [save |-> NoSave,
             bands |-> NoProduct, dos |-> NoProduct,
             evidence |-> NoPaper, result |-> NoPaper]
  /\ rows = <<>>
  /\ runs = 0
  /\ crashes = 0

-----------------------------------------------------------------------------
\* Mutant: a file with data in it is evidence enough.
T2Reasons_FileOnly(scf, nscf, product) ==
  (IF scf \in {"cut", "good"} THEN {} ELSE {"scf"})
  \cup (IF product.by = 0 THEN {"missing"}
        ELSE IF product.data THEN {} ELSE {"empty"})

\* verify_scf, verify_nscf and verify_t2_*: each failed check adds a reason,
\* and the tool's own success is not among the checks.
T2Reasons(scf, nscf, product) ==
  (IF scf \in {"cut", "good"} THEN {} ELSE {"scf"})
  \cup (IF nscf = "good" THEN {} ELSE {"nscf"})
  \cup (IF product.by = 0 THEN {"missing"}
        ELSE IF product.data THEN {} ELSE {"empty"})

\* Some combinations verify_t1 can report: no output fails every check, and
\* a failure of the job alone, or of the geometry, is none of the named ones.
T1Failures ==
  {{"scf", "force", "pressure", "cell", "parser", "other"},
   {"force", "pressure"}, {"pressure"}, {"cell"}, {"other"}}

\* Mutant: the spelling of the verifier's reason is not matched.
Classify_OldSpelling(reasons) ==
  CASE "scf" \in reasons -> "scf_not_converged"
    [] "scf" \notin reasons /\ reasons \cap {"missing", "empty"} # {} -> "output_missing"
    [] OTHER -> "unknown"

\* RecoveryController.classify: the first branch that matches.  The timeout
\* and tool branches look for words that no check of the verifier writes.
Classify(reasons) ==
  CASE "scf" \in reasons -> "scf_not_converged"
    [] "scf" \notin reasons /\ "nscf" \in reasons -> "nscf_not_converged"
    [] reasons \cap {"scf", "nscf"} = {} /\ reasons \cap {"missing", "empty"} # {}
         -> "output_missing"
    [] OTHER -> IF "force" \in reasons THEN "forces_too_high"
                ELSE IF "pressure" \in reasons THEN "pressure_too_high"
                ELSE IF "cell" \in reasons THEN "bad_cell"
                ELSE IF "parser" \in reasons THEN "parser_mismatch"
                ELSE "unknown"

\* The private planners: what each kind of failure is answered with.
Planned ==
  [scf_not_converged  |-> {"ecutwfc", "kpoints", "check_pseudos"},
   nscf_not_converged |-> {"nbnd", "kpoints_nscf"},
   output_missing     |-> {"check_nscf_output"},
   forces_too_high    |-> {"ecutwfc", "conv_thr"},
   pressure_too_high  |-> {"check_structure"},
   bad_cell           |-> {"check_structure"},
   parser_mismatch    |-> {"retry"},
   unknown            |-> {"retry"}]

\* plan_actions: the number of the attempt decides first.
PlanActions(kind, attempt) ==
  IF attempt >= MaxAttempts THEN {"give_up"} ELSE Planned[kind]

-----------------------------------------------------------------------------
Mine == Pipeline[cur.task]

\* run_task_deterministic and the callers of run_t1 and run_t2_*: the task's
\* type, and its subtype, choose the pipeline.
FirstStage(t) == IF Pipeline[t] = "T1" THEN "relax" ELSE "scf"

Start(t, front) ==
  /\ cur = Idle
  /\ runs < MaxRuns
  /\ runs' = runs + 1
  /\ cur' = [stage |-> FirstStage(t), task |-> t, front |-> front, run |-> runs + 1,
             scf |-> "broken", nscf |-> "broken", tool |-> "nothing",
             reasons |-> {}, verdict |-> NoVerdict]
  /\ UNCHANGED <<lives, disk, rows, crashes>>

\* A caller with a TaskRunner and a ledger ...
Begin(t) == Start(t, "runner")

\* ... or Agent._run_known_task, whose TaskRunner is new and has none.
AgentBegins(t) == Start(t, "agent")

\* A caller takes a new TaskRunner.
NewRunner ==
  /\ cur = Idle
  /\ lives.records > 0
  /\ lives' = [n |-> lives.n + 1, records |-> 0]
  /\ UNCHANGED <<cur, disk, rows, runs, crashes>>

\* The compiler raises (an unknown material, a missing pseudopotential): the
\* run leaves no record; the Agent answers with an error.
CompileFails ==
  /\ cur.stage \in {"relax", "scf"}
  /\ cur' = Idle
  /\ UNCHANGED <<lives, disk, rows, runs, crashes>>

\* pw.x of a vc-relax, and verify_t1 on its output.
Relax ==
  /\ cur.stage = "relax"
  /\ \E reasons \in {{}} \cup T1Failures :
       cur' = [cur EXCEPT !.stage = "judge", !.reasons = reasons]
  /\ \E saved \in BOOLEAN :
       disk' = IF saved THEN [disk EXCEPT !.save = [scf |-> cur.run, nscf |-> 0]]
               ELSE disk
  /\ UNCHANGED <<lives, rows, runs, crashes>>

\* The scf stage.  Whatever comes out of it, the next stage runs.
Scf ==
  /\ cur.stage = "scf"
  /\ \E out \in ScfOutcomes :
       /\ cur' = [cur EXCEPT !.stage = "nscf", !.scf = out]
       /\ disk' = IF out \in {"unconverged", "good"}
                  THEN [disk EXCEPT !.save = [scf |-> cur.run, nscf |-> 0]]
                  ELSE disk
  /\ UNCHANGED <<lives, rows, runs, crashes>>

\* The nscf stage reads the charge density that lies there, whoever left it.
Nscf ==
  /\ cur.stage = "nscf"
  /\ \E out \in NscfOutcomes :
       /\ out = "good" => disk.save.scf # 0
       /\ cur' = [cur EXCEPT !.stage = "tool", !.nscf = out]
       /\ disk' = IF out = "good" THEN [disk EXCEPT !.save.nscf = cur.run] ELSE disk
  /\ UNCHANGED <<lives, rows, runs, crashes>>

\* bands.x or dos.x, and the verifier on the two outputs and on the file of
\* the expected name.
Tool ==
  /\ cur.stage = "tool"
  /\ \E out \in ToolOutcomes :
       LET product == IF out = "nothing" THEN disk[Mine]
                      ELSE [by |-> cur.run, save |-> disk.save,
                            data |-> out = "good"]
       IN /\ out = "good" => disk.save.scf # 0
          /\ disk' = [disk EXCEPT ![Mine] = product]
          /\ cur' = [cur EXCEPT !.stage = "judge", !.tool = out,
                                !.reasons = T2Reasons(cur.scf, cur.nscf, product),
                                !.verdict.rests = product]
  /\ UNCHANGED <<lives, rows, runs, crashes>>

\* Mutant: the Agent's runs go through the caller's TaskRunner.
Judge_OneRunner ==
  /\ cur.stage = "judge"
  /\ LET attempt == lives.records + 1
         kind == Classify(cur.reasons)
     IN cur' = [cur EXCEPT !.stage = "evidence",
                  !.verdict = [passed |-> cur.reasons = {}, kind |-> kind,
                               actions |-> PlanActions(kind, attempt),
                               attempt |-> attempt,
                               rests |-> cur.verdict.rests]]
  /\ lives' = [lives EXCEPT !.records = @ + 1]
  /\ UNCHANGED <<disk, rows, runs, crashes>>

\* classify, plan_actions and the RunRecord, for a pass as for a failure.
\* The Agent's runner is new: its attempt is always the first.
Judge ==
  /\ cur.stage = "judge"
  /\ LET attempt == IF cur.front = "agent" THEN 1 ELSE lives.records + 1
         kind == Classify(cur.reasons)
     IN cur' = [cur EXCEPT !.stage = "evidence",
                  !.verdict = [passed |-> cur.reasons = {}, kind |-> kind,
                               actions |-> PlanActions(kind, attempt),
                               attempt |-> attempt,
                               rests |-> cur.verdict.rests]]
  /\ lives' = IF cur.front = "agent" THEN lives
              ELSE [lives EXCEPT !.records = @ + 1]
  /\ UNCHANGED <<disk, rows, runs, crashes>>

\* Path.write_text: the file is cut short when it is opened, whosever it was,
\* and has its text when that is written.
Opened(paper) == [disk EXCEPT ![paper] = [of |-> cur.run, whole |-> FALSE]]
Written(paper) == [disk EXCEPT ![paper] = [of |-> cur.run, whole |-> TRUE]]

\* evidence.to_json ...
OpenEvidence ==
  /\ cur.stage = "evidence"
  /\ disk' = Opened("evidence")
  /\ cur' = [cur EXCEPT !.stage = "evidenceOpen"]
  /\ UNCHANGED <<lives, rows, runs, crashes>>

\* Mutant: the result is handed out without being saved.
WriteEvidence_Only ==
  /\ cur.stage = "evidenceOpen"
  /\ disk' = Written("evidence")
  /\ cur' = [cur EXCEPT !.stage = "ledger"]
  /\ UNCHANGED <<lives, rows, runs, crashes>>

WriteEvidence ==
  /\ cur.stage = "evidenceOpen"
  /\ disk' = Written("evidence")
  /\ cur' = [cur EXCEPT !.stage = "result"]
  /\ UNCHANGED <<lives, rows, runs, crashes>>

\* ... and then result.json, each over the one of the run before.
OpenResult ==
  /\ cur.stage = "result"
  /\ disk' = Opened("result")
  /\ cur' = [cur EXCEPT !.stage = "resultOpen"]
  /\ UNCHANGED <<lives, rows, runs, crashes>>

WriteResult ==
  /\ cur.stage = "resultOpen"
  /\ disk' = Written("result")
  /\ cur' = [cur EXCEPT !.stage = "ledger"]
  /\ UNCHANGED <<lives, rows, runs, crashes>>

\* What only the model knows of a row: the run, the runner and its evidence.
Known == [run |-> cur.run, life |-> lives.n, front |-> cur.front,
          scf |-> cur.scf, nscf |-> cur.nscf, tool |-> cur.tool,
          reasons |-> cur.reasons, rests |-> cur.verdict.rests]

RunnerRow == [task |-> cur.task, success |-> cur.verdict.passed,
              attempt |-> cur.verdict.attempt, kind |-> cur.verdict.kind,
              actions |-> cur.verdict.actions, known |-> Known]

\* _maybe_record_ledger: the result carries neither a kind nor actions.
AgentRow == [task |-> cur.task, success |-> cur.verdict.passed,
             attempt |-> 1, kind |-> "", actions |-> {}, known |-> Known]

\* EvidenceLedger.record_run, by the runner or by the Agent.
RecordRun ==
  /\ cur.stage = "ledger"
  /\ rows' = Append(rows, IF cur.front = "agent" THEN AgentRow ELSE RunnerRow)
  /\ cur' = Idle
  /\ UNCHANGED <<lives, disk, runs, crashes>>

\* The process dies at any point; files and rows stay, the runner does not.
Crash ==
  /\ crashes < MaxCrashes
  /\ cur # Idle
  /\ crashes' = crashes + 1
  /\ cur' = Idle
  /\ lives' = [n |-> lives.n + 1, records |-> 0]
  /\ UNCHANGED <<disk, rows, runs>>

Next ==
  \/ \E t \in Tasks : Begin(t)
  \/ \E t \in Tasks : AgentBegins(t)
  \/ NewRunner
  \/ CompileFails
  \/ Relax
  \/ Scf
  \/ Nscf
  \/ Tool
  \/ Judge
  \/ OpenEvidence
  \/ WriteEvidence
  \/ OpenResult
  \/ WriteResult
  \/ RecordRun
  \/ Crash

Spec == Init /\ [][Next]_vars

-----------------------------------------------------------------------------
\* get_failure_patterns: the rows it counts under a kind.
FailurePatterns(kind) ==
  {i \in DOMAIN rows : ~rows[i].success /\ kind # "" /\ rows[i].kind = kind}

OwnWork(run) == [by |-> run, save |-> [scf |-> run, nscf |-> run], data |-> TRUE]

TypeOK ==
  /\ cur = Idle \/ /\ cur.stage \in {"relax", "scf", "nscf", "tool", "judge",
                                     "evidence", "evidenceOpen",
                                     "result", "resultOpen", "ledger"}
                   /\ cur.run = runs
                   /\ cur.task \in Tasks /\ cur.front \in {"runner", "agent"}
                   /\ cur.scf \in ScfOutcomes /\ cur.nscf \in NscfOutcomes
                   /\ cur.tool \in ToolOutcomes /\ cur.reasons \subseteq Reasons
                   /\ cur.verdict.kind \in Kinds \cup {""}
                   /\ cur.verdict.rests \in Products
  /\ lives \in [n: Nat \ {0}, records: 0..runs]
  /\ disk \in [save: Saves, bands: Products, dos: Products,
              evidence: Papers, result: Papers]
  /\ \A i \in DOMAIN rows : rows[i].task \in Tasks /\ rows[i].kind \in Kinds \cup {""}
  /\ runs \in RunIds
  /\ crashes \in 0..MaxCrashes

\* What a passed T2 run rests on that is not its own work, from the charge
\* density to the file it quotes, has a cause: the scf was killed between its
\* convergence marker and its save, or the tool wrote nothing, and an earlier
\* run had left the thing.  (The directory is never cleaned, three programs
\* hand over through it, and the success of none of them is looked at.)
StaleHasCause ==
  \A i \in DOMAIN rows :
    LET k == rows[i].known IN
    rows[i].success /\ Pipeline[rows[i].task] # "T1" =>
      \/ k.rests = OwnWork(k.run)
      \/ /\ k.tool = "nothing"
         /\ k.rests.by \in 1..(k.run - 1)
      \/ /\ k.scf = "cut"
         /\ k.rests = [OwnWork(k.run) EXCEPT !.save.scf = k.rests.save.scf]
         /\ k.rests.save.scf \in 1..(k.run - 1)

\* A row's evidence and result are on disk before the row, those of its run or
\* of a later run in the directory.  What may be cut short under a row is only
\* what a later run has opened to write its own: it is still at it, or a crash
\* ended it there; its own row then does not exist.  The two files disagree on
\* the run only after a crash.
PaperTrail ==
  /\ \A paper \in {disk.evidence, disk.result} :
       /\ \A i \in DOMAIN rows :
            /\ paper.of >= rows[i].known.run
            /\ ~paper.whole => paper.of > rows[i].known.run
       /\ ~paper.whole => crashes > 0 \/ (cur # Idle /\ paper.of = cur.run)
  /\ disk.evidence.of >= disk.result.of
  /\ crashes = 0 /\ cur = Idle => disk.evidence.of = disk.result.of

\* Every failed row of a TaskRunner is counted among the patterns, under the
\* earliest stage that failed; what is not counted came through the Agent.
FailuresAreCounted ==
  /\ \A i \in DOMAIN rows :
       ~rows[i].success =>
         \/ rows[i].known.front = "agent"
         \/ \E kind \in Kinds : i \in FailurePatterns(kind)
  /\ \A i \in FailurePatterns("nscf_not_converged") :
       rows[i].known.scf \in {"cut", "good"} /\ rows[i].known.nscf = "broken"
  /\ \A i \in FailurePatterns("output_missing") :
       rows[i].known.scf \in {"cut", "good"} /\ rows[i].known.nscf = "good"
  /\ \A i \in FailurePatterns("forces_too_high") \cup FailurePatterns("bad_cell") :
       "scf" \notin rows[i].known.reasons

\* A plan gives up exactly when the TaskRunner has max_attempts runs in the
\* ledger since it was made, of whatever task and whether they passed or not;
\* runs that the compiler refused, that died, or that came through the Agent do
\* not count.
GiveUpHasCause ==
  \A i \in DOMAIN rows :
    LET own == {j \in 1..i : /\ rows[j].known.front = "runner"
                             /\ rows[j].known.life = rows[i].known.life}
    IN  rows[i].actions = {"give_up"} <=>
          rows[i].known.front = "runner" /\ Cardinality(own) >= MaxAttempts

=============================================================================
