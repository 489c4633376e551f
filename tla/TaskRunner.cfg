\* Two tasks in one directory, three runs, one crash.
SPECIFICATION Spec
CONSTANTS
  Tasks = {"t1_si", "t2_si_dos"}
  Pipeline <- OneOfEach
  MaxAttempts = 2
  MaxRuns = 3
  MaxCrashes = 1
INVARIANTS StaleHasCause PaperTrail FailuresAreCounted GiveUpHasCause
CHECK_DEADLOCK FALSE
