\* A caller and a cancel_all, two jobs, over Slurm, PBS or a direct run.
SPECIFICATION FairSpec
CONSTANTS
  Caller = {c1}
  Canceller = {k1}
  Modes = {"slurm", "pbs", "none"}
  MaxJobs = 2
INVARIANTS OrphanHasCause SuccessIsEarned
PROPERTY CallEnds
CHECK_DEADLOCK FALSE
