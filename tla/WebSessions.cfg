\* Three requests of any kind on two sessions and a restart.
SPECIFICATION Spec
CONSTANTS
  s1 = s1
  Sessions = {s1, s2}
  MaxRequests = 3
  MaxRestarts = 1
  Everywhere = everywhere
  NoFile = nofile
CONSTRAINT FirstIsS1
INVARIANTS EntryIsLive GuardsHold StopHitsItsTurn AnsweredIsKept DeletedStaysGone SweepFindsTheEngine StaleEngineHasCause
CHECK_DEADLOCK FALSE
