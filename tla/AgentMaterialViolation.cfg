\* A run that names a material, in a session with an earlier structure.
SPECIFICATION Spec
CONSTANTS
  s1 = s1
  s2 = s2
  Callers = {s1, s2}
  Payloads <- MCPayloads
  Console = console
  Dead = dead
  Nothing = nothing
  Systems <- MCSystems
  Placeholder = "zero"
  PlansOf <- MCPlansOf
  LedgerSize = 2
INVARIANT MaterialIsComputed
CHECK_DEADLOCK FALSE
