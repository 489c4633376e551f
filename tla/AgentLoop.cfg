\* Two messages in one session while another one has a message.
SPECIFICATION Spec
CONSTANTS
  s1 = s1
  s2 = s2
  Callers = {s1, s2}
  Payloads <- MCPayloads
  Console = console
  Dead = dead
  Nothing = nothing
  Systems <- MCSystems
  Placeholder = "zero"
  PlansOf <- MCPlansOf
  LedgerSize = 2
INVARIANTS SoloCallIsExact WrongResultHasCause ForeignPlanHasCause
CHECK_DEADLOCK FALSE
