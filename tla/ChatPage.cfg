\* Two sessions, of which one has an upload and a drawing, and one to be made.
SPECIFICATION Spec
CONSTANTS
  Sessions = {s1, s2, s3}
  Kept = {s1, s2}
  Uploaded = {s1}
  Drawn = {s1}
  NoSession = NoSession
  s1 = s1
  s2 = s2
  MaxMessages = 2
  KindsOf <- FirstResearch
  MaxClicks = 2
  Accuracies = {"balanced", "custom"}
  Inputs = {blank, typed}
  Blank = blank
CONSTRAINT Bounded
INVARIANTS PageIsOfOneSession FigureIsOfTheRequest StructuresStayHome ApprovedAsSeen ControlsMatch StopNamesItsTurn
CHECK_DEADLOCK FALSE
