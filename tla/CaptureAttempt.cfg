\* Both capture lines, a window without and one with time to close.
SPECIFICATION FairSpec
CONSTANTS
  Lines = {"N1", "N2"}
  Windows = {1, 3}
  Preflight = 1
  MaxNow = 4
  MaxDisturb = 1
CHECK_DEADLOCK FALSE
INVARIANTS
  FrameOwnership
  PassIsEarned
  DiagnosisExact
PROPERTIES
  AttemptEnds
