\* A run whose last row could not be written although its file is gone.
SPECIFICATION Spec
CHECK_DEADLOCK FALSE
CONSTANTS
  Artifacts = {a1}
  Sessions = {s1}
  Copies = {}
  Challenges = {c1}
  MaxCrashes = 1
  MaxTampers = 0
  MaxLogins = 2
  None = None
INVARIANT CompletePlanFinalizes
