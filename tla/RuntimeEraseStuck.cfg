\* A deletion that failed half way and can never be completed.
SPECIFICATION Spec
CHECK_DEADLOCK FALSE
CONSTANTS
  Real = {r1}
  Synthetic = {}
  Exports = {}
  MaxCrashes = 0
  MaxInstalls = 1
  None = None
INVARIANTS
  WithdrawalAvailable
