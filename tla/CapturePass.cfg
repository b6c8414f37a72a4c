\* The deployed window, which equals the preflight, and nothing goes wrong.
SPECIFICATION Spec
CONSTANTS
  Lines = {"N2"}
  Windows = {1}
  Preflight = 1
  MaxNow = 4
  MaxDisturb = 0
CHECK_DEADLOCK FALSE
INVARIANTS
  UndisturbedPasses
