\* Two real sessions competing for the camera, a process death, authority changes.
CHECK_DEADLOCK FALSE
SPECIFICATION Spec
SYMMETRY Symmetry
CONSTANTS
  Real = {r1, r2}
  Synthetic = {}
  Exports = {}
  MaxCrashes = 1
  MaxInstalls = 2
  None = None
INVARIANTS
  SingleCamera
  SealedIntact
