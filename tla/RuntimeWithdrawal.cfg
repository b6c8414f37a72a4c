\* A real and a synthetic session from collection to export and withdrawal, the
\* authority replaced, revoked or expiring at any time, the process dying once,
\* possibly in the middle of a deletion.
SPECIFICATION FairSpec
CHECK_DEADLOCK FALSE
CONSTANTS
  Real = {r1}
  Synthetic = {d1}
  Exports = {e1}
  MaxCrashes = 1
  MaxInstalls = 1
  None = None
INVARIANTS
  WithdrawnComplete
PROPERTIES
  WithdrawnIsFinal
  CameraReleased
