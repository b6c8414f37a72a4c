\* Two participants, two sessions, three artifacts, no consent and no write intents.
CONSTANTS
  Studies = {st1}
  Participants = {p1, p2}
  Sessions = {s1, s2}
  Artifacts = {a1, a2, a3}
  Keys = {k1, k2}
  ReceiptIds = {}
  Intents = {}
  Files = {}
  MaxCrashes = 0
  None = None
SPECIFICATION Spec
SYMMETRY Symmetry
CHECK_DEADLOCK FALSE
INVARIANTS LineageClosed WithdrawalComplete CanonicalReceipt
