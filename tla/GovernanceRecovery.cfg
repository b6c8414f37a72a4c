\* Consent, write intents and crashes.
CONSTANTS
  Studies = {st1}
  Participants = {p1}
  Sessions = {s1, s2}
  Artifacts = {}
  Keys = {k1, k2}
  ReceiptIds = {r1}
  Intents = {i1, i2}
  Files = {f1}
  MaxCrashes = 2
  None = None
SPECIFICATION FairSpec
CHECK_DEADLOCK FALSE
INVARIANTS TypeOK QuarantineBlocks EventsExactlyOnce
PROPERTIES WithdrawalIsTerminal RecoveryEnds
