\* Two artifacts, one external copy, two confirmations, a crash and somebody else's hand.
SPECIFICATION Spec
SYMMETRY Symmetry
CHECK_DEADLOCK FALSE
CONSTANTS
  Artifacts = {a1, a2}
  Sessions = {s1}
  Copies = {x1}
  Challenges = {c1, c2}
  MaxCrashes = 1
  MaxTampers = 1
  MaxLogins = 2
  None = None
INVARIANTS
  FilesMatchRows
PROPERTIES
  PromiseKept
  TerminalImmutable
  DeletionJustified
