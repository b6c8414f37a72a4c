SPECIFICATION Spec
CHECK_DEADLOCK FALSE
CONSTANTS
  \* Workspace
  Runs = {r1}
  Exams = {e1}
  Keys = {k1, k2}
  AnswerKeys = {a1}
  Payloads = {v1}
  MaxCrashes = 1
  None = None
  \* ReviewerAccess
  Clients = {c1}
  Checkers = {h1}
  MaxFailures = 2
  Cooldown = 1
  Ttl = 1
  MaxTokens = 2
  MaxClock = 2
  \* AuthorityChain, NativeAuthority, StagedAuthority, BootstrapInstall
  Supervisors = {p1, p2}
  Faulty = TRUE
  Callers = {n1, n2}
  MaxCalls = 2
  Stagers = {s1, s2}
  GrantTtl = 0
  MaxStageClock = 2
  Installers = {"i1", "i2"}
  Readers = {"r1"}
  \* DeviceContract
  Warmup = 1
  Duration = 2
  Stall = 3
  MaxGap = 1
  MaxLatency95 = 1
  MaxLatency99 = 2
  MaxBacklog = 1
  MaxLostPercent = 50
  TicksPerFrame = 1
  MinFree = 3
  MaxFrames = 3
  MaxTime = 3
  \* NativeReceipt
  RunLength = 4
  RunWarmup = 1
  StallGap = 4
  GapLimit = 2
  LatencyLimit95 = 1
  LatencyLimit99 = 2
  BacklogLimit = 1
  TicksPerMs = 1
  TicksPerRunFrame = 2
  MaxRunFrames = 3
  MaxRunTime = 4
  \* SyntheticRun
  ReviewKeys = {y1, y2}
  ReviewCap = 1
  RunFixtures = 2
  MaxSynClock = 1
  \* TemporalRules
  MotionDuration = 2
  PresenceDuration = 1
  ReleaseTicks = 0
  MergeGap = 1
  CooldownTicks = 1
  UpdateEvery = 1
  ModelWindow = 2
  ModelEvery = 2
  FramePeriod = 1
  MaxFrameGap = 2
  MaxRecording = 4
  \* SessionReview
  ReviewLabels = {"NORMAL", "PROLONGED_HEAD_DOWN"}
  ReviewFrames = 2
  ReviewEvents = 2
  MaxReviews = 3
  \* ModelRegistry
  Bundles = {"b1", "b2", "bad"}
  Sound = {"b1", "b2"}
  Research = {"b1"}
  MaxRegistryCrashes = 1
  MaxImports = 2
INVARIANTS
  LedgerTruthful
  NoCaptureWithoutExam
  GuessesBounded
  LaunchBacked
  TerminalTruthful
  NativeSingleCapture
  StepsBacked
  ReceiptTruthful
  LeasesAccounted
  EvaluationExact
  RunReceiptExact
  SyntheticEvidenceSound
  EventsBacked
  ExportUnambiguous
PROPERTIES
  NoAnswerAfterCapture
  TokenLifetime
  OnlyVerifiedServes
