SPECIFICATION AllSpec
CONSTANTS
  N = 2
  Workers = {w1}
  Capacity = 1
  MaxAdmin = 1
  MaxAccepts = 2
  MaxJobs = 1
  MaxAttempts = 1
  NumPhases = 0
  MaxNet = 1
  Faults = {"post_late", "reply_lost", "admin"}
  MaxCases = 2
  Kinds = {"local", "hermes"}
  Limit = 2
  MaxClaims = 2
  MaxStops = 1
  LinkRows = {"m1", "m2", "m3"}
  HwOf <- MCHwOf
  Hosts = {"h"}
  Clients = {"c1", "c2"}
  Syncs = {"y1", "y2"}
  Artifacts = {"a"}
  Bundled = {"a"}
  MaxDefinition = 2
  Handlers = {"h1", "h2"}
  DfirRequests = {"q"}
  Reviewers = {"v1", "v2"}
  Hunts = {"h1"}
  Scans = {"s1", "s2"}
  PlatformTools = {"pslist", "windows_event_logs"}
  BaselineTools <- MCBase
  InitialCustom = {"triage"}
  Tier2Candidates = {"persistence", "execution"}
  MaxSteps = 3
INVARIANTS
  ForensicsTypeOK
  CapacityBound
  OneResultEach
  CompletedWasApproved
  WithinRecursionLimit
  IdsClashOnlyWithDetails
PROPERTIES
  FifoDispatch
  SlotPoolSpec
  CompletedLostOnlyIfStale
  OutcomeStays
  ConflictsExplained
  FalselyPushedOnlyIfStale
CHECK_DEADLOCK FALSE
