SPECIFICATION AllSpec
CONSTANTS
  Writers = {a, b, c}
  MaxId = 4
  Admins = {"s", "o"}
  Supers = {"s"}
  Requirements = {"r1"}
  Levels = {1, 2}
  MaxParts = 1
  MaxRefresh = 3
  Refreshers = {"f1", "f2"}
  Requests = {"q1", "q2"}
  Users = {"u1", "u2"}
  Founder = "u1"
  AdminRequests = {"p1", "p2"}
  Machines = {"m1", "m2"}
  OrgAdmins = {"o"}
  AlertSupers = {"s"}
  Linked = {}
  Rules = {"r"}
  Callers = {"sweep", "investigation"}
  Orgs = {"sub"}
  OrgOf <- MCOneOrg
  Recipients = {"u1", "u2"}
  Keys = {"k1", "k2"}
  Senders = {"c1", "c2"}
  LinkUsers = {"u1", "u2"}
  MaxLinkTokens = 2
  MaxVersion = 2
  BotReaders = {"b1", "b2"}
  Reports <- MCReports
  InventoryRequests = {"q1", "q2"}
  ExportTimes = {2}
  MaxStarts = 1
  Beats = {"b1", "b2"}
  MaxCertificates = 3
  MaxWishes = 3
  Prints = {"p", "r"}
  MaxDrifts = 3
  Enrols = {"e1", "e2"}
  Resolvers = {"v1", "v2"}
  Taggers = {"t1", "t2"}
  Purposes = {"lab"}
  People = {"x", "y"}
INVARIANTS
  AdminTypeOK
  NoDanglingLink
  StaysSignedIn
  OneReport
  KeepsACertificate
  RescanNotForgotten
  SnapshotIsCurrent
  OnePendingDrift
  ExactlyOneClassification
PROPERTIES
  ForksOnlyOnTwoReads
  SuperLostOnlyToOverlap
  BrokenForEver
  DecisionStands
  ComplianceKept
  DismissedStaysGone
  SweepCutShortOnly
CHECK_DEADLOCK FALSE
