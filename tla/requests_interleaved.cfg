SPECIFICATION Spec
CONSTANTS
  x1 = x1
  x2 = x2
  f1 = f1
  f2 = f2
  f3 = f3
  w1 = w1
  w2 = w2
  None = None
  Jobs = {w1, w2}
  MaxRequests = 4
  MaxFaults = 1
  Docs = {x1, x2}
  Files = {f1, f2, f3}
  Prefixes <- MCPrefixes
  MaxVersions = 2
  Years = {x1, x2}
  Months = {1, 2}
  RowRequests = 2
  Users = {f1, f2, f3}
  Tabs = {x1, x2}
  Slots = {f1, f2, f3}
  Whole = {"versions"}
  Limited = {"auditLogs", "records"}
  Times = {1, 2, 3}
  PageSize = 1
  Take = 1
SYMMETRY Symmetry
INVARIANTS
  DocumentsTypeOK
  VersionChain
  BytesAreKept
  NothingLeftBehind
  VersionLimit
  NextCodeIsFree
  YearsTypeOK
  OneActiveYear
  PeriodsAreDisjoint
  UsersTypeOK
  LastAdministratorStays
  ClientTypeOK
  QueueIsServed
  SessionLasts
  PagesCoverTheStart
PROPERTIES
  KeepsEvidence
CHECK_DEADLOCK FALSE
