\* Two replacements of one document at its limit, nothing failing.
\* No deadlock check: the number of requests is bounded, so the instance runs out of steps.
SPECIFICATION Spec
CONSTANTS
  x1 = x1
  x2 = x2
  f1 = f1
  f2 = f2
  f3 = f3
  w1 = w1
  w2 = w2
  None = None
  Jobs = {w1, w2}
  MaxRequests = 3
  MaxFaults = 0
  Docs = {x1}
  Files = {f1, f2, f3}
  Prefixes <- MCPrefixes
  MaxVersions = 2
  Years = {x1}
  Months = {1}
  RowRequests = 1
  Users = {f1}
  Tabs = {x1}
  Slots = {f1}
  Whole = {"versions"}
  Limited = {"auditLogs", "records"}
  Times = {1}
  PageSize = 1
  Take = 1
SYMMETRY Symmetry
INVARIANT VersionsWithinLimit
CHECK_DEADLOCK FALSE
