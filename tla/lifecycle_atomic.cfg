\* Every operation on allocations, ceilings that move, years that close, references that go inactive, programs that move.
\* No deadlock check: histories are bounded, so the instance runs out of steps.
SPECIFICATION MCSpec
CONSTANTS
  None = None
  a1 = a1
  a2 = a2
  officer = officer
  treasurer = treasurer
  admin = admin
  y1 = y1
  d1 = d1
  d2 = d2
  p1 = p1
  p2 = p2
  f1 = f1
  c1 = c1
  Role <- MCRole
  StartYear <- MCStartYear
  ProgramDepartment <- MCProgramDepartment
  Allocations = {a1, a2}
  Users = {admin, treasurer}
  FiscalYears = {y1}
  Departments = {d1, d2}
  Programs = {p1, p2}
  FundSources = {f1}
  Categories = {c1}
  Amounts = {2}
  Budgets = {2, 4}
  Operations = {"create", "update", "delete", "submit", "approve", "reject", "return", "transition", "fiscalYear", "masterData", "programs"}
  SeamTargets = {"Archived"}
  MaxHistory = 3
  MaxChanged = 1
SYMMETRY Symmetry
INVARIANTS
  LifecycleTypeOK
  HistoryExplainsStatus
  ApprovedAsRecorded
PROPERTIES
  ProgramMatchesDepartment
  GrowsWithinBudget
  DuplicatesOnlyByReturn
CHECK_DEADLOCK FALSE
