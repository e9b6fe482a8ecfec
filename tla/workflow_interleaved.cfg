\* Two requests in flight, every operation, queries that fail.
\* No deadlock check: the number of requests is bounded, so the instance runs out of steps.
SPECIFICATION Spec
CONSTANTS
  None = None
  a1 = a1
  a2 = a2
  w1 = w1
  w2 = w2
  officer = officer
  treasurer = treasurer
  admin = admin
  y1 = y1
  d1 = d1
  d2 = d2
  p1 = p1
  p2 = p2
  f1 = f1
  f2 = f2
  c1 = c1
  Role <- MCRole
  StartYear <- MCStartYear
  ProgramDepartment <- MCProgramDepartment
  Allocations = {a1, a2}
  Workers = {w1, w2}
  Users = {officer, treasurer, admin}
  FiscalYears = {y1}
  Departments = {d1}
  Programs = {p1}
  FundSources = {f1}
  Categories = {c1}
  Amounts = {2}
  Budgets = {2}
  Operations = {"create", "update", "delete", "submit", "approve", "reject", "return", "transition", "fiscalYear", "masterData"}
  SeamTargets = {"Archived"}
  Faults = TRUE
  MaxRequests = 5
SYMMETRY Symmetry
INVARIANTS
  TypeOK
  RequestsAreGrounded
  IndependentReview
  DecisionsAreJustified
PROPERTIES
  IdentityIsStable
  CreatesMakeNoDuplicate
CHECK_DEADLOCK FALSE
