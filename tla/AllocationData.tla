---------------------------- MODULE AllocationData ----------------------------
(***************************************************************************)
(* The rows of the budget-allocation tables and the pure decisions the     *)
(* service takes on them: which transitions the map allows, who may review *)
(* what, what one UPDATE writes, what a query over the table returns.      *)
(* The table itself is a parameter of the query operators, so that the     *)
(* abstract life cycle (AllocationLifecycle) and the await-level service   *)
(* (AllocationWorkflow) decide with the same definitions.                  *)
(***************************************************************************)
EXTENDS Naturals, FiniteSets, FiniteSetsExt

CONSTANTS
  Allocations,        \* identifiers of rows of budget_allocations
  Users,              \* authenticated users
  Role,               \* the role each user holds
  FiscalYears,
  StartYear,          \* calendar year in which a fiscal year starts
  Departments, Programs, FundSources, Categories,
  ProgramDepartment,  \* the department each budget program belongs to at first
  Amounts,            \* allocation amounts a request may carry
  Budgets,            \* ceilings a fiscal year may be given
  None                \* SQL NULL, and a row that does not exist

Roles == {"Administrator", "Treasurer", "BudgetOfficer", "Auditor"}

ASSUME DataAssumption ==
  /\ Role \in [Users -> Roles]
  /\ StartYear \in [FiscalYears -> Nat]
  /\ ProgramDepartment \in [Programs -> Departments]
  /\ Amounts \subseteq Nat \ {0}
  /\ Budgets \subseteq Nat
  /\ None \notin Users \cup Allocations

Statuses == {"Draft", "PendingApproval", "Approved", "Rejected", "Archived"}

\* Mutation: a draft may be approved without having been submitted.
AllowedTransitionsFromDraft ==
  [from \in Statuses |->
     CASE from = "Draft"           -> {"PendingApproval", "Approved", "Rejected"}
       [] from = "PendingApproval" -> {"Approved", "Rejected", "Draft"}
       [] from = "Approved"        -> {"Archived"}
       [] from = "Rejected"        -> {"Draft"}
       [] from = "Archived"        -> {}]

AllowedTransitions ==
  [from \in Statuses |->
     CASE from = "Draft"           -> {"PendingApproval", "Rejected"}
       [] from = "PendingApproval" -> {"Approved", "Rejected", "Draft"}
       [] from = "Approved"        -> {"Archived"}
       [] from = "Rejected"        -> {"Draft"}
       [] from = "Archived"        -> {}]

\* Statuses that neither block a duplicate combination nor commit budget.
ExcludedStatuses == {"Rejected", "Archived"}

\* The four master-data references of an allocation; with its fiscal year they
\* are the combination that must be unique among live allocations.
References ==
  [department: Departments, program: Programs,
   fundSource: FundSources, category: Categories]

Row ==
  [status: Statuses, code: Nat, fiscalYear: FiscalYears, refs: References,
   amount: Amounts, createdBy: Users, reviewedBy: Users \cup {None},
   submitted: BOOLEAN,         \* submittedAt is set
   rejectionReason: BOOLEAN,   \* a reason is stored
   deleted: BOOLEAN]           \* deletedAt is set

Entities == Departments \cup Programs \cup FundSources \cup Categories

\* The entities that are not Active or do not exist, and the department each
\* budget program belongs to.
MasterData == [inactive: SUBSET Entities, department: [Programs -> Departments]]

FirstMasterData == [inactive |-> {}, department |-> ProgramDepartment]

FiscalYearRow == [budget: Budgets, archived: BOOLEAN]

HistoryAction ==
  [submit |-> "Submitted", approve |-> "Approved",
   reject |-> "Rejected", return |-> "Returned"]

ReviewOperations == DOMAIN HistoryAction

TargetStatus ==
  [submit |-> "PendingApproval", approve |-> "Approved",
   reject |-> "Rejected", return |-> "Draft"]

HistoryEntry ==
  [action: {"Submitted", "Approved", "Rejected", "Returned"}, actor: Users]

-----------------------------------------------------------------------------
(* Authorisation: the roles of the routes, then the checks of the service. *)

WriteRoles    == {"Administrator", "BudgetOfficer"}
ApprovalRoles == {"Administrator", "Treasurer"}
ReturnRoles   == WriteRoles \cup ApprovalRoles

RouteRoles ==
  [submit |-> WriteRoles, approve |-> ApprovalRoles,
   reject |-> ApprovalRoles, return |-> ReturnRoles]

\* Mutation: the role alone is checked.
MayReviewOwn(row, user) == Role[user] \in ApprovalRoles

\* assertApprover: an approver who did not create the allocation.
MayReview(row, user) ==
  Role[user] \in ApprovalRoles /\ row.createdBy # user

\* returnToDraft lets the creator, too, take back a rejected allocation.
MayReturn(row, user) ==
  \/ row.status = "Rejected" /\ (Role[user] \in ApprovalRoles \/ row.createdBy = user)
  \/ row.status # "Rejected" /\ MayReview(row, user)

\* Mutation: approve and reject forget to call assertApprover.
MayDecideByRoute(op, row, user) == op = "return" => MayReturn(row, user)

MayDecide(op, row, user) ==
  CASE op = "submit" -> TRUE
    [] op = "return" -> MayReturn(row, user)
    [] OTHER         -> MayReview(row, user)

MayDelete(row, user) ==
  /\ row.status # "Archived"
  /\ Role[user] = "BudgetOfficer" => row.status = "Draft"

-----------------------------------------------------------------------------
(* What the writes store. *)

NewDraft(year, refs, amount, user) ==
  [status |-> "Draft", code |-> 0, fiscalYear |-> year, refs |-> refs,
   amount |-> amount, createdBy |-> user, reviewedBy |-> None,
   submitted |-> FALSE, rejectionReason |-> FALSE, deleted |-> FALSE]

\* The single UPDATE of performTransition (and, for op = "transition", of
\* transitionStatus, which stores the status and nothing else).
Transitioned(row, op, target, user) ==
  [row EXCEPT
     !.status = target,
     !.reviewedBy = IF op \in {"approve", "reject"} THEN user ELSE @,
     !.submitted = (op = "submit") \/ @,
     !.rejectionReason = (op = "reject") \/ (op # "submit" /\ @)]

ChangedReferences(old, new) == {f \in DOMAIN new : new[f] # old[f]}

\* Mutation: an update without an amount stores zero.
EditedAlwaysAmount(row, changed, refs, amount) ==
  [row EXCEPT !.refs = [f \in DOMAIN @ |-> IF f \in changed THEN refs[f] ELSE @[f]],
              !.amount = amount]

\* updateAllocation stores the columns that differ from the row it read, and
\* the amount when the request carries one (0 stands for "not supplied").
Edited(row, changed, refs, amount) ==
  [row EXCEPT
     !.refs = [f \in DOMAIN @ |-> IF f \in changed THEN refs[f] ELSE @[f]],
     !.amount = IF amount = 0 THEN @ ELSE amount]

-----------------------------------------------------------------------------
(* Validation of references and the queries over a table of allocations. *)

\* validateReferences on the given columns: every entity named is active, and
\* a department and a program validated together belong together.
ReferencesValid(refs, fields, master) ==
  /\ \A f \in fields : refs[f] \notin master.inactive
  /\ {"department", "program"} \subseteq fields
       => master.department[refs.program] = refs.department

\* Mutation: department and program are validated one by one.
FieldsToValidateAlone(changed) == changed

\* Columns an update validates: what changed, and department and program
\* together as soon as one of them did.
FieldsToValidate(changed) ==
  IF changed \cap {"department", "program"} = {} THEN changed
  ELSE changed \cup {"department", "program"}

Exists(table, a) == table[a] # None

Live(table, a) == Exists(table, a) /\ ~table[a].deleted

\* duplicateExists: a live allocation other than those in except already has
\* the combination.
DuplicateExists(table, year, refs, except) ==
  \E a \in Allocations \ except :
    /\ Live(table, a)
    /\ table[a].status \notin ExcludedStatuses
    /\ table[a].fiscalYear = year
    /\ table[a].refs = refs

\* Two live allocations have the same combination.
Clash(table, a, b) ==
  /\ a # b
  /\ Live(table, a) /\ table[a].status \notin ExcludedStatuses
  /\ DuplicateExists(table, table[a].fiscalYear, table[a].refs, Allocations \ {b})

Committed(table, year) ==
  {a \in Allocations : /\ Live(table, a)
                       /\ table[a].status = "Approved"
                       /\ table[a].fiscalYear = year}

CommittedAmount(table, year) ==
  MapThenSumSet(LAMBDA a : table[a].amount, Committed(table, year))

\* n is the highest sequence number among the fiscal year's codes, 0 if none:
\* the query filters on the fiscal year and on its BA-<start year> prefix.
IsMaxSequence(table, year, n) ==
  LET rows == {a \in Allocations : Exists(table, a) /\ table[a].fiscalYear = year}
  IN  /\ \A a \in rows : table[a].code <= n
      /\ n = 0 \/ \E a \in rows : table[a].code = n

\* The code BA-<start year>-<code> is taken; allocationCode is unique over the
\* whole table, not per fiscal year.
CodeTaken(table, year, code) ==
  \E a \in Allocations :
    /\ Exists(table, a)
    /\ StartYear[table[a].fiscalYear] = StartYear[year]
    /\ table[a].code = code
=============================================================================
