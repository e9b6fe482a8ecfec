-------------------------- MODULE AllocationWorkflow --------------------------
(***************************************************************************)
(* allocationService as it runs: every request is a chain of awaited       *)
(* queries, and the requests of other users run between any two of them.   *)
(* A worker is one request in flight.  An action is one query together     *)
(* with the code up to the next await; a request whose check fails ends    *)
(* there (the route answers 4xx) and leaves the tables alone, so only the  *)
(* checks that pass are steps at the head of a request.                    *)
(***************************************************************************)
EXTENDS AllocationData, Sequences

CONSTANTS
  Workers,      \* requests in flight at the same time
  Operations,   \* the operations the users of this instance perform
  SeamTargets,  \* statuses asked of transitionStatus, which no route calls
  Faults,       \* TRUE if a query may fail or the process may die
  MaxRequests   \* bound on the number of requests that get past their checks

ASSUME WorkflowAssumption ==
  /\ SeamTargets \subseteq Statuses
  /\ Faults \in BOOLEAN
  /\ MaxRequests \in Nat
  /\ None \notin Row \cup References

VARIABLES
  alloc,     \* budget_allocations: the row of each identifier, or None
  history,   \* allocation_approvals, in insertion order
  recorded,  \* the row blockchainService last recorded for an allocation
  year,      \* fiscal_years
  master,    \* departments, programs, fund sources and categories
  req,       \* what each worker is doing, None when it is idle
  requests   \* number of requests so far, for the bound only

vars == <<alloc, history, recorded, year, master, req, requests>>

tables == <<alloc, history, recorded, year, master>>

Steps == {"ceiling", "duplicate", "insert", "references", "edit", "remove",
          "load", "fiscalYear", "transition", "history", "ledger"}

(* A request remembers what its local variables hold across awaits: row is *)
(* the row it read (for a create, the row it will insert), refs, changed   *)
(* and amount the body of an update, budget the ceiling it read.           *)
Request ==
  [op: {"create", "update", "delete", "transition"} \cup ReviewOperations,
   step: Steps, actor: Users, id: Allocations \cup {None},
   target: Statuses \cup {None}, row: Row \cup {None},
   refs: References \cup {None},
   changed: SUBSET {"department", "program", "fundSource", "category"},
   amount: Amounts \cup {0}, budget: Budgets \cup {0}]

ASSUME RequestAssumption == None \notin Request

TypeOK ==
  /\ alloc \in [Allocations -> Row \cup {None}]
  /\ history \in [Allocations -> Seq(HistoryEntry)]
  /\ recorded \in [Allocations -> Row \cup {None}]
  /\ year \in [FiscalYears -> FiscalYearRow]
  /\ master \in MasterData
  /\ req \in [Workers -> Request \cup {None}]
  /\ requests \in Nat

Init ==
  /\ alloc = [a \in Allocations |-> None]
  /\ history = [a \in Allocations |-> <<>>]
  /\ recorded = [a \in Allocations |-> None]
  /\ year \in [FiscalYears -> [budget: Budgets, archived: {FALSE}]]
  /\ master = FirstMasterData
  /\ req = [w \in Workers |-> None]
  /\ requests = 0

-----------------------------------------------------------------------------
(* The life of a request. *)

Fresh(op, step, user) ==
  [op |-> op, step |-> step, actor |-> user, id |-> None, target |-> None,
   row |-> None, refs |-> None, changed |-> {}, amount |-> 0, budget |-> 0]

Begin(w, op, request) ==
  /\ op \in Operations
  /\ req[w] = None
  /\ requests < MaxRequests
  /\ requests' = requests + 1
  /\ req' = [req EXCEPT ![w] = request]

At(w, ops, step) ==
  /\ req[w] # None
  /\ req[w].op \in ops
  /\ req[w].step = step

Continue(w, request) ==
  req' = [req EXCEPT ![w] = request] /\ UNCHANGED requests

Proceed(w, step) == Continue(w, [req[w] EXCEPT !.step = step])

End(w) == Continue(w, None)

\* A query throws, or the process dies between two queries: what was written
\* stays written and the rest of the request never happens.
Fail(w) ==
  /\ Faults
  /\ req[w] # None
  /\ End(w)
  /\ UNCHANGED tables

-----------------------------------------------------------------------------
(* validateBudgetCeiling: one query for the fiscal year (a create already  *)
(* holds it) and one for the sum of the approved amounts.                  *)

\* Mutation: an archived year is as good as any other.
CeilingYearOfAnyStatus(w) ==
  LET y == req[w].row.fiscalYear IN
  /\ At(w, {"approve", "transition"}, "fiscalYear")
  /\ Continue(w, [req[w] EXCEPT !.step = "ceiling", !.budget = year[y].budget])
  /\ UNCHANGED tables

CeilingYear(w) ==
  LET y == req[w].row.fiscalYear IN
  /\ At(w, {"approve", "transition"}, "fiscalYear")
  /\ IF year[y].archived
     THEN End(w)
     ELSE Continue(w, [req[w] EXCEPT !.step = "ceiling", !.budget = year[y].budget])
  /\ UNCHANGED tables

CeilingSum(w) ==
  LET r == req[w] IN
  /\ At(w, {"create", "approve", "transition"}, "ceiling")
  /\ IF r.row.amount + CommittedAmount(alloc, r.row.fiscalYear) > r.budget
     THEN End(w)
     ELSE Proceed(w, IF r.op = "create" THEN "duplicate" ELSE "transition")
  /\ UNCHANGED tables

-----------------------------------------------------------------------------
(* createAllocation. *)

CreateValidate(w) ==
  \E user \in Users, y \in FiscalYears, refs \in References, amount \in Amounts :
    /\ Role[user] \in WriteRoles
    /\ ~year[y].archived
    /\ ReferencesValid(refs, DOMAIN refs, master)
    /\ Begin(w, "create",
             [Fresh("create", "ceiling", user)
                EXCEPT !.row = NewDraft(y, refs, amount, user),
                       !.budget = year[y].budget])
    /\ UNCHANGED tables

CreateCheckDuplicate(w) ==
  LET new == req[w].row IN
  /\ At(w, {"create"}, "duplicate")
  /\ IF DuplicateExists(alloc, new.fiscalYear, new.refs, {})
     THEN End(w)
     ELSE Proceed(w, "insert")
  /\ UNCHANGED tables

\* Mutation: the transaction trusts the duplicate check made before it.
CreateInsertUnchecked(w) ==
  LET y == req[w].row.fiscalYear IN
  /\ At(w, {"create"}, "insert")
  /\ \E n \in 0..Cardinality(Allocations), a \in Allocations :
       /\ IsMaxSequence(alloc, y, n) /\ ~CodeTaken(alloc, y, n + 1) /\ ~Exists(alloc, a)
       /\ alloc' = [alloc EXCEPT ![a] = [req[w].row EXCEPT !.code = n + 1]]
  /\ End(w)
  /\ UNCHANGED <<history, recorded, year, master>>

\* createWithSequentialCode, one serializable transaction: the duplicate is
\* looked for again, the next code computed and the row inserted, unless the
\* unique index on allocationCode refuses it.
CreateInsert(w) ==
  LET new == req[w].row
      y   == new.fiscalYear
  IN
  /\ At(w, {"create"}, "insert")
  /\ \E n \in 0..Cardinality(Allocations) :
       /\ IsMaxSequence(alloc, y, n)
       /\ IF DuplicateExists(alloc, y, new.refs, {}) \/ CodeTaken(alloc, y, n + 1)
          THEN UNCHANGED alloc
          ELSE \E a \in Allocations :
                 /\ ~Exists(alloc, a)
                 /\ alloc' = [alloc EXCEPT ![a] = [new EXCEPT !.code = n + 1]]
  /\ End(w)
  /\ UNCHANGED <<history, recorded, year, master>>

-----------------------------------------------------------------------------
(* updateAllocation. *)

UpdateLoad(w) ==
  \E user \in Users, a \in Allocations, amount \in Amounts \cup {0} :
    /\ Role[user] \in WriteRoles
    /\ Live(alloc, a)
    /\ alloc[a].status = "Draft"
    /\ \E refs \in References :
         LET changed == ChangedReferences(alloc[a].refs, refs) IN
         /\ changed # {} \/ amount # 0
         /\ Begin(w, "update",
                  [Fresh("update", IF changed = {} THEN "edit" ELSE "references", user)
                     EXCEPT !.id = a, !.row = alloc[a], !.refs = refs,
                            !.changed = changed, !.amount = amount])
    /\ UNCHANGED tables

UpdateValidate(w) ==
  LET r == req[w] IN
  /\ At(w, {"update"}, "references")
  /\ IF ReferencesValid(r.refs, FieldsToValidate(r.changed), master)
     THEN Proceed(w, "duplicate")
     ELSE End(w)
  /\ UNCHANGED tables

UpdateCheckDuplicate(w) ==
  LET r == req[w] IN
  /\ At(w, {"update"}, "duplicate")
  /\ IF DuplicateExists(alloc, r.row.fiscalYear, r.refs, {r.id})
     THEN End(w)
     ELSE Proceed(w, "edit")
  /\ UNCHANGED tables

UpdateWrite(w) ==
  LET r == req[w] IN
  /\ At(w, {"update"}, "edit")
  /\ alloc' = [alloc EXCEPT ![r.id] = Edited(@, r.changed, r.refs, r.amount)]
  /\ End(w)
  /\ UNCHANGED <<history, recorded, year, master>>

-----------------------------------------------------------------------------
(* deleteAllocation. *)

DeleteLoad(w) ==
  \E user \in Users, a \in Allocations :
    /\ Role[user] \in WriteRoles
    /\ Live(alloc, a)
    /\ MayDelete(alloc[a], user)
    /\ Begin(w, "delete",
             [Fresh("delete", "remove", user) EXCEPT !.id = a, !.row = alloc[a]])
    /\ UNCHANGED tables

\* Mutation: a deletion is a status of its own instead of a timestamp.
DeleteWriteAsStatus(w) ==
  LET r == req[w] IN
  /\ At(w, {"delete"}, "remove")
  /\ alloc' = [alloc EXCEPT ![r.id] = [@ EXCEPT !.status = "Deleted"]]
  /\ End(w)
  /\ UNCHANGED <<history, recorded, year, master>>

DeleteWrite(w) ==
  LET r == req[w] IN
  /\ At(w, {"delete"}, "remove")
  /\ alloc' = [alloc EXCEPT ![r.id] = [@ EXCEPT !.deleted = TRUE]]
  /\ End(w)
  /\ UNCHANGED <<history, recorded, year, master>>

-----------------------------------------------------------------------------
(* The approval workflow.  approve, reject and return read the allocation  *)
(* once to authorise the reviewer; performTransition then reads it again.  *)

ReviewAuthorise(w) ==
  \E user \in Users, a \in Allocations, op \in ReviewOperations \ {"submit"} :
    /\ Role[user] \in RouteRoles[op]
    /\ Live(alloc, a)
    /\ MayDecide(op, alloc[a], user)
    /\ Begin(w, op, [Fresh(op, "load", user) EXCEPT !.id = a, !.target = TargetStatus[op]])
    /\ UNCHANGED tables

\* Where a transition goes once the map allows it: only an approval commits
\* budget and looks at the ceiling first.
AfterLoad(target) == IF target = "Approved" THEN "fiscalYear" ELSE "transition"

SubmitLoad(w) ==
  \E user \in Users, a \in Allocations :
    /\ Role[user] \in RouteRoles["submit"]
    /\ Live(alloc, a)
    /\ "PendingApproval" \in AllowedTransitions[alloc[a].status]
    /\ Begin(w, "submit",
             [Fresh("submit", "transition", user)
                EXCEPT !.id = a, !.row = alloc[a], !.target = "PendingApproval"])
    /\ UNCHANGED tables

TransitionLoad(w) ==
  LET r == req[w] IN
  /\ At(w, ReviewOperations, "load")
  /\ IF /\ Live(alloc, r.id)
        /\ r.target \in AllowedTransitions[alloc[r.id].status]
     THEN Continue(w, [r EXCEPT !.row = alloc[r.id], !.step = AfterLoad(r.target)])
     ELSE End(w)
  /\ UNCHANGED tables

\* Mutation: the row that was read is stored back whole.
TransitionWriteStale(w) ==
  LET r    == req[w]
      row  == Transitioned(r.row, r.op, r.target, r.actor)
  IN
  /\ At(w, ReviewOperations \cup {"transition"}, "transition")
  /\ alloc' = [alloc EXCEPT ![r.id] = row]
  /\ IF r.op = "transition"
     THEN End(w)
     ELSE Continue(w, [r EXCEPT !.row = row, !.step = "history"])
  /\ UNCHANGED <<history, recorded, year, master>>

\* The UPDATE names the row by its id alone; its result is what the request
\* goes on with.
TransitionWrite(w) ==
  LET r    == req[w]
      row  == Transitioned(alloc[r.id], r.op, r.target, r.actor)
  IN
  /\ At(w, ReviewOperations \cup {"transition"}, "transition")
  /\ alloc' = [alloc EXCEPT ![r.id] = row]
  /\ IF r.op = "transition"
     THEN End(w)
     ELSE Continue(w, [r EXCEPT !.row = row, !.step = "history"])
  /\ UNCHANGED <<history, recorded, year, master>>

HistoryWrite(w) ==
  LET r == req[w] IN
  /\ At(w, ReviewOperations, "history")
  /\ history' = [history EXCEPT ![r.id] =
                   Append(@, [action |-> HistoryAction[r.op], actor |-> r.actor])]
  /\ IF r.target = "Approved" THEN Proceed(w, "ledger") ELSE End(w)
  /\ UNCHANGED <<alloc, recorded, year, master>>

\* blockchainService.recordAllocation(updated): seen from here it makes the
\* row it is handed the content of the allocation's current record.
LedgerRecord(w) ==
  LET r == req[w] IN
  /\ At(w, {"approve"}, "ledger")
  /\ recorded' = [recorded EXCEPT ![r.id] = r.row]
  /\ End(w)
  /\ UNCHANGED <<alloc, history, year, master>>

\* transitionStatus, the only way to Archived.
SeamLoad(w) ==
  \E user \in Users, a \in Allocations, target \in SeamTargets :
    /\ Live(alloc, a)
    /\ target \in AllowedTransitions[alloc[a].status]
    /\ Begin(w, "transition",
             [Fresh("transition", AfterLoad(target), user)
                EXCEPT !.id = a, !.row = alloc[a], !.target = target])
    /\ UNCHANGED tables

-----------------------------------------------------------------------------
(* The neighbours: fiscal years and master data change under the service's *)
(* feet.  Each is one committed write of another service.                  *)

Neighbour(w, op) ==
  /\ op \in Operations
  /\ req[w] = None
  /\ requests < MaxRequests
  /\ requests' = requests + 1
  /\ UNCHANGED req

\* updateFiscalYear: no check relates the new budget to what is committed.
FiscalYearWrite(w) ==
  \E y \in FiscalYears, row \in FiscalYearRow :
    /\ Neighbour(w, "fiscalYear")
    /\ year' = [year EXCEPT ![y] = row]
    /\ UNCHANGED <<alloc, history, recorded, master>>

EntityWrite(w) ==
  \E e \in Entities :
    /\ Neighbour(w, "masterData")
    /\ master' = [master EXCEPT !.inactive = SymDiff(@, {e})]
    /\ UNCHANGED <<alloc, history, recorded, year>>

\* updateBudgetProgram moves a program, whatever allocations name it.
ProgramWrite(w) ==
  \E p \in Programs, d \in Departments :
    /\ Neighbour(w, "programs")
    /\ master' = [master EXCEPT !.department[p] = d]
    /\ UNCHANGED <<alloc, history, recorded, year>>

-----------------------------------------------------------------------------
Step(w) ==
  \/ CreateValidate(w) \/ CreateCheckDuplicate(w) \/ CreateInsert(w)
  \/ UpdateLoad(w) \/ UpdateValidate(w) \/ UpdateCheckDuplicate(w) \/ UpdateWrite(w)
  \/ DeleteLoad(w) \/ DeleteWrite(w)
  \/ ReviewAuthorise(w) \/ SubmitLoad(w) \/ TransitionLoad(w) \/ SeamLoad(w)
  \/ CeilingYear(w) \/ CeilingSum(w)
  \/ TransitionWrite(w) \/ HistoryWrite(w) \/ LedgerRecord(w)
  \/ FiscalYearWrite(w) \/ EntityWrite(w) \/ ProgramWrite(w)
  \/ Fail(w)

Next == \E w \in Workers : Step(w)

Spec == Init /\ [][Next]_vars

-----------------------------------------------------------------------------
(* Properties that hold however the requests interleave and fail.          *)

Independent(row, user) ==
  Role[user] \in {"Administrator", "Treasurer"} /\ user # row.createdBy

\* Separation of duties: whoever is on record as the reviewer of an allocation,
\* on the row or in its history, is an approver and not its creator, although
\* the authorisation is checked on a row read two queries earlier.
IndependentReview ==
  \A a \in Allocations :
    Exists(alloc, a) =>
      /\ alloc[a].reviewedBy # None => Independent(alloc[a], alloc[a].reviewedBy)
      /\ \A i \in DOMAIN history[a] :
           history[a][i].action \in {"Approved", "Rejected"} =>
             Independent(alloc[a], history[a][i].actor)

\* A status never stands without what justifies it: a pending or approved
\* allocation was submitted, an approved or rejected one names its reviewer
\* and a rejected one its reason, whatever overtakes whatever.
DecisionsAreJustified ==
  \A a \in Allocations :
    Exists(alloc, a) =>
      LET row == alloc[a] IN
      /\ row.status \in {"PendingApproval", "Approved"} => row.submitted
      /\ row.status \in {"Approved", "Rejected"} => row.reviewedBy # None
      /\ row.status = "Rejected" => row.rejectionReason

IdentityStep ==
  \A a \in Allocations :
    Exists(alloc, a) =>
      /\ Exists(alloc', a)
      /\ alloc'[a].createdBy = alloc[a].createdBy
      /\ alloc'[a].fiscalYear = alloc[a].fiscalYear
      /\ alloc'[a].code = alloc[a].code
      /\ alloc[a].submitted => alloc'[a].submitted
      /\ alloc[a].deleted => alloc'[a].deleted

\* An allocation belongs for ever to the user who created it and to its fiscal
\* year and code; that it was submitted or deleted is never forgotten.
IdentityIsStable == [][IdentityStep]_vars

Grounded(r) ==
  /\ r.op = "create" => /\ r.row # None /\ r.row.status = "Draft" /\ r.row.reviewedBy = None
                        /\ r.step \in {"ceiling", "duplicate", "insert"}
  /\ r.op # "create" => /\ r.id # None /\ Exists(alloc, r.id)
                        /\ r.step # "load" => r.row # None
  /\ r.op = "update" => r.refs # None
  /\ r.op \in ReviewOperations => r.target = TargetStatus[r.op]
  /\ r.op \in {"approve", "reject"} => MayReview(alloc[r.id], r.actor)
  /\ r.op = "return" => Role[r.actor] \in ApprovalRoles \/ alloc[r.id].createdBy = r.actor
  /\ r.op = "transition" => r.target \in SeamTargets

\* What a request in progress may rely on at every later step, whatever the
\* others wrote since it was authorised: the row it works on exists; who approves
\* or rejects it is an approver other than its creator, and who returns it is an
\* approver or its creator.
\* Of an authorisation that looked at the status or at deletedAt nothing more is
\* kept: a creator's return of a row resubmitted meanwhile
\* (allocationService.js:393-402), an officer's delete of a row submitted
\* meanwhile (:261-266) and a write to a row deleted meanwhile still go through.
RequestsAreGrounded == \A w \in Workers : req[w] # None => Grounded(req[w])

ApproveSteps == {"fiscalYear", "ceiling", "transition"}

\* An approval that passed the transition map is about to approve an allocation
\* that was submitted, even if it has been returned or rejected since.
ApprovesOnlySubmitted ==
  \A w \in Workers, step \in ApproveSteps :
    At(w, {"approve"}, step) => alloc[req[w].id].submitted

\* A create never makes a duplicate, however many of them run at once: what
\* counts is the check inside the serializable transaction.
CreatesMakeNoDuplicate ==
  [][\A a, b \in Allocations :
       Exists(alloc', a) /\ ~Exists(alloc, a) => ~Clash(alloc', a, b)]_vars

-----------------------------------------------------------------------------
(* A promise of the documentation that two approvals at once break. *)

\* The approved total of a fiscal year only grows within its ceiling.
GrowsWithinBudget ==
  [][\A y \in FiscalYears :
       CommittedAmount(alloc', y) > CommittedAmount(alloc, y)
         => CommittedAmount(alloc', y) <= year'[y].budget]_vars
=============================================================================
