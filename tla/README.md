# A specification of BudgetChain

BudgetChain is a university's budget system: officers draft allocations of a fiscal
year's budget, approvers decide on them, and what was approved is anchored on an
Ethereum ledger. The server is one Node.js process (`apps/backend`): JavaScript runs
one handler at a time, but every `await` of a query or a ledger call lets the other
requests run. Almost every handler is *read, check, await, write* without a
transaction around it, so the interesting behaviour is in the orders in which the
steps of two requests, the background scheduler and the ledger can mix, and in what
is left behind when one of the steps fails.

These modules model that behaviour in TLA+, check it with TLC on small instances and
prove with TLAPS, for every size, each of the safety properties that TLC checks and each
refinement. Paths below are relative to `src/`.

## 1. Inventory

| Component | State | Operations | Interacts with | Hard behaviour | What makes it correct |
|---|---|---|---|---|---|
| **Budget allocations** `allocationService`, `allocationRepository`, `allocationRoutes` | `budget_allocations` (status, code, year, four references, amount, creator, reviewer, submittedAt, rejectionReason, deletedAt), `allocation_approvals` | create, update, delete, submit, approve, reject, return, transitionStatus | reads fiscal years and master data; calls `blockchainService.recordAllocation` | checks and writes of concurrent requests interleave; the row is written by id alone; three writes of an approval are not one transaction | separation of duties, ceiling, uniqueness, justified statuses, history that explains the status |
| **Fiscal years** `fiscalYearService` | dates, budget, status, `isActive` | create, update, delete, setActive | ceilings and archived flag are read by allocations | activation is two transactions; overlap and archive checks precede their writes | one active year, no overlap, archived years retired |
| **Master data** departments, fund sources, categories, programs | code, name, status, program's department | create, update, delete | validated as references of allocations | goes inactive or moves between check and use | references are active and program and department match when written |
| **Ledger anchoring** `blockchainService`, `blockchainScheduler`, `config/blockchain`, `BudgetLedger.sol` | `blockchain_records`, the contract's set of hashes, the scheduler's `isProcessing` | recordAllocation, retryRecord, verifyAllocation, reconcile | called by approvals and by the retry route; reads allocations | lost receipts, a node that is down, two anchors of one hash, a slow retry superseding a newer record, crashes | Confirmed means on chain; one current record; the current record is that of the approved content; eventual anchoring |
| **Audit trail** `auditLogger`, `auditPersistence`, `auditEventBlockchainService`, `AuditLedger.sol` | `audit_logs` with anchor state | persist (fire and forget), anchorEvent, retryEvent | every service logs; the scheduler retries | loser of a race marks Failed; Failed rows are not fetched; batch limit | Confirmed means on chain; every row eventually anchored |
| **Documents** `documentService`, `documentStorageService`, `documentBlockchainService` | documents, versions, blobs, version anchor state | upload, replace, update, archive, verify, anchor | storage, ledger, fiscal years, allocations | version limit and duplicate hash checked before the write; archive races replace; blob left without row | version chain without gaps, stored blobs match rows |
| **Users** `userService` | role, status | create, update, delete | `authenticate` reads role and status at every request (`authMiddleware.js:39`) | last-administrator check is a count before the write | an active administrator remains |
| **Sessions** `authService`, `refreshTokenRepository` | refresh tokens | login, refresh, logout | client refresh queue | two refreshes of one token, refresh against logout | a token has one successor; logout ends the session |
| **Client refresh queue** `frontend/src/api/axios.ts` | `isRefreshing`, `failedQueue` | request, 401, refresh | sessions | requests waiting on a refresh that fails | every waiting request is released |
| **HTTP middleware** | none shared worth a model | authenticate, authorize, rate limit, upload | all routes | – | roles of the routes are in `AllocationData`, `Users` and `Sessions` |
| **Merged listings** `timelineService`, `blockchainHistoryService` | none of their own | a page of a union of tables | every table that records something | each page is read anew while entries are added or superseded | going through the pages misses nothing that was there |
| **Server life cycle** `server.js` | – | start, stop | scheduler | what is in flight when the process dies | nothing that was promised is lost |
| **Dashboards, frontend pages, shared package** | none | – | – | – | not modelled, see section 6 |

## 2. Modules

| Module | What it is |
|---|---|
| `AllocationData` | the rows of the allocation tables, the transition map, the roles, who may review what, what an UPDATE stores and what the queries return; used by both models below |
| `AllocationLifecycle`, `AllocationLifecycle_proofs` | the abstract specification: each operation of the API checks and writes in one step; the theorems about it, with those on sums over rows |
| `AllocationWorkflow` | the service as it runs: a worker is a request in flight, an action is one awaited query with the code up to the next `await` |
| `AllocationRefinement` | the refinement mapping from the workflow to the life cycle |
| `AllocationWorkflow_proofs` | the theorems about `AllocationWorkflow`, the refinement included, and their proofs |
| `AnchorLedger` | the abstract specification of anchoring: the ledger and the set of contents reported Confirmed only grow, the second within the first |
| `Anchoring` | blockchainService, the record table, the scheduler, the contract and the node: an action is one awaited query or ledger call; implements `AnchorLedger` |
| `Anchoring_proofs` | the theorems about `Anchoring` and their proofs |
| `RowAnchoring` | anchoring of the rows that carry their own anchor columns: document versions and audit entries, with the scheduler's pass over both |
| `RowAnchoring_proofs` | Confirmed rows are on the ledger |
| `Handlers` | what the modules below share: a handler in flight is a record with the step it awaits, and the bounds on requests and faults |
| `EvidenceChain` | the abstract specification of documents: sequences of contents that only grow |
| `Documents`, `Documents_proofs` | documentService, documentRepository and the local storage; implements `EvidenceChain`, as the second proves with the other properties |
| `FiscalYears`, `FiscalYears_proofs` | fiscalYearService with its overlap checks and two-part activations, and the theorems about it |
| `Users`, `Users_proofs` | userService behind authenticate and authorize, and the theorems about it |
| `Sessions` | authService's refresh tokens, the axios interceptors with their queue, AuthContext, several tabs |
| `Listings` | the paging of the two unions |
| `Clients_proofs` | the theorems about `Sessions` and `Listings` |
| `MCAllocationLifecycle`, `MCAllocationWorkflow`, `MCAnchoring`, `MCRowAnchoring`, `MCRequests` | instances for TLC; `MCRequests` composes the five modules over `Handlers` |

### State and actions against the code

* A row of `alloc` is a row of `budget_allocations`; `None` is an id not used yet.
  Timestamps are reduced to whether they are set; the description is left out.
  `refs` are the four foreign keys that together with the fiscal year form the
  combination that must be unique. `code` is the sequence number of
  `BA-<start year>-<number>`; `StartYear` gives the year part.
* `history` is `allocation_approvals`, `recorded` the row `recordAllocation` was last
  handed (the content of the allocation's current ledger record).
* `year` and `master` are what allocations see of fiscal years and master data: the
  budget, whether the year is archived, which entities are not Active, and the department
  each program belongs to. Their services are environment steps that commit one write;
  `MoveProgram` and `ProgramWrite` are `updateBudgetProgram`, which looks at no allocation.
* `req[w]` is what the handler's local variables hold across its awaits. The head of
  a request (`CreateValidate`, `UpdateLoad`, `DeleteLoad`, `ReviewAuthorise`,
  `SubmitLoad`, `SeamLoad`) is its first query and the checks after it; a request
  whose first check fails answers 4xx and is no step. A later check that fails ends
  the request (`End`) without a write.
* `TransitionWrite` is the single `UPDATE ... WHERE id` of `performTransition`: it
  changes the columns it names on whatever row is there now, which is why approve and
  reject of one allocation may both succeed.
* The serializable transaction of `createWithSequentialCode` is one action; the
  database's refusal to serialise, like any other query error or the death of the
  process, is `Fail(w)`: what was written stays, the rest never happens.
* `validateReferences` reads up to five tables with `Promise.all`; the model takes
  them as one step. `validateAmount` is the constant set `Amounts`.
* `transitionStatus` has no route (its comment calls it a seam for the approval
  workflow; only tests call it). It is the only way to `Archived`, so it is modelled,
  with the targets asked of it as the constant `SeamTargets`.
* The role of a user is a constant. The code reads it from the user table at the start of
  every request (`authMiddleware.js:39-55`) and uses that copy to its end; that it may
  change between two requests of one user is left out here and modelled in `Users`.

Anchoring:

* A content is the allocation and how often its row was rewritten, which is what
  `computeAllocationContentHash` tells apart (`submittedAt`, `reviewedAt` and the fields
  an edit changes). An edit that restores an earlier draft to the byte is left out.
* `row` is what anchoring sees of `AllocationWorkflow`: `Approve`, `Revise` and `Delete`
  are its writes without their checks, since those checks do not hold between the read
  and the write anyway. `Approve` starts `recordAllocation` with the row it wrote.
* `record` is `blockchain_records`, keyed by the unique content hash. A job's `mode` is
  whether the outcome ends in `createCurrent` (recordAllocation) or in an update of the
  record found (retryRecord), which is also where their catch blocks differ: the first
  stores Failed, the second stores nothing.
* `Lookup`, `Load` and `Current` carry the mutual calls of recordAllocation and
  retryRecord; `Verify`, `Submit` and `Receipt` are `anchorUnlessExists` and
  `BlockchainProvider.record`.
* ethers and the node are outside `src/`, modelled from how the code uses them: gas
  estimation refuses a content the contract holds, a transaction sent twice reverts in
  its block, `wait()` throws on a revert, may throw in an outage and otherwise waits
  without limit. The chain itself is never reset.
* `pass` is `isProcessing` with the rest of the fetched records. Records are taken in any
  order; the code takes them oldest first.
* The signer missing, no funds and a nonce taken by another job are one action,
  `RejectTransaction`; its effect on the record is the same.

Rows that are anchored (`RowAnchoring`):

* `anchor` holds the anchor columns of `document_versions` and `audit_logs`; a row exists
  before it is anchored, unlike a record of `Anchoring`. Entries are numbered by timestamp,
  which is the order `findUnconfirmed` takes them in.
* `LogEvent(e)` starts a worker of its own for the entry: `auditLogger.log` does not wait
  for `persistAuditEntry`. `Upload` starts one for a version, or none, as the activity
  row between the commit and `anchorVersion` may fail.
* `mode` separates anchorVersion and anchorEvent, which mark the row Failed by id whatever
  it says by then, from retryVersion and retryEvent, which write nothing on failure.
* `FetchedEntries` (Pending only, oldest first, `Batch` of fifty) against
  `UnconfirmedVersions` (Pending or Failed, all) is the difference between the two loops
  of the scheduler; `audit_failed_entry` is its consequence.
* The contracts, the node and faults are those of `Anchoring`.

Handlers (`Documents`, `FiscalYears`, `Users`, `Sessions`):

* `docCall[j]`, `yearCall[j]`, `userCall[j]`, `clientCall[j]` hold what handler j remembers
  across awaits; its `step` names the query it waits for, and the action of that step is
  the query with the code up to the next. What is read and checked before the first
  write-relevant await is in the guard of the request.
* `Documents`: a file is its SHA-256. Bytes are stored under a key of the request
  (`StoreStream`), looked up (`FindDuplicate`), inserted in a serializable transaction
  (`Insert`), recorded on the timeline (`CreateActivity`), or removed again (`RemoveBlob`).
  `LoseCommit` is a commit whose answer is lost; the handler removes the bytes then, too.
* `FiscalYears`: an update is reduced to what it does to the period and to which of the
  three statuses it writes. `Deactivate` is the repository's `setActive`; `WriteYear` is
  the second write of an update, which repeats status and flag by id.
* `Users`: `FindUser` reads, `CountAdministrators` counts, `WriteUser` writes by id.
* `Sessions`: `stored` is the local storage shared by the tabs, `refreshing` the tabs'
  `isRefreshing`, the calls at step `queued` their `failedQueue`. A refresh runs through
  `FindToken`, `RevokeToken`, `CreateToken` at the server and `Granted` or `Refused` at
  the client. A reload abandons what a tab awaits; the server goes on with it.
* Ghost variables name causes, never effects: `interrupted` (requests a fault stopped),
  `unanswered` (those among them whose commit was done but not answered),
  `fresh`/`overlooked`/`raced` (a write relied on reads another write had made out of
  date), `sole`/`multiplied` (a second activation came in between), `steady` (nothing
  happened that may end a session). No guard reads them.
* `Listings`: `Load(s)` is one of the queries of `Promise.all`, `ShowPage` merges, sorts and
  slices. `Whole` and `Limited` are the sources without and with the default limit of
  a `findMany` that is given no page.

## 3. Runs

Each run is one question. Every instance of the allocation modules has two allocations; a third adds nothing,
as no rule of the code relates more than a row and the set of the others, and the
ceilings and amounts are chosen so that one allocation fits and two do not, or so
that an edit changes the answer.

| Run | Question | Bounds |
|---|---|---|
| `lifecycle_atomic` | Are history, ledger record, ceiling, uniqueness and references consistent when requests do not overlap? | one fiscal year whose ceiling may hold one or two allocations, two departments and programs, at most `MaxHistory` = 3 decisions per allocation (submit, decide, return), at most `MaxChanged` = 1 entity inactive, program moved or year archived at a time; both roles that may approve, one of them also a creator |
| `workflow_interleaved` | What survives any interleaving of two requests, failures included? | two workers, `MaxRequests` = 5 requests in a behaviour: create, submit, and three more that race, fail or follow; one of each role |
| `workflow_serial` | Does the service implement the life cycle when requests do not overlap? | one worker, six requests, a second fund source so that an edit has a reference to change, a second department for a program to move to |
| `workflow_overcommit` | Can concurrent approvals exceed the ceiling? They can. | two workers, six requests, the shortest that create, submit and approve two allocations |
| `lifecycle_return_duplicate` | Can two live allocations share a combination? They can, without concurrency. | as `lifecycle_atomic`, the operations involved |
| `anchoring` | Does anchoring keep its promise under races and failures, is every live record confirmed in the end, and does every request return? | one allocation rewritten at most once (`MaxVersion` = 1), two requests (`MaxRequests`) that overlap, or one beside one fault (`MaxFaults`), the scheduler, any number of outages |
| `anchoring_stale_record` | Does a mismatch mean tampering? It does not. | no fault, one rewrite |
| `anchoring_lost_record` | Is an anchored approval always mirrored in the end? It is not. | one request at a time beside the scheduler, one rewrite, one fault |
| `rows_anchored` | Are versions and entries confirmed in the end, and is what is Confirmed on the ledger? | one version, two entries with `Batch` = 1 so that one has to wait for the other, one request, the scheduler, three inputs (uploads, events, retries, faults, outages) |
| `audit_failed_entry` | Is a Failed audit entry retried? It is not. | one entry, one input |
| `requests_interleaved` | What do the handlers of documents, years, users, sessions and listings keep when they interleave and fail? | two handlers in flight, four requests (two where the tables have rows to begin with, `RowRequests`), one fault; two documents, three files, limit of two versions, codes with and without a year; two years in two months from any legal table; three users from any table with an administrator; two tabs with three calls; three sources, three entries, pages of one, default limit of one |
| `documents_over_limit` | Can a document get more versions than the limit? It can. | two handlers, three requests (an upload and two replacements), a limit of two versions, no fault |

Anchoring uses one allocation because a job and a record never touch two, and the
scheduler takes its records one after the other, each failure caught by itself; two
requests and the scheduler are the three parties that can meet in one record. One fault is
enough to separate any write from the one that should follow it; outages, which
recur, are not counted. From the first fault on the second handler serves nobody
(`MCNext`): races and faults are explored separately, so that liveness can be checked in
the same run. The safety properties of this run are theorems for any number of
requests, rewrites and faults, mixed in any way (section 5).

The five components of `requests_interleaved` share nothing but the bounds, so a behaviour
follows one of them (`focus`): the steps of the others commute with its own. Their
sets share model values, which are interchangeable in all of them at once. Two
handlers are what a race takes: every check of this code is about one row or one count.
Fiscal years and users start from every table that requests can have left, not from an
empty one, so two requests are enough to reach their races.

Where requests, inputs or histories are bounded deadlock is not checked: such an instance stops.
Rows and workers are interchangeable. The runs that check safety only use that symmetry,
`requests_interleaved` also for `KeepsEvidence`: it is a safety refinement whose formula does
not distinguish the permuted values. It is not used where liveness is checked (`anchoring`,
`anchoring_lost_record`, `rows_anchored`, `audit_failed_entry`), nor in `workflow_serial`.

What the properties say:

* **Over atomic requests** (`AllocationLifecycle`): `GrowsWithinBudget` - the
  approved total only grows within the ceiling of the moment;
  `HistoryExplainsStatus` - the last decision in the history is the status in force;
  `ApprovedAsRecorded` - an approved allocation has the content that went to the
  ledger, so a verification never reports tampering nobody did;
  `DuplicatesOnlyByReturn` - a duplicate combination appears only when a rejected
  allocation is taken back; `ProgramMatchesDepartment` - a create or an edit files an
  allocation under the department its program belongs to by then.
* **Over any interleaving** (`AllocationWorkflow`): `IndependentReview` (separation of
  duties), `RequestsAreGrounded` (a request keeps the row it works on, and the part of its
  authorisation that depends on who acts: an approver other than the creator approves or
  rejects, an approver or the creator returns; what it read of the status may be
  outdated, see below), `DecisionsAreJustified` (a status never
  stands without the submission, reviewer or reason it needs), `IdentityIsStable`
  (creator, year, code, submission and deletion are never lost), and
  `CreatesMakeNoDuplicate`.

* **Of anchoring** (`Anchoring`): `ImplementsLedger` - a Confirmed record is on the ledger
  and is never downgraded, neither by a receipt that is lost, nor by the loser of a race,
  nor by a retry that fails; `JobsAreGrounded` - no job confirms or updates on a
  fact that does not hold, and the scheduler never creates a record;
  `OneCurrentRecord`; `EventuallyConfirmed` and `JobsEnd` under fairness.

* **Of rows** (`RowAnchoring`): `ConfirmedOnLedger`; `VersionsSettle` - although the loser of
  a race may write Failed over Confirmed, a version is confirmed for good in the end;
  `EntriesSettle` - no entry stays Pending however small the batch; `CallsEnd`.

* **Of documents**: `KeepsEvidence` (the refinement of `EvidenceChain`), `VersionChain`
  (numbers without gaps, the newest is current), `BytesAreKept` (no cleanup after a failed
  query and no crash costs a version its bytes; only a commit that was not answered
  does), `NothingLeftBehind` (a stored file has its version and its entry unless a fault
  stopped the request), `VersionLimit` (overlapping replacements exceed the limit by
  fewer than the requests in flight; that they exceed it is `documents_over_limit`),
  `NextCodeIsFree`.

* **Of fiscal years and users**: `OneActiveYear`, `PeriodsAreDisjoint` and
  `LastAdministratorStays`, each up to the cause that the code really leaves open.

* **Of sessions**: `QueueIsServed` - a refresh is in flight exactly while isRefreshing is
  set, and nobody waits without one; `SessionLasts` - overlapping requests of a tab never
  end the session.

* **Of listings**: `PagesCoverTheStart` - going through all pages shows every entry there
  was at the first, up to superseded ones and the default limit.

What the code does not keep in anchoring. A retry that overlaps an approval may
supersede the record of the approved content (`anchoring_stale_record`); an approval that
dies before `createCurrent` is invisible to the scheduler (`anchoring_lost_record`); a
dropped transaction blocks its request, or every later pass, until a restart, where
`docs/TRANSACTIONS.md:127` has it Failed; of two retries of one record the second may
overwrite the transaction hash of the first with null; a missing signer leaves the
record of an approval Failed, where line 124 has it Pending; the retry route anchors
whatever the row holds, drafts included.

What interleaving breaks in the allocation tables, each shown by TLC on this model while it was built: the
ceiling (`workflow_overcommit`, kept as a run); an approve and a reject, or a delete and an
approve, of one allocation both land, so the transition map is not respected between
the row before and after; an edit that read a draft lands on the submitted or
approved row, and an officer's delete too, where `docs/BUDGET_ALLOCATION.md:347` says that
only drafts can be edited or deleted; the creator who returns a rejected allocation may in
fact return the resubmitted, pending one; an approval whose request dies after the UPDATE has no
history entry and no ledger record; two concurrent edits store a program beside a
department it does not belong to. One cause explains them all: the UPDATE does not
name the status or the version of the row that was checked.

What the other components do not keep. Each is a behaviour of the model, met while it was
built; the properties above except exactly these causes.

* Two years are active after a create with `isActive`, which deactivates nothing, or when
  the second write of an update comes after another activation (`docs/SERVICES.md:38`
  speaks of enforcing one). Overlap checks and writes are two queries, so two requests may
  store overlapping years. An archived year may be set Inactive and then activated.
* Two administrators who demote each other at the same time leave none, where
  `docs/USER_MANAGEMENT.md:29` says the system prevents it.
* Two years that start in one calendar year compute the same allocation code
  (`allocationRepository.js:231`): every create of the second fails on the unique column.
* Replacements that overlap exceed the limit of versions (`documents_over_limit`), where
  `docs/DOCUMENT_MANAGEMENT.md:364` says a document cannot, and the comment at
  `documentService.js:295` that uploads beyond the limit are rejected.
* A replacement accepted before its document was archived still becomes its current
  version. A commit whose answer is lost loses the bytes of its version.
* A refresh answered after the logout of its tab stores tokens again; two tabs that
  refresh with one token end the session. `deleteExpiredTokens` has no caller.
* `findMany` called with an empty page takes ten rows: the timeline and the ledger
  history show at most ten audit entries and ten ledger records, and count no more, where
  the comments of both services and `docs/ARCHITECTURE.md:321` speak of full sets.
* A reader of these listings misses an entry when a younger ledger record is superseded
  between two of his pages.
* Moving a program leaves its allocations under the old department.

## 4. Fairness

The allocation modules and those over `Handlers` state safety only: a request may be
abandoned at any await, a tab closed, and no guarantee of the code says otherwise. (A refresh
is sent without a timeout, so not even the release of the queue is certain in time.) `Anchoring` adds `FairSpec`, weak fairness of

* a job's next query or ledger call (`Step(w)`): an await that can return does return, as
  Node.js runs every resolved promise and a call to the node has a timeout; what can
  stop a job for good, a dropped transaction, disables the step instead;
* `Tick`, `NextRecord` and `EndPass`: `setInterval` fires as long as the process lives;
* `Mine(w)`: a node that is up puts a transaction it still has into a block.

`RowAnchoring` has the same fairness with its own steps: `Step(w)` and `Mine(w)` of every
worker, `Tick`, `NextRow` and `EndPass`.

Nothing makes the node come back, so the liveness properties assume `NodeRecovers`
(`<>[](node = "up")`). Faults are bounded, so a crash or a failing query cannot recur for
ever; no fairness is assumed of requests, outages, orphans or of an exception thrown in
an outage.

## 5. Proofs

A theorem holds for every value of the constants that satisfies the named assumptions of
the modules (`DataAssumption`, `WorkflowAssumption`, ...). Except where said otherwise these
give the constants their types, keep `None` apart from data, and make finite what the
database stores in finite tables. TLC evaluates each of them on the instances.

`AllocationWorkflow_proofs` proves, for every number of workers, users, rows, requests,
amounts and failures, however requests interleave:

* `TypesAndGrounds`: `TypeOK /\ RequestsAreGrounded` is an invariant, and inductive.
  Neither conjunct is inductive alone: the row a request writes has its type only
  because the request still has a row (`Grounded`), and that it has one depends on
  the types. `TypeCorrect` and `GroundedRequests` project it. `Grounded` claims what other
  requests cannot take back: rows, creators and roles; a status read earlier is not in it.
* `StableIdentity`: the action property `IdentityIsStable`, from that invariant.
* `SeparationOfDuties`: `IndependentReview`. The reviewer is authorised two queries
  before the write; what makes the write sound all the same is `Grounded` - creator
  and role never change, so an authorisation once given stays true.
* `JustifiedDecisions`: `DecisionsAreJustified`, if `transitionStatus` is asked for
  `Archived` only (asked for `Approved`, it stores a status without a reviewer: an
  honest precondition, as no route calls it). It rests on `ApprovesOnlySubmitted`,
  the fact that what passed the transition map has been submitted and that a
  submission is never forgotten.
* `NoDuplicateCreated`: `CreatesMakeNoDuplicate`. No other write makes a row exist, and the
  insert repeats the search for duplicates in its transaction; the first search, some
  awaits earlier, contributes nothing.

and, with one worker,

* `ChecksHoldAlone`: `Supported` is an invariant, faults included: at each step of each
  operation what the request has read is what the tables hold, and what it has checked
  (roles, references, ceiling, duplicates, transition map) is true of them. With a second
  worker this is what the races break.
* `AloneWithinBudget`: `GrowsWithinBudget`, from it, faults included, if there are finitely
  many allocations. It is the property `workflow_overcommit` refutes for two workers, so the
  overlap of requests is what exceeds the ceiling, and nothing else in the service. The
  lemmas on sums are those of `AllocationLifecycle_proofs`, instantiated (`Totals`).
* `SerialServiceIsLifecycle`: `Spec => ImplementsLifecycle`, if moreover nothing fails. The
  write of a request is a step of `AllocationLifecycle`, its guard supplied by
  `Supported`, and all other steps stutter. An approval writes row, history and ledger
  record in three steps; from the first on the mapping counts what the request still owes
  as done (`HistoryDue`, `RecordDue`), and the later writes turn debt into rows. There is one
  lemma `...IsSerial` per action.

`AllocationLifecycle_proofs` proves, from `LifecycleAssumption` (the set of allocations is
finite, as a sum over an infinite one has no value, and `None` is no row), for every number of users, years, amounts
and allocations:

* `LifecycleTyped`, and from it and a description of what a step does to the one row it
  writes (`RowStep`), `FiledTogether` and `DuplicatesNeedReturn`, the two properties of rows.
* `AccountsKept`, and its projections `HistoryTellsStatus` and `ApprovedStaysRecorded`, if
  `transitionStatus` is asked for `Archived` only; asked for another target it changes the
  status without history or record. Neither is inductive without `NoHistoryWithoutRow`: a
  create must find no decisions of an earlier row.
* `GrowthWithinBudget`. The approved total is `MapThenSumSet`, a fold. The first part of the
  module shows that its recursion has a solution over a finite set, then that a sum grows by
  the amount of a row that joins and does not change with rows outside of it. These are
  inductions over cardinalities; as the induction theorem takes an operator, which the
  provers cannot instantiate, each is put as a least counterexample (`LeastNatural`).
  A total that grows has a row that joined it (`CommittedGrowth`), which is an approval, and
  that compared this very sum with the budget.

`Documents_proofs` proves, for every number of documents, files and handlers and every fault,
`DocumentsInvariant` and from it `DocumentsTyped`, `VersionsChained`, `BytesKept`, `NoOrphans`,
`LimitExceededBounded`, `CodeFree` and `EvidenceKept` (the refinement of `EvidenceChain`). What
makes it inductive is `Calls`: `CallShape` says what has become of the handler's document,
`CallBytes` whether its bytes are stored and whether a version refers to them (at `cleanup` none
does, or its commit was not answered), `Apart` that no two handlers share a key or a document
still to be created. So nobody removes or counts what another one relies on. `VersionLimit`
is inductive because it counts the replacements in flight beside the versions: an insertion
only moves one from here to there. For `NextCodeIsFree` codes are bounded (`CodesBelow`), so
that the maximum the next code is computed from exists.

`Clients_proofs` proves

* `SessionsInvariant`, from it `QueuesServed` and `SessionsLast`: `InStep` restates
  `QueueIsServed` by elements instead of cardinalities - there is one refresh of a tab exactly
  while `isRefreshing` is set. `Lasting` is what a steady session depends on: no logout on its
  way, at most one refresh, it carries the stored token, and whichever step it is at that
  token is live or its successor is. `Homed`: a call that may still be sent again has a tab.
* `ListingsInvariant`, from it `PagesCover`: let an entry be `Due` if nothing excuses the
  reader from seeing it. `Standing` says that, until it is seen, at least as many entries lie
  above it as the pages passed have shown, and that no answer held has more above it than
  its query would give now, so an entry never moves to a page already passed. That the
  merged union keeps what holds of each source takes an injection between unions of finite
  sets (`FewerMerged`).
* `ClientsTyped`: the types of both, under the composed specification of `MCRequests`.

`Anchoring_proofs` proves, for every number of allocations, contents, jobs and faults, from
`AnchoringAssumption` and `NoneAssumption` (types of the bounds, the scheduler is not a
request, `None` is no record):

* `AnchoringInvariant`: `Inv`, inductive, the conjunction of `TypeOK`, `JobsAreGrounded` and
  "Confirmed records are on the ledger". They need each other: a record becomes Confirmed
  from what a job holds, a job in update mode relies on its record, and the scheduler's
  job finds a record because every allocation of the pass has a current one, which no
  step of another job takes away (`Monotone`). `Keeps(w)` is what a step of job w gives
  for this, with one lemma per action. `AnchoringTypes` and `GroundedAnchors` project it.
* `LedgerImplemented`: `Spec => ImplementsLedger`. Under the invariant `Mine` and
  `MineOrphan` are `Record` or a stutter, `CreateCurrent` and `UpdateRecord` are `Confirm`
  or a stutter, and every other step stutters.
* `CurrentRecordUnique`: `OneCurrentRecord`, from the fact that only two actions write
  records and each leaves one current record per allocation.

`RowAnchoring_proofs` proves, from `RowAnchoringAssumption` and `NoneAssumption`,
`RowInvariant`, `RowTypes` and `ConfirmedRows` (`ConfirmedOnLedger`). The latter is inductive
only with what a call relies on: a transaction known to be mined put its hash on the
ledger, the ledger only grows, rows are never taken away. As every action moves at most one
worker, `MoveKeeps` is the invariance proof once, and each action supplies its own step.

`Users_proofs` proves `UsersInvariant`, `UsersTyped` and `AdministratorRemains`. A handler about
to remove an administrator counted two some awaits ago; `CallSound` says that, unless a row
has changed since, there still is another one, and any write makes the other handlers'
reads outdated. So a write that leaves none was made on outdated reads, which is `raced`.

`FiscalYears_proofs` proves `YearsInvariant`, `YearsTyped`, `ActiveYearUnique` and
`PeriodsApart` by the same argument: `CallSound` says what an overlap check or a deactivation
is worth as long as `fresh` and `sole` hold, and every write takes them from the others.

Only model-checked: the liveness properties `EventuallyConfirmed`, `JobsEnd`, `VersionsSettle`,
`EntriesSettle` and `CallsEnd`, as fairness and `ENABLED` are beyond the prover. The six runs
that expect a violation are counterexamples, which need none. Nothing is proved about what
a recursive definition computes for every input, except for the sums above.

What the theorems leave open is what section 3 says of the code: with two workers the ceiling
and the transition map are not kept, and with faults the history may lack the entry of a decision.

## 6. Plan and what is not modelled

Modelling is complete in the sense of the plan, and every safety property and refinement
the runs check has its theorem. What remains:

1. What a failing request leaves behind: the refinement of the life cycle with one worker
   and faults, up to the history entries and ledger records that are still owed.
2. Shorter proofs: the lemmas on `Cardinality` and on records in function updates recur in
   `Documents_proofs`, `Clients_proofs` and `FiscalYears_proofs`.

Not modelled, and why:

* Frontend pages, hooks and forms (more than half of the repository's lines): rendering and
  form state of one user, whose rules the server enforces again. TanStack Query is a library;
  its caches hold what the listings answered.
  `UserList.tsx` is the one list that fetches without it, and neither cancels nor orders its
  requests: a filter changed on a later page sends two, and the list shown is that of the
  answer applied last. It is display state that the next request replaces.
* Dashboards, statistics and reports: single aggregate queries that change nothing.
* Uniqueness of codes, names and e-mail addresses: constraints of the database, and a
  request they refuse changes nothing. Deletion of master data is a foreign key.
* Token, password and hash formats, rate limits, upload parsing, error formatting: per-request
  code that keeps no state requests share.
* Verification and download of documents: they read, and add an activity row that no
  other operation looks at.
* The S3 driver, which the source has as a stub, the shared package, which is empty, and
  the seed script, which runs before the server.
