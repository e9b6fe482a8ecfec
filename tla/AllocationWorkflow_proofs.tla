----------------------- MODULE AllocationWorkflow_proofs -----------------------
(***************************************************************************)
(* What holds of allocationService for any number of users, requests,      *)
(* allocations and amounts, however the requests interleave and fail.      *)
(*                                                                         *)
(* TypeOK /\ RequestsAreGrounded is inductive.  StepKeeps(w) is what a     *)
(* step of worker w must establish for that: there is one lemma per action *)
(* below, and the theorems after them combine these.                       *)
(*                                                                         *)
(* The last part is the refinement: requests that do not overlap and do    *)
(* not fail implement AllocationLifecycle.  Its invariant is Supported:    *)
(* what a request has read and checked still holds of the tables.          *)
(***************************************************************************)
EXTENDS AllocationRefinement, TLAPS

-----------------------------------------------------------------------------
(* What the writes store are rows. *)

LEMMA NewDraftIsRow ==
  ASSUME NEW y \in FiscalYears, NEW refs \in References, NEW amount \in Amounts,
         NEW user \in Users
  PROVE  /\ NewDraft(y, refs, amount, user) \in Row
         /\ NewDraft(y, refs, amount, user).status = "Draft"
         /\ NewDraft(y, refs, amount, user).reviewedBy = None
  BY DEF NewDraft, Row, Statuses

\* An UPDATE of the approval workflow keeps the identity of the row.
LEMMA TransitionedIsRow ==
  ASSUME NEW row \in Row, NEW op, NEW target \in Statuses, NEW user \in Users,
         NEW new, new = Transitioned(row, op, target, user)
  PROVE  /\ new \in Row
         /\ new.status = target
         /\ new.createdBy = row.createdBy
         /\ new.fiscalYear = row.fiscalYear
         /\ new.code = row.code
         /\ row.deleted => new.deleted
         /\ op = "submit" \/ row.submitted => new.submitted
         /\ new.reviewedBy = IF op \in {"approve", "reject"} THEN user ELSE row.reviewedBy
         /\ op = "reject" => new.rejectionReason
  BY DEF Transitioned, Row

\* So does an edit, which moreover leaves the workflow's columns alone.
LEMMA EditedIsRow ==
  ASSUME NEW row \in Row, NEW changed, NEW refs \in References,
         NEW amount \in Amounts \cup {0},
         NEW new, new = Edited(row, changed, refs, amount)
  PROVE  /\ new \in Row
         /\ new.createdBy = row.createdBy
         /\ new.fiscalYear = row.fiscalYear
         /\ new.code = row.code
         /\ new.deleted = row.deleted
         /\ new.submitted = row.submitted
         /\ new.status = row.status
         /\ new.reviewedBy = row.reviewedBy
         /\ new.rejectionReason = row.rejectionReason
  BY DEF Edited, Row, References

LEMMA DeletedIsRow ==
  ASSUME NEW row \in Row
  PROVE  [row EXCEPT !.deleted = TRUE] \in Row
  BY DEF Row

LEMMA CodedIsRow ==
  ASSUME NEW row \in Row, NEW n \in Nat
  PROVE  [row EXCEPT !.code = n] \in Row
  BY DEF Row

-----------------------------------------------------------------------------
(* What every step keeps. *)

StepKeeps(w) ==
  /\ TypeOK'
  /\ IdentityStep
  /\ (req[w] # None => Grounded(req[w]))'
  /\ \A v \in Workers \ {w} : req'[v] = req[v]

LEMMA FreshIsRequest ==
  ASSUME NEW op \in {"create", "update", "delete", "transition"} \cup ReviewOperations,
         NEW step \in Steps, NEW user \in Users
  PROVE  Fresh(op, step, user) \in Request
  BY DEF Fresh, Request

\* A step that reads and leaves the worker with a grounded request, or with none.
LEMMA ReadKeeps ==
  ASSUME TypeOK, UNCHANGED tables, requests' \in Nat,
         NEW w \in Workers, NEW x \in Request \cup {None},
         x # None => Grounded(x), req' = [req EXCEPT ![w] = x]
  PROVE  StepKeeps(w)
  <1>1. TypeOK' /\ IdentityStep
    BY DEF TypeOK, tables, IdentityStep, Exists
  <1>2. req'[w] = x /\ \A v \in Workers \ {w} : req'[v] = req[v]
    BY DEF TypeOK
  <1>3. (req[w] # None => Grounded(req[w]))'
    BY <1>2 DEF Grounded, tables, Exists, MayReview
  <1> QED BY <1>1, <1>2, <1>3 DEF StepKeeps

LEMMA EndKeeps ==
  ASSUME TypeOK, UNCHANGED tables, NEW w \in Workers, End(w)
  PROVE  StepKeeps(w)
  BY ReadKeeps DEF End, Continue, TypeOK

LEMMA BeginKeeps ==
  ASSUME TypeOK, UNCHANGED tables, NEW w \in Workers, NEW op, NEW x \in Request,
         Grounded(x), Begin(w, op, x)
  PROVE  StepKeeps(w)
  <1>1. requests' \in Nat /\ req' = [req EXCEPT ![w] = x]
    BY DEF Begin, TypeOK
  <1> QED BY <1>1, ReadKeeps

LEMMA CurrentIsGrounded ==
  ASSUME TypeOK, RequestsAreGrounded, NEW w \in Workers, req[w] # None
  PROVE  req[w] \in Request /\ Grounded(req[w])
  BY DEF TypeOK, RequestsAreGrounded

\* Going on to the next query with the same request.
LEMMA ProceedKeeps ==
  ASSUME TypeOK, RequestsAreGrounded, UNCHANGED tables, NEW w \in Workers, req[w] # None,
         NEW step \in Steps, req[w].row # None,
         req[w].op = "create" => step \in {"ceiling", "duplicate", "insert"},
         Proceed(w, step)
  PROVE  StepKeeps(w)
  <1> DEFINE x == [req[w] EXCEPT !.step = step]
  <1>1. req[w] \in Request /\ Grounded(req[w])
    BY CurrentIsGrounded
  <1>2. x \in Request
    BY <1>1 DEF Request
  <1>3. Grounded(x)
    BY <1>1 DEF Grounded, Request
  <1>4. requests' \in Nat /\ req' = [req EXCEPT ![w] = x]
    BY DEF Proceed, Continue, TypeOK
  <1>5. x # None => Grounded(x)
    BY <1>3
  <1> HIDE DEF x
  <1> QED BY <1>2, <1>4, <1>5, ReadKeeps

\* A step that writes: the tables stay well typed and the rows keep their identity.
LEMMA WriteKeeps ==
  ASSUME TypeOK, NEW w \in Workers, IdentityStep,
         alloc' \in [Allocations -> Row \cup {None}],
         history' \in [Allocations -> Seq(HistoryEntry)],
         recorded' \in [Allocations -> Row \cup {None}],
         UNCHANGED <<year, master, requests>>,
         NEW x \in Request \cup {None}, (x # None => Grounded(x))',
         req' = [req EXCEPT ![w] = x]
  PROVE  StepKeeps(w)
  <1>1. TypeOK'
    BY DEF TypeOK
  <1>2. req'[w] = x /\ \A v \in Workers \ {w} : req'[v] = req[v]
    BY DEF TypeOK
  <1>3. (req[w] # None => Grounded(req[w]))'
    BY <1>2
  <1> QED BY <1>1, <1>2, <1>3 DEF StepKeeps

-----------------------------------------------------------------------------
(* Validation of the ceiling. *)

LEMMA CeilingYearKeeps ==
  ASSUME TypeOK, RequestsAreGrounded, NEW w \in Workers, CeilingYear(w)
  PROVE  StepKeeps(w)
  <1> DEFINE r == req[w]
             y == r.row.fiscalYear
             x == [r EXCEPT !.step = "ceiling", !.budget = year[y].budget]
  <1>1. /\ r # None /\ r.op \in {"approve", "transition"} /\ r.step = "fiscalYear"
        /\ r \in Request /\ Grounded(r) /\ UNCHANGED tables
    BY CurrentIsGrounded DEF CeilingYear, At
  <1>2. CASE year[y].archived
    BY <1>2, EndKeeps DEF CeilingYear
  <1>3. CASE ~year[y].archived
    <2>1. r.row \in Row /\ y \in FiscalYears
      BY <1>1 DEF Grounded, Request, Row
    <2>2. year[y].budget \in Budgets
      BY <2>1 DEF TypeOK, FiscalYearRow
    <2>3. x \in Request
      BY <1>1, <2>2 DEF Request, Steps
    <2>4. Grounded(x)
      BY <1>1 DEF Grounded, Request
    <2>5. requests' \in Nat /\ req' = [req EXCEPT ![w] = x]
      BY <1>3 DEF CeilingYear, Continue, TypeOK
    <2> HIDE DEF x
    <2> QED BY <1>1, <2>3, <2>4, <2>5, ReadKeeps
  <1> QED BY <1>2, <1>3

LEMMA CeilingSumKeeps ==
  ASSUME TypeOK, RequestsAreGrounded, NEW w \in Workers, CeilingSum(w)
  PROVE  StepKeeps(w)
  <1> DEFINE r == req[w]
             next == IF r.op = "create" THEN "duplicate" ELSE "transition"
  <1>1. /\ r # None /\ r.op \in {"create", "approve", "transition"} /\ r.step = "ceiling"
        /\ r \in Request /\ Grounded(r) /\ UNCHANGED tables
    BY CurrentIsGrounded DEF CeilingSum, At
  <1>2. CASE End(w)
    BY <1>1, <1>2, EndKeeps
  <1>3. CASE Proceed(w, next)
    <2>1. /\ r.row # None
          /\ r.op = "create" => next \in {"ceiling", "duplicate", "insert"}
          /\ next \in Steps
      BY <1>1 DEF Grounded, Steps
    <2> HIDE DEF next
    <2> QED BY <1>1, <1>3, <2>1, ProceedKeeps
  <1> QED BY <1>2, <1>3 DEF CeilingSum

-----------------------------------------------------------------------------
(* createAllocation. *)

LEMMA CreateValidateKeeps ==
  ASSUME TypeOK, NEW w \in Workers, CreateValidate(w)
  PROVE  StepKeeps(w)
  <1>1. PICK user \in Users, y \in FiscalYears, refs \in References, amount \in Amounts :
          /\ Begin(w, "create",
                   [Fresh("create", "ceiling", user)
                      EXCEPT !.row = NewDraft(y, refs, amount, user),
                             !.budget = year[y].budget])
          /\ UNCHANGED tables
    BY DEF CreateValidate
  <1> DEFINE x == [Fresh("create", "ceiling", user)
                     EXCEPT !.row = NewDraft(y, refs, amount, user),
                            !.budget = year[y].budget]
  <1>2. /\ Fresh("create", "ceiling", user) \in Request
        /\ year[y].budget \in Budgets
        /\ NewDraft(y, refs, amount, user) \in Row
    BY FreshIsRequest, NewDraftIsRow DEF Steps, TypeOK, FiscalYearRow
  <1>3. x \in Request
    BY <1>2 DEF Request
  <1>4. Grounded(x)
    BY NewDraftIsRow, WorkflowAssumption DEF Grounded, Fresh, ReviewOperations, HistoryAction
  <1> HIDE DEF x
  <1> QED BY <1>1, <1>3, <1>4, BeginKeeps DEF x

LEMMA CreateCheckDuplicateKeeps ==
  ASSUME TypeOK, RequestsAreGrounded, NEW w \in Workers, CreateCheckDuplicate(w)
  PROVE  StepKeeps(w)
  <1> DEFINE r == req[w]
  <1>1. /\ r # None /\ r.op = "create" /\ r \in Request /\ Grounded(r)
        /\ UNCHANGED tables /\ (End(w) \/ Proceed(w, "insert"))
    BY CurrentIsGrounded DEF CreateCheckDuplicate, At
  <1>2. r.row # None
    BY <1>1 DEF Grounded
  <1> QED BY <1>1, <1>2, EndKeeps, ProceedKeeps DEF Steps

LEMMA CreateInsertKeeps ==
  ASSUME TypeOK, RequestsAreGrounded, NEW w \in Workers, CreateInsert(w)
  PROVE  StepKeeps(w)
  <1> DEFINE r == req[w]
  <1>1. /\ r # None /\ r.op = "create" /\ r \in Request /\ Grounded(r)
        /\ End(w) /\ UNCHANGED <<history, recorded, year, master>>
    BY CurrentIsGrounded DEF CreateInsert, At
  <1>2. r.row \in Row
    BY <1>1 DEF Grounded, Request
  <1>3. CASE UNCHANGED alloc
    BY <1>1, <1>3, EndKeeps DEF tables
  <1>4. ASSUME NEW n \in 0..Cardinality(Allocations), NEW a \in Allocations, ~Exists(alloc, a),
               alloc' = [alloc EXCEPT ![a] = [r.row EXCEPT !.code = n + 1]]
        PROVE  StepKeeps(w)
    <2>1. [r.row EXCEPT !.code = n + 1] \in Row
      BY <1>2 DEF Row
    <2>2. alloc' \in [Allocations -> Row \cup {None}] /\ IdentityStep
      BY <1>4, <2>1 DEF TypeOK, IdentityStep, Exists
    <2>3. req' = [req EXCEPT ![w] = None] /\ UNCHANGED requests
      BY <1>1 DEF End, Continue
    <2> QED BY <1>1, <2>2, <2>3, WriteKeeps DEF TypeOK
  <1> QED BY <1>3, <1>4 DEF CreateInsert

-----------------------------------------------------------------------------
(* updateAllocation and deleteAllocation. *)

LEMMA LiveIsRow ==
  ASSUME TypeOK, NEW a \in Allocations, Live(alloc, a)
  PROVE  alloc[a] \in Row /\ alloc[a] # None /\ a # None
  BY DataAssumption DEF TypeOK, Live, Exists

LEMMA UpdateLoadKeeps ==
  ASSUME TypeOK, NEW w \in Workers, UpdateLoad(w)
  PROVE  StepKeeps(w)
  <1>1. PICK user \in Users, a \in Allocations, amount \in Amounts \cup {0}, refs \in References :
          LET changed == ChangedReferences(alloc[a].refs, refs) IN
          /\ Live(alloc, a) /\ UNCHANGED tables
          /\ Begin(w, "update",
                   [Fresh("update", IF changed = {} THEN "edit" ELSE "references", user)
                      EXCEPT !.id = a, !.row = alloc[a], !.refs = refs,
                             !.changed = changed, !.amount = amount])
    BY DEF UpdateLoad
  <1> DEFINE changed == ChangedReferences(alloc[a].refs, refs)
             fresh   == Fresh("update", IF changed = {} THEN "edit" ELSE "references", user)
             x       == [fresh EXCEPT !.id = a, !.row = alloc[a], !.refs = refs,
                                      !.changed = changed, !.amount = amount]
  <1>2. alloc[a] \in Row /\ alloc[a] # None /\ a # None
    BY <1>1, LiveIsRow
  <1>3. changed \in SUBSET {"department", "program", "fundSource", "category"}
    BY DEF ChangedReferences, References
  <1>4. fresh \in Request
    BY FreshIsRequest DEF Steps
  <1>5. refs # None
    BY WorkflowAssumption
  <1>6. fresh.op = "update"
    BY DEF Fresh
  <1> HIDE DEF fresh, changed
  <1>7. x \in Request /\ x.op = "update" /\ x.id = a /\ x.row = alloc[a] /\ x.refs = refs
    BY <1>2, <1>3, <1>4, <1>6 DEF Request
  <1> HIDE DEF x
  <1>8. Grounded(x)
    BY <1>1, <1>2, <1>5, <1>7 DEF Grounded, Live, ReviewOperations, HistoryAction
  <1> QED BY <1>1, <1>7, <1>8, BeginKeeps DEF x, fresh, changed

LEMMA UpdateValidateKeeps ==
  ASSUME TypeOK, RequestsAreGrounded, NEW w \in Workers, UpdateValidate(w)
  PROVE  StepKeeps(w)
  <1> DEFINE r == req[w]
  <1>1. /\ r # None /\ r.op = "update" /\ r.step = "references" /\ r \in Request /\ Grounded(r)
        /\ UNCHANGED tables /\ (End(w) \/ Proceed(w, "duplicate"))
    BY CurrentIsGrounded DEF UpdateValidate, At
  <1>2. r.row # None
    BY <1>1 DEF Grounded
  <1> QED BY <1>1, <1>2, EndKeeps, ProceedKeeps DEF Steps

LEMMA UpdateCheckDuplicateKeeps ==
  ASSUME TypeOK, RequestsAreGrounded, NEW w \in Workers, UpdateCheckDuplicate(w)
  PROVE  StepKeeps(w)
  <1> DEFINE r == req[w]
  <1>1. /\ r # None /\ r.op = "update" /\ r.step = "duplicate" /\ r \in Request /\ Grounded(r)
        /\ UNCHANGED tables /\ (End(w) \/ Proceed(w, "edit"))
    BY CurrentIsGrounded DEF UpdateCheckDuplicate, At
  <1>2. r.row # None
    BY <1>1 DEF Grounded
  <1> QED BY <1>1, <1>2, EndKeeps, ProceedKeeps DEF Steps

\* A write of one existing row that ends the request or goes on with x.
LEMMA RowWriteKeeps ==
  ASSUME TypeOK, NEW w \in Workers, NEW a \in Allocations, NEW row \in Row,
         Exists(alloc, a) =>
           /\ row.createdBy = alloc[a].createdBy /\ row.fiscalYear = alloc[a].fiscalYear
           /\ row.code = alloc[a].code
           /\ alloc[a].submitted => row.submitted
           /\ alloc[a].deleted => row.deleted,
         alloc' = [alloc EXCEPT ![a] = row],
         UNCHANGED <<history, recorded, year, master, requests>>,
         NEW x \in Request \cup {None}, (x # None => Grounded(x))',
         req' = [req EXCEPT ![w] = x]
  PROVE  StepKeeps(w)
  <1>1. alloc' \in [Allocations -> Row \cup {None}]
    BY DEF TypeOK
  <1>2. IdentityStep
    BY WorkflowAssumption DEF TypeOK, IdentityStep, Exists
  <1>3. /\ history' \in [Allocations -> Seq(HistoryEntry)]
        /\ recorded' \in [Allocations -> Row \cup {None}]
    BY DEF TypeOK
  <1> QED BY <1>1, <1>2, <1>3, WriteKeeps

LEMMA UpdateWriteKeeps ==
  ASSUME TypeOK, RequestsAreGrounded, NEW w \in Workers, UpdateWrite(w)
  PROVE  StepKeeps(w)
  <1> DEFINE r   == req[w]
             new == Edited(alloc[r.id], r.changed, r.refs, r.amount)
  <1>1. /\ r # None /\ r.op = "update" /\ r \in Request /\ Grounded(r)
        /\ End(w) /\ UNCHANGED <<history, recorded, year, master>>
        /\ alloc' = [alloc EXCEPT ![r.id] = new]
    BY CurrentIsGrounded DEF UpdateWrite, At
  <1>2. /\ r.id \in Allocations /\ alloc[r.id] \in Row
        /\ r.refs \in References /\ r.amount \in Amounts \cup {0}
    BY <1>1 DEF Grounded, Request, TypeOK, Exists
  <1>4. /\ new \in Row /\ new.createdBy = alloc[r.id].createdBy
        /\ new.fiscalYear = alloc[r.id].fiscalYear /\ new.code = alloc[r.id].code
        /\ new.submitted = alloc[r.id].submitted /\ new.deleted = alloc[r.id].deleted
    BY <1>2, EditedIsRow
  <1>5. req' = [req EXCEPT ![w] = None] /\ UNCHANGED requests
    BY <1>1 DEF End, Continue
  <1> HIDE DEF new
  <1> QED BY <1>1, <1>2, <1>4, <1>5, RowWriteKeeps

LEMMA DeleteLoadKeeps ==
  ASSUME TypeOK, NEW w \in Workers, DeleteLoad(w)
  PROVE  StepKeeps(w)
  <1>1. PICK user \in Users, a \in Allocations :
          /\ Live(alloc, a) /\ UNCHANGED tables
          /\ Begin(w, "delete",
                   [Fresh("delete", "remove", user) EXCEPT !.id = a, !.row = alloc[a]])
    BY DEF DeleteLoad
  <1> DEFINE x == [Fresh("delete", "remove", user) EXCEPT !.id = a, !.row = alloc[a]]
  <1>2. alloc[a] \in Row /\ alloc[a] # None /\ a # None
    BY <1>1, LiveIsRow
  <1>3. Fresh("delete", "remove", user) \in Request
    BY FreshIsRequest DEF Steps
  <1>4. x \in Request
    BY <1>2, <1>3 DEF Request
  <1>5. Grounded(x)
    BY <1>1, <1>2 DEF Grounded, Fresh, Live, ReviewOperations, HistoryAction
  <1> HIDE DEF x
  <1> QED BY <1>1, <1>4, <1>5, BeginKeeps DEF x

LEMMA DeleteWriteKeeps ==
  ASSUME TypeOK, RequestsAreGrounded, NEW w \in Workers, DeleteWrite(w)
  PROVE  StepKeeps(w)
  <1> DEFINE r   == req[w]
             new == [alloc[r.id] EXCEPT !.deleted = TRUE]
  <1>1. /\ r # None /\ r.op = "delete" /\ r \in Request /\ Grounded(r)
        /\ End(w) /\ UNCHANGED <<history, recorded, year, master>>
        /\ alloc' = [alloc EXCEPT ![r.id] = new]
    BY CurrentIsGrounded DEF DeleteWrite, At
  <1>2. r.id \in Allocations /\ alloc[r.id] \in Row
    BY <1>1 DEF Grounded, Request, TypeOK, Exists
  <1>3. /\ new \in Row /\ new.createdBy = alloc[r.id].createdBy
        /\ new.fiscalYear = alloc[r.id].fiscalYear /\ new.code = alloc[r.id].code
        /\ new.submitted = alloc[r.id].submitted /\ new.deleted
    BY <1>2 DEF Row
  <1>4. req' = [req EXCEPT ![w] = None] /\ UNCHANGED requests
    BY <1>1 DEF End, Continue
  <1> HIDE DEF new
  <1> QED BY <1>1, <1>2, <1>3, <1>4, RowWriteKeeps

-----------------------------------------------------------------------------
(* The approval workflow. *)

LEMMA TargetsAreStatuses ==
  ASSUME NEW op \in ReviewOperations
  PROVE  TargetStatus[op] \in Statuses
  BY DEF ReviewOperations, HistoryAction, TargetStatus, Statuses

LEMMA ReviewAuthoriseKeeps ==
  ASSUME TypeOK, NEW w \in Workers, ReviewAuthorise(w)
  PROVE  StepKeeps(w)
  <1>1. PICK user \in Users, a \in Allocations, op \in ReviewOperations \ {"submit"} :
          /\ Live(alloc, a) /\ MayDecide(op, alloc[a], user) /\ UNCHANGED tables
          /\ Begin(w, op, [Fresh(op, "load", user) EXCEPT !.id = a, !.target = TargetStatus[op]])
    BY DEF ReviewAuthorise
  <1> DEFINE x == [Fresh(op, "load", user) EXCEPT !.id = a, !.target = TargetStatus[op]]
  <1>2. alloc[a] \in Row /\ alloc[a] # None /\ a # None
    BY <1>1, LiveIsRow
  <1>3. Fresh(op, "load", user) \in Request /\ op \in {"approve", "reject", "return"}
    BY FreshIsRequest DEF Steps, ReviewOperations, HistoryAction
  <1>4. x \in Request
    BY <1>2, <1>3, TargetsAreStatuses DEF Request
  <1>5. x.op = op /\ x.step = "load" /\ x.id = a /\ x.target = TargetStatus[op] /\ x.actor = user
    BY DEF Fresh
  <1>6. op \in {"approve", "reject"} => MayReview(alloc[a], user)
    BY <1>1, <1>3 DEF MayDecide
  <1>7. op = "return" => Role[user] \in ApprovalRoles \/ alloc[a].createdBy = user
    BY <1>1, <1>3 DEF MayDecide, MayReturn, MayReview
  <1> HIDE DEF x
  <1>8. Grounded(x)
    BY <1>1, <1>2, <1>3, <1>5, <1>6, <1>7 DEF Grounded, Live
  <1> QED BY <1>1, <1>4, <1>8, BeginKeeps DEF x

LEMMA SubmitLoadKeeps ==
  ASSUME TypeOK, NEW w \in Workers, SubmitLoad(w)
  PROVE  StepKeeps(w)
  <1>1. PICK user \in Users, a \in Allocations :
          /\ Live(alloc, a) /\ UNCHANGED tables
          /\ Begin(w, "submit",
                   [Fresh("submit", "transition", user)
                      EXCEPT !.id = a, !.row = alloc[a], !.target = "PendingApproval"])
    BY DEF SubmitLoad
  <1> DEFINE x == [Fresh("submit", "transition", user)
                     EXCEPT !.id = a, !.row = alloc[a], !.target = "PendingApproval"]
  <1>2. alloc[a] \in Row /\ alloc[a] # None /\ a # None
    BY <1>1, LiveIsRow
  <1>3. Fresh("submit", "transition", user) \in Request
    BY FreshIsRequest DEF Steps, ReviewOperations, HistoryAction
  <1>4. x \in Request
    BY <1>2, <1>3 DEF Request, Statuses
  <1>5. Grounded(x)
    BY <1>1, <1>2 DEF Grounded, Fresh, Live, ReviewOperations, HistoryAction, TargetStatus
  <1> HIDE DEF x
  <1> QED BY <1>1, <1>4, <1>5, BeginKeeps DEF x

LEMMA SeamLoadKeeps ==
  ASSUME TypeOK, NEW w \in Workers, SeamLoad(w)
  PROVE  StepKeeps(w)
  <1>1. PICK user \in Users, a \in Allocations, target \in SeamTargets :
          /\ Live(alloc, a) /\ UNCHANGED tables
          /\ Begin(w, "transition",
                   [Fresh("transition", AfterLoad(target), user)
                      EXCEPT !.id = a, !.row = alloc[a], !.target = target])
    BY DEF SeamLoad
  <1> DEFINE fresh == Fresh("transition", AfterLoad(target), user)
             x     == [fresh EXCEPT !.id = a, !.row = alloc[a], !.target = target]
  <1>2. alloc[a] \in Row /\ alloc[a] # None /\ a # None
    BY <1>1, LiveIsRow
  <1>3. fresh \in Request /\ fresh.op = "transition" /\ target \in Statuses
    BY FreshIsRequest, WorkflowAssumption DEF Steps, AfterLoad, Fresh
  <1> HIDE DEF fresh
  <1>4. /\ x \in Request /\ x.op = "transition" /\ x.id = a
        /\ x.row = alloc[a] /\ x.target = target
    BY <1>2, <1>3 DEF Request
  <1> HIDE DEF x
  <1>5. Grounded(x)
    BY <1>1, <1>2, <1>4 DEF Grounded, Live, ReviewOperations, HistoryAction
  <1> QED BY <1>1, <1>4, <1>5, BeginKeeps DEF x, fresh

LEMMA TransitionLoadKeeps ==
  ASSUME TypeOK, RequestsAreGrounded, NEW w \in Workers, TransitionLoad(w)
  PROVE  StepKeeps(w)
  <1> DEFINE r == req[w]
             x == [r EXCEPT !.row = alloc[r.id], !.step = AfterLoad(r.target)]
  <1>1. /\ r # None /\ r.op \in ReviewOperations /\ r \in Request /\ Grounded(r)
        /\ UNCHANGED tables
        /\ \/ End(w)
           \/ Live(alloc, r.id) /\ Continue(w, x)
    BY CurrentIsGrounded DEF TransitionLoad, At
  <1>2. ASSUME Live(alloc, r.id), Continue(w, x)
        PROVE  StepKeeps(w)
    <2>1. r.id \in Allocations
      BY <1>1 DEF Grounded, Request, ReviewOperations, HistoryAction
    <2>2. alloc[r.id] \in Row /\ alloc[r.id] # None
      BY <1>2, <2>1, LiveIsRow
    <2>3. x \in Request
      <3>1. AfterLoad(r.target) \in Steps
        BY DEF AfterLoad, Steps
      <3> QED BY <1>1, <2>2, <3>1 DEF Request
    <2>4. x.op = r.op /\ x.id = r.id /\ x.target = r.target /\ x.actor = r.actor /\ x.row = alloc[r.id]
      BY <1>1 DEF Request
    <2>5. requests' \in Nat /\ req' = [req EXCEPT ![w] = x]
      BY <1>2 DEF Continue, TypeOK
    <2> HIDE DEF x
    <2>6. Grounded(x)
      BY <1>1, <2>2, <2>4 DEF Grounded, ReviewOperations, HistoryAction
    <2> QED BY <1>1, <2>3, <2>5, <2>6, ReadKeeps
  <1> QED BY <1>1, <1>2, EndKeeps

LEMMA TransitionWriteKeeps ==
  ASSUME TypeOK, RequestsAreGrounded, NEW w \in Workers, TransitionWrite(w)
  PROVE  StepKeeps(w)
  <1> DEFINE r   == req[w]
             old == alloc[r.id]
             new == Transitioned(old, r.op, r.target, r.actor)
  <1>1. /\ r # None /\ r.op \in ReviewOperations \cup {"transition"}
        /\ r \in Request /\ Grounded(r)
        /\ UNCHANGED <<history, recorded, year, master, requests>>
        /\ alloc' = [alloc EXCEPT ![r.id] = new]
        /\ req' = [req EXCEPT ![w] = IF r.op = "transition" THEN None
                                     ELSE [r EXCEPT !.row = new, !.step = "history"]]
    BY CurrentIsGrounded DEF TransitionWrite, At, End, Continue
  <1>2. /\ r.id \in Allocations /\ old \in Row
        /\ r.actor \in Users /\ r.target \in Statuses
    <2>1. r.target \in Statuses
      BY <1>1, TargetsAreStatuses, WorkflowAssumption DEF Grounded
    <2> QED BY <1>1, <2>1 DEF Grounded, Request, TypeOK, Exists, ReviewOperations, HistoryAction
  <1>3. /\ new \in Row /\ new.createdBy = old.createdBy
        /\ new.fiscalYear = old.fiscalYear /\ new.code = old.code
        /\ old.submitted => new.submitted
        /\ old.deleted => new.deleted
    BY <1>2, TransitionedIsRow
  <1> HIDE DEF new
  <1>4. CASE r.op = "transition"
    <2>1. req' = [req EXCEPT ![w] = None]
      BY <1>1, <1>4
    <2> QED BY <1>1, <1>2, <1>3, <2>1, RowWriteKeeps
  <1>5. CASE r.op # "transition"
    <2>1. PICK x : x = [r EXCEPT !.row = new, !.step = "history"]
      OBVIOUS
    <2>2. /\ x \in Request /\ x.op = r.op /\ x.id = r.id /\ x.target = r.target
          /\ x.actor = r.actor /\ x.row = new
      BY <1>1, <1>3, <2>1 DEF Request, Steps
    <2>3. alloc'[r.id] = new /\ new # None /\ r.id # None
      BY <1>1, <1>2, <1>3, WorkflowAssumption, DataAssumption DEF TypeOK
    <2>4. Grounded(x)'
      BY <1>1, <1>3, <1>5, <2>2, <2>3
      DEF Grounded, Exists, MayReview, ReviewOperations, HistoryAction
    <2>5. req' = [req EXCEPT ![w] = x]
      BY <1>1, <1>5, <2>1
    <2> QED BY <1>1, <1>2, <1>3, <2>2, <2>4, <2>5, RowWriteKeeps
  <1> QED BY <1>4, <1>5

LEMMA HistoryWriteKeeps ==
  ASSUME TypeOK, RequestsAreGrounded, NEW w \in Workers, HistoryWrite(w)
  PROVE  StepKeeps(w)
  <1> DEFINE r     == req[w]
             entry == [action |-> HistoryAction[r.op], actor |-> r.actor]
  <1>1. /\ r # None /\ r.op \in ReviewOperations /\ r.step = "history"
        /\ r \in Request /\ Grounded(r)
        /\ UNCHANGED <<alloc, recorded, year, master, requests>>
        /\ history' = [history EXCEPT ![r.id] = Append(@, entry)]
        /\ req' = [req EXCEPT ![w] = IF r.target = "Approved"
                                     THEN [r EXCEPT !.step = "ledger"] ELSE None]
    BY CurrentIsGrounded DEF HistoryWrite, At, Proceed, End, Continue
  <1>2. r.id \in Allocations
    BY <1>1 DEF Grounded, Request, ReviewOperations, HistoryAction
  <1>3. entry \in HistoryEntry
    BY <1>1 DEF Request, HistoryEntry, HistoryAction, ReviewOperations
  <1>4. history' \in [Allocations -> Seq(HistoryEntry)]
    BY <1>1, <1>2, <1>3 DEF TypeOK
  <1>5. IdentityStep
    BY <1>1 DEF IdentityStep
  <1>6. PICK x : x = IF r.target = "Approved" THEN [r EXCEPT !.step = "ledger"] ELSE None
    OBVIOUS
  <1>7. x \in Request \cup {None}
    BY <1>1, <1>6 DEF Request, Steps
  <1>8. (x # None => Grounded(x))'
    <2>1. CASE x = None
      BY <2>1
    <2>2. CASE x = [r EXCEPT !.step = "ledger"]
      BY <1>1, <2>2 DEF Grounded, Request, Exists, MayReview, ReviewOperations, HistoryAction
    <2> QED BY <1>6, <2>1, <2>2
  <1>9. alloc' \in [Allocations -> Row \cup {None}] /\ recorded' \in [Allocations -> Row \cup {None}]
    BY <1>1 DEF TypeOK
  <1> QED BY <1>1, <1>4, <1>5, <1>6, <1>7, <1>8, <1>9, WriteKeeps

LEMMA LedgerRecordKeeps ==
  ASSUME TypeOK, RequestsAreGrounded, NEW w \in Workers, LedgerRecord(w)
  PROVE  StepKeeps(w)
  <1> DEFINE r == req[w]
  <1>1. /\ r # None /\ r.op = "approve" /\ r.step = "ledger" /\ r \in Request /\ Grounded(r)
        /\ UNCHANGED <<alloc, history, year, master, requests>>
        /\ recorded' = [recorded EXCEPT ![r.id] = r.row]
        /\ req' = [req EXCEPT ![w] = None]
    BY CurrentIsGrounded DEF LedgerRecord, At, End, Continue
  <1>2. r.row \in Row
    BY <1>1 DEF Grounded, Request
  <1>3. /\ alloc' \in [Allocations -> Row \cup {None}]
        /\ history' \in [Allocations -> Seq(HistoryEntry)]
        /\ recorded' \in [Allocations -> Row \cup {None}]
    BY <1>1, <1>2 DEF TypeOK
  <1>4. IdentityStep
    BY <1>1 DEF IdentityStep
  <1> QED BY <1>1, <1>3, <1>4, WriteKeeps

-----------------------------------------------------------------------------
(* The neighbours and the faults. *)

\* Another service writes a table of its own.
LEMMA NeighbourKeeps ==
  ASSUME TypeOK, NEW w \in Workers, NEW op, Neighbour(w, op),
         UNCHANGED <<alloc, history, recorded>>,
         year' \in [FiscalYears -> FiscalYearRow], master' \in MasterData
  PROVE  StepKeeps(w)
  BY DEF StepKeeps, TypeOK, IdentityStep, Neighbour

LEMMA FiscalYearWriteKeeps ==
  ASSUME TypeOK, NEW w \in Workers, FiscalYearWrite(w)
  PROVE  StepKeeps(w)
  <1>1. year' \in [FiscalYears -> FiscalYearRow] /\ master' \in MasterData
    BY DEF FiscalYearWrite, TypeOK
  <1> QED BY <1>1, NeighbourKeeps DEF FiscalYearWrite

LEMMA EntityWriteKeeps ==
  ASSUME TypeOK, NEW w \in Workers, EntityWrite(w)
  PROVE  StepKeeps(w)
  <1>1. year' \in [FiscalYears -> FiscalYearRow] /\ master' \in MasterData
    <2>1. PICK e \in Entities : master' = [master EXCEPT !.inactive = SymDiff(@, {e})]
      BY DEF EntityWrite
    <2>2. master' \in MasterData
      BY <2>1 DEF TypeOK, MasterData, SymDiff
    <2> QED BY <2>2 DEF EntityWrite, TypeOK
  <1> QED BY <1>1, NeighbourKeeps DEF EntityWrite

LEMMA ProgramWriteKeeps ==
  ASSUME TypeOK, NEW w \in Workers, ProgramWrite(w)
  PROVE  StepKeeps(w)
  <1>1. year' \in [FiscalYears -> FiscalYearRow] /\ master' \in MasterData
    <2>1. PICK p \in Programs, d \in Departments :
            master' = [master EXCEPT !.department[p] = d]
      BY DEF ProgramWrite
    <2>2. master' \in MasterData
      BY <2>1 DEF TypeOK, MasterData
    <2> QED BY <2>2 DEF ProgramWrite, TypeOK
  <1> QED BY <1>1, NeighbourKeeps DEF ProgramWrite

LEMMA FailKeeps ==
  ASSUME TypeOK, NEW w \in Workers, Fail(w)
  PROVE  StepKeeps(w)
  BY EndKeeps DEF Fail

-----------------------------------------------------------------------------
(* The theorems. *)

LEMMA EveryStepKeeps ==
  ASSUME TypeOK, RequestsAreGrounded, NEW w \in Workers, Step(w)
  PROVE  StepKeeps(w)
  BY CreateValidateKeeps, CreateCheckDuplicateKeeps, CreateInsertKeeps,
     UpdateLoadKeeps, UpdateValidateKeeps, UpdateCheckDuplicateKeeps, UpdateWriteKeeps,
     DeleteLoadKeeps, DeleteWriteKeeps,
     ReviewAuthoriseKeeps, SubmitLoadKeeps, TransitionLoadKeeps, SeamLoadKeeps,
     CeilingYearKeeps, CeilingSumKeeps,
     TransitionWriteKeeps, HistoryWriteKeeps, LedgerRecordKeeps,
     FiscalYearWriteKeeps, EntityWriteKeeps, ProgramWriteKeeps, FailKeeps
  DEF Step

\* The requests of the other workers stay grounded: a step only evolves rows.
LEMMA GroundedIsKept ==
  ASSUME TypeOK, RequestsAreGrounded, NEW w \in Workers, StepKeeps(w)
  PROVE  RequestsAreGrounded'
  <1> SUFFICES ASSUME NEW v \in Workers, req'[v] # None
               PROVE  Grounded(req[v])'
    BY DEF RequestsAreGrounded
  <1>1. CASE v = w
    BY <1>1 DEF StepKeeps
  <1>2. CASE v # w
    <2>1. PICK r : r = req[v]
      OBVIOUS
    <2>2. req'[v] = r /\ r # None
      BY <1>2, <2>1 DEF StepKeeps
    <2>3. r \in Request /\ Grounded(r)
      BY <2>1, <2>2, CurrentIsGrounded
    <2>4. Grounded(r)'
      BY <2>3 DEF Grounded, StepKeeps, IdentityStep, MayReview, Request, Exists, TypeOK
    <2> QED BY <2>2, <2>4
  <1> QED BY <1>1, <1>2

LEMMA InitIsTyped == Init => TypeOK /\ RequestsAreGrounded
  <1> SUFFICES ASSUME Init
               PROVE  TypeOK /\ RequestsAreGrounded
    OBVIOUS
  <1>1. year \in [FiscalYears -> FiscalYearRow]
    BY DEF Init, FiscalYearRow
  <1>2. history \in [Allocations -> Seq(HistoryEntry)]
    BY DEF Init
  <1>3. RequestsAreGrounded
    BY DEF Init, RequestsAreGrounded
  <1>4. master \in MasterData
    BY DataAssumption DEF Init, FirstMasterData, MasterData
  <1> QED BY <1>1, <1>2, <1>3, <1>4 DEF Init, TypeOK

\* Types are right in every state, and so is what each request relies on.
THEOREM TypesAndGrounds == Spec => [](TypeOK /\ RequestsAreGrounded)
  <1> DEFINE Inv == TypeOK /\ RequestsAreGrounded
  <1>1. Init => Inv
    BY InitIsTyped
  <1>2. Inv /\ [Next]_vars => Inv'
    <2> SUFFICES ASSUME Inv, [Next]_vars
                 PROVE  Inv'
      OBVIOUS
    <2>1. ASSUME NEW w \in Workers, Step(w)
          PROVE  Inv'
      BY <2>1, EveryStepKeeps, GroundedIsKept DEF StepKeeps
    <2>2. CASE UNCHANGED vars
      BY <2>2 DEF vars, TypeOK, RequestsAreGrounded, Grounded, Exists, MayReview
    <2> QED BY <2>1, <2>2 DEF Next
  <1> QED BY <1>1, <1>2, PTL DEF Spec

\* Every variable keeps its type, whatever the requests do.
THEOREM TypeCorrect == Spec => []TypeOK
  BY TypesAndGrounds, PTL

\* Whatever the others write meanwhile, a request keeps the row it works on and
\* the part of its authorisation that depends on who acts: an approver other
\* than the creator approves or rejects, an approver or the creator returns.
THEOREM GroundedRequests == Spec => []RequestsAreGrounded
  BY TypesAndGrounds, PTL

\* An allocation keeps its creator, fiscal year and code for ever, and that it
\* was submitted or deleted is never forgotten.
THEOREM StableIdentity == Spec => IdentityIsStable
  <1>1. TypeOK /\ RequestsAreGrounded /\ [Next]_vars => [IdentityStep]_vars
    BY EveryStepKeeps DEF Next, StepKeeps
  <1> QED BY <1>1, TypesAndGrounds, PTL DEF Spec, IdentityIsStable

-----------------------------------------------------------------------------
(* What one step does to the decision stored in a row. *)

\* How a step of w may change row a: not at all, by inserting a draft, by an
\* edit or a delete that leaves the decision alone, or by a transition.
RowChange(w, a) ==
  \/ alloc'[a] = alloc[a]
  \/ /\ alloc[a] = None
     /\ alloc'[a].status = "Draft" /\ alloc'[a].reviewedBy = None
     /\ history'[a] = history[a]
  \/ /\ alloc[a] # None
     /\ alloc'[a].status = alloc[a].status /\ alloc'[a].reviewedBy = alloc[a].reviewedBy
     /\ alloc'[a].rejectionReason = alloc[a].rejectionReason
  \/ /\ alloc[a] # None /\ a = req[w].id /\ TransitionWrite(w)
     /\ alloc'[a] = Transitioned(alloc[a], req[w].op, req[w].target, req[w].actor)

\* The writes are the only steps that touch rows or history.
LEMMA OnlyWritesWrite ==
  ASSUME NEW w \in Workers, Step(w)
  PROVE  \/ CreateInsert(w) \/ UpdateWrite(w) \/ DeleteWrite(w)
         \/ TransitionWrite(w) \/ HistoryWrite(w)
         \/ UNCHANGED <<alloc, history>>
  BY DEF Step, CreateValidate, CreateCheckDuplicate, UpdateLoad, UpdateValidate,
         UpdateCheckDuplicate, DeleteLoad, ReviewAuthorise, SubmitLoad, TransitionLoad,
         SeamLoad, CeilingYear, CeilingSum, LedgerRecord, FiscalYearWrite, EntityWrite,
         ProgramWrite, Fail, tables

LEMMA RowsChangeSo ==
  ASSUME TypeOK, RequestsAreGrounded, NEW w \in Workers, Step(w), NEW a \in Allocations
  PROVE  RowChange(w, a)
  <1> DEFINE r == req[w]
  <1>1. CASE CreateInsert(w)
    <2>1. /\ r \in Request /\ Grounded(r) /\ r.op = "create" /\ UNCHANGED history
      BY <1>1, CurrentIsGrounded DEF CreateInsert, At
    <2>2. r.row \in Row /\ r.row.status = "Draft" /\ r.row.reviewedBy = None
      BY <2>1 DEF Grounded, Request
    <2>3. ASSUME NEW n \in 0..Cardinality(Allocations), NEW b \in Allocations, ~Exists(alloc, b),
                 alloc' = [alloc EXCEPT ![b] = [r.row EXCEPT !.code = n + 1]]
          PROVE  RowChange(w, a)
      BY <2>1, <2>2, <2>3 DEF RowChange, Exists, TypeOK, Row
    <2>4. CASE UNCHANGED alloc
      BY <2>4 DEF RowChange
    <2> QED BY <1>1, <2>3, <2>4 DEF CreateInsert
  <1>2. CASE UpdateWrite(w)
    <2>1. /\ r \in Request /\ Grounded(r) /\ r.op = "update"
          /\ alloc' = [alloc EXCEPT ![r.id] = Edited(@, r.changed, r.refs, r.amount)]
      BY <1>2, CurrentIsGrounded DEF UpdateWrite, At
    <2>2. /\ r.id \in Allocations /\ alloc[r.id] \in Row /\ alloc[r.id] # None
          /\ r.refs \in References /\ r.amount \in Amounts \cup {0}
      BY <2>1 DEF Grounded, Request, TypeOK, Exists
    <2>3. PICK new : new = Edited(alloc[r.id], r.changed, r.refs, r.amount)
      OBVIOUS
    <2>4. /\ new.status = alloc[r.id].status /\ new.reviewedBy = alloc[r.id].reviewedBy
          /\ new.rejectionReason = alloc[r.id].rejectionReason
      BY <2>2, <2>3, EditedIsRow
    <2>5. alloc' = [alloc EXCEPT ![r.id] = new]
      BY <2>1, <2>3
    <2> QED BY <2>2, <2>4, <2>5 DEF RowChange, TypeOK
  <1>3. CASE DeleteWrite(w)
    <2>1. /\ r \in Request /\ Grounded(r) /\ r.op = "delete"
          /\ alloc' = [alloc EXCEPT ![r.id] = [@ EXCEPT !.deleted = TRUE]]
      BY <1>3, CurrentIsGrounded DEF DeleteWrite, At
    <2>2. r.id \in Allocations /\ alloc[r.id] \in Row /\ alloc[r.id] # None
      BY <2>1 DEF Grounded, Request, TypeOK, Exists
    <2> QED BY <2>1, <2>2 DEF RowChange, TypeOK, Row
  <1>4. CASE TransitionWrite(w)
    <2>1. /\ r \in Request /\ Grounded(r) /\ r.op \in ReviewOperations \cup {"transition"}
          /\ alloc' = [alloc EXCEPT ![r.id] = Transitioned(@, r.op, r.target, r.actor)]
      BY <1>4, CurrentIsGrounded DEF TransitionWrite, At
    <2>2. r.id \in Allocations /\ alloc[r.id] # None
      BY <2>1 DEF Grounded, Request, TypeOK, Exists, ReviewOperations, HistoryAction
    <2> QED BY <1>4, <2>1, <2>2 DEF RowChange, TypeOK
  <1>5. CASE UNCHANGED alloc
    BY <1>5 DEF RowChange
  <1> QED BY <1>1, <1>2, <1>3, <1>4, <1>5, OnlyWritesWrite DEF HistoryWrite

-----------------------------------------------------------------------------
(* Separation of duties. *)

\* A row that does not exist yet has no history: the inductive part.
HistoryNeedsRow ==
  \A a \in Allocations : ~Exists(alloc, a) => history[a] = <<>>

\* The entry that a step of w may append to the history of a.
HistoryChange(w, a) ==
  \/ history'[a] = history[a]
  \/ /\ Exists(alloc, a) /\ UNCHANGED alloc
     /\ \E op \in ReviewOperations, user \in Users :
          /\ history'[a] = Append(history[a], [action |-> HistoryAction[op], actor |-> user])
          /\ op \in {"approve", "reject"} => MayReview(alloc[a], user)

LEMMA HistoryChangesSo ==
  ASSUME TypeOK, RequestsAreGrounded, NEW w \in Workers, Step(w), NEW a \in Allocations
  PROVE  HistoryChange(w, a)
  <1> DEFINE r == req[w]
  <1>1. CASE HistoryWrite(w)
    <2>1. /\ r \in Request /\ Grounded(r) /\ r.op \in ReviewOperations
          /\ history' = [history EXCEPT ![r.id] =
                            Append(@, [action |-> HistoryAction[r.op], actor |-> r.actor])]
          /\ UNCHANGED alloc
      BY <1>1, CurrentIsGrounded DEF HistoryWrite, At
    <2>2. /\ Exists(alloc, r.id) /\ r.actor \in Users
          /\ r.op \in {"approve", "reject"} => MayReview(alloc[r.id], r.actor)
      BY <2>1 DEF Grounded, Request, ReviewOperations, HistoryAction
    <2>3. CASE a = r.id
      BY <2>1, <2>2, <2>3 DEF HistoryChange, TypeOK
    <2>4. CASE a # r.id
      BY <2>1, <2>4 DEF HistoryChange, TypeOK
    <2> QED BY <2>3, <2>4
  <1>2. CASE UNCHANGED history
    BY <1>2 DEF HistoryChange
  <1> QED BY <1>1, <1>2, OnlyWritesWrite
          DEF CreateInsert, UpdateWrite, DeleteWrite, TransitionWrite

\* Who may review is independent, and stays so while the row keeps its creator.
LEMMA ReviewersAreIndependent ==
  ASSUME NEW row, NEW user, MayReview(row, user)
  PROVE  Independent(row, user)
  BY DEF MayReview, Independent, ApprovalRoles

\* The reviewer a step leaves on an existing row is independent.
LEMMA ReviewerStaysIndependent ==
  ASSUME TypeOK, RequestsAreGrounded, IndependentReview, NEW w \in Workers, Step(w),
         NEW a \in Allocations, Exists(alloc, a), alloc'[a].reviewedBy # None
  PROVE  Independent(alloc'[a], alloc'[a].reviewedBy)
  <1>1. alloc'[a].createdBy = alloc[a].createdBy
    BY EveryStepKeeps DEF StepKeeps, IdentityStep
  <1>2. CASE alloc'[a].reviewedBy = alloc[a].reviewedBy
    BY <1>1, <1>2 DEF IndependentReview, Independent
  <1>3. CASE TransitionWrite(w) /\ a = req[w].id
             /\ alloc'[a] = Transitioned(alloc[a], req[w].op, req[w].target, req[w].actor)
    <2> DEFINE r == req[w]
    <2>1. /\ r \in Request /\ Grounded(r) /\ r.op \in ReviewOperations \cup {"transition"}
      BY <1>3, CurrentIsGrounded DEF TransitionWrite, At
    <2>2. /\ alloc[a] \in Row /\ r.actor \in Users /\ r.target \in Statuses
      BY <2>1, TargetsAreStatuses, WorkflowAssumption DEF Grounded, Request, TypeOK, Exists
    <2>3. alloc'[a].reviewedBy = IF r.op \in {"approve", "reject"} THEN r.actor
                                ELSE alloc[a].reviewedBy
      BY <1>3, <2>2, TransitionedIsRow
    <2>4. CASE r.op \in {"approve", "reject"}
      <3>1. MayReview(alloc[a], r.actor)
        BY <1>3, <2>1, <2>4 DEF Grounded
      <3>2. Independent(alloc[a], r.actor)
        BY <3>1, ReviewersAreIndependent
      <3> QED BY <1>1, <2>3, <2>4, <3>2 DEF Independent
    <2> QED BY <1>2, <2>3, <2>4
  <1> QED BY <1>2, <1>3, RowsChangeSo DEF RowChange, Exists

\* So is whoever the history of an existing row names as having decided.
LEMMA DecidersStayIndependent ==
  ASSUME TypeOK, RequestsAreGrounded, IndependentReview, NEW w \in Workers, Step(w),
         NEW a \in Allocations, Exists(alloc, a), NEW i \in DOMAIN history'[a],
         history'[a][i].action \in {"Approved", "Rejected"}
  PROVE  Independent(alloc'[a], history'[a][i].actor)
  <1>1. alloc'[a].createdBy = alloc[a].createdBy
    BY EveryStepKeeps DEF StepKeeps, IdentityStep
  <1>2. SUFFICES Independent(alloc[a], history'[a][i].actor)
    BY <1>1 DEF Independent
  <1>3. CASE history'[a] = history[a]
    BY <1>3 DEF IndependentReview
  <1>4. ASSUME NEW op \in ReviewOperations, NEW user \in Users,
               history'[a] = Append(history[a], [action |-> HistoryAction[op], actor |-> user]),
               op \in {"approve", "reject"} => MayReview(alloc[a], user)
        PROVE  Independent(alloc[a], history'[a][i].actor)
    <2>1. history[a] \in Seq(HistoryEntry)
      BY DEF TypeOK
    <2>2. CASE i \in DOMAIN history[a]
      <3>1. history'[a][i] = history[a][i]
        BY <1>4, <2>1, <2>2
      <3> QED BY <2>2, <3>1 DEF IndependentReview
    <2>3. CASE i \notin DOMAIN history[a]
      <3>1. history'[a][i] = [action |-> HistoryAction[op], actor |-> user]
        BY <1>4, <2>1, <2>3
      <3>2. op \in {"approve", "reject"}
        BY <3>1 DEF HistoryAction, ReviewOperations
      <3> QED BY <1>4, <3>1, <3>2, ReviewersAreIndependent
    <2> QED BY <2>2, <2>3
  <1> QED BY <1>3, <1>4, HistoryChangesSo DEF HistoryChange

LEMMA ReviewStaysIndependent ==
  ASSUME TypeOK, RequestsAreGrounded, HistoryNeedsRow, IndependentReview,
         NEW w \in Workers, Step(w)
  PROVE  HistoryNeedsRow' /\ IndependentReview'
  <1>1. ASSUME NEW a \in Allocations, ~Exists(alloc, a)
        PROVE  /\ history'[a] = <<>>
               /\ Exists(alloc', a) => alloc'[a].reviewedBy = None
    <2>1. history[a] = <<>> /\ history'[a] = history[a]
      BY <1>1, HistoryChangesSo DEF HistoryNeedsRow, HistoryChange
    <2> QED BY <1>1, <2>1, RowsChangeSo DEF RowChange, Exists
  <1>2. ASSUME NEW a \in Allocations, Exists(alloc, a)
        PROVE  Exists(alloc', a)
    BY <1>2, EveryStepKeeps DEF StepKeeps, IdentityStep
  <1>3. HistoryNeedsRow'
    BY <1>1, <1>2 DEF HistoryNeedsRow
  <1>4. IndependentReview'
    BY <1>1, ReviewerStaysIndependent, DecidersStayIndependent DEF IndependentReview
  <1> QED BY <1>3, <1>4

\* Separation of duties: no reviewer on record, on the row or in the history, is
\* the creator or lacks an approver's role.
THEOREM SeparationOfDuties == Spec => []IndependentReview
  <1> DEFINE Inv == HistoryNeedsRow /\ IndependentReview
  <1>1. Init => Inv
    BY DEF Init, HistoryNeedsRow, IndependentReview, Exists
  <1>2. TypeOK /\ RequestsAreGrounded /\ Inv /\ [Next]_vars => Inv'
    <2> SUFFICES ASSUME TypeOK, RequestsAreGrounded, Inv, [Next]_vars
                 PROVE  Inv'
      OBVIOUS
    <2>1. ASSUME NEW w \in Workers, Step(w)
          PROVE  Inv'
      BY <2>1, ReviewStaysIndependent
    <2>2. CASE UNCHANGED vars
      BY <2>2 DEF vars, HistoryNeedsRow, IndependentReview, Independent, Exists
    <2> QED BY <2>1, <2>2 DEF Next
  <1> QED BY <1>1, <1>2, TypesAndGrounds, PTL DEF Spec

-----------------------------------------------------------------------------
(* Decisions are justified, as long as transitionStatus only archives.     *)

\* Only what is pending can be approved.
LEMMA OnlyPendingIsApproved ==
  ASSUME NEW status \in Statuses, "Approved" \in AllowedTransitions[status]
  PROVE  status = "PendingApproval"
  BY DEF AllowedTransitions, Statuses

\* A request is among the checks of an approval because it was before, or
\* because it just read a pending allocation.
LEMMA ApprovalsComeFromPending ==
  ASSUME TypeOK, RequestsAreGrounded, NEW w \in Workers, Step(w),
         NEW step \in ApproveSteps, At(w, {"approve"}, step)'
  PROVE  /\ req'[w].id \in Allocations /\ Exists(alloc, req'[w].id)
         /\ \/ \E before \in ApproveSteps :
                 At(w, {"approve"}, before) /\ req[w].id = req'[w].id
            \/ alloc[req'[w].id].status = "PendingApproval"
  <1> DEFINE r == req[w]
             Goal == /\ req'[w].id \in Allocations /\ Exists(alloc, req'[w].id)
                     /\ \/ \E before \in ApproveSteps :
                             At(w, {"approve"}, before) /\ req[w].id = req'[w].id
                        \/ alloc[req'[w].id].status = "PendingApproval"
  <1>1. req'[w] # None /\ req'[w].op = "approve" /\ req'[w].step = step
    BY DEF At
  <1>2. ASSUME NEW op, NEW x, Begin(w, op, x)
        PROVE  req'[w] = x
    BY <1>2 DEF Begin, TypeOK
  <1>3. ASSUME NEW x, Continue(w, x)
        PROVE  req'[w] = x
    BY <1>3 DEF Continue, TypeOK
  <1>4. ASSUME r # None, r.op # "approve",
               End(w) \/ \E s \in Steps : Proceed(w, s)
        PROVE  FALSE
    BY <1>1, <1>3, <1>4, CurrentIsGrounded DEF End, Proceed, Request
  <1>5. ASSUME r # None, r.op = "approve", r.step \in ApproveSteps, req'[w].id = r.id
        PROVE  Goal
    <2>1. r \in Request /\ Grounded(r)
      BY <1>5, CurrentIsGrounded
    <2> QED BY <1>5, <2>1 DEF Grounded, Request, At
  <1>6. ~End(w)
    BY <1>1, <1>3 DEF End
  <1>7. CASE CreateValidate(w)
    BY <1>1, <1>2, <1>7 DEF CreateValidate, Fresh
  <1>8. CASE UpdateLoad(w)
    <2>1. PICK s, user, a, row, refs, changed, amount :
            Begin(w, "update", [Fresh("update", s, user)
                                  EXCEPT !.id = a, !.row = row, !.refs = refs,
                                         !.changed = changed, !.amount = amount])
      BY <1>8 DEF UpdateLoad
    <2>2. req'[w].op = "update"
      BY <1>2, <2>1 DEF Fresh
    <2> QED BY <1>1, <2>2
  <1>9. CASE DeleteLoad(w)
    BY <1>1, <1>2, <1>9 DEF DeleteLoad, Fresh
  <1>10. CASE ReviewAuthorise(w)
    BY <1>1, <1>2, <1>10 DEF ReviewAuthorise, Fresh, ApproveSteps
  <1>11. CASE SubmitLoad(w)
    BY <1>1, <1>2, <1>11 DEF SubmitLoad, Fresh
  <1>12. CASE SeamLoad(w)
    BY <1>1, <1>2, <1>12 DEF SeamLoad, Fresh
  <1>13. CASE \/ CreateCheckDuplicate(w) \/ UpdateValidate(w) \/ UpdateCheckDuplicate(w)
    BY <1>4, <1>13 DEF CreateCheckDuplicate, UpdateValidate, UpdateCheckDuplicate, At, Steps
  <1>14. CASE CreateInsert(w) \/ UpdateWrite(w) \/ DeleteWrite(w) \/ LedgerRecord(w) \/ Fail(w)
    BY <1>6, <1>14 DEF CreateInsert, UpdateWrite, DeleteWrite, LedgerRecord, Fail
  <1>15. CASE FiscalYearWrite(w) \/ EntityWrite(w) \/ ProgramWrite(w)
    BY <1>1, <1>15 DEF FiscalYearWrite, EntityWrite, ProgramWrite, Neighbour
  <1>16. CASE TransitionLoad(w)
    <2>1. /\ r # None /\ r \in Request /\ Grounded(r)
          /\ Live(alloc, r.id) /\ r.target \in AllowedTransitions[alloc[r.id].status]
          /\ req'[w] = [r EXCEPT !.row = alloc[r.id], !.step = AfterLoad(r.target)]
      BY <1>3, <1>6, <1>16, CurrentIsGrounded DEF TransitionLoad, At
    <2>2. r.op = "approve" /\ req'[w].id = r.id
      BY <1>1, <2>1 DEF Request
    <2>3. r.id \in Allocations /\ r.target = "Approved"
      BY <2>1, <2>2 DEF Grounded, Request, ReviewOperations, HistoryAction, TargetStatus
    <2>4. alloc[r.id].status \in Statuses
      BY <2>1, <2>3, LiveIsRow DEF Row
    <2> QED BY <2>1, <2>2, <2>3, <2>4, OnlyPendingIsApproved DEF Live
  <1>17. CASE CeilingYear(w)
    <2>1. /\ r # None /\ r \in Request /\ r.step = "fiscalYear"
          /\ \E b : req'[w] = [r EXCEPT !.step = "ceiling", !.budget = b]
      BY <1>3, <1>6, <1>17, CurrentIsGrounded DEF CeilingYear, At
    <2>2. r.op = "approve" /\ req'[w].id = r.id
      BY <1>1, <2>1 DEF Request
    <2> QED BY <1>5, <2>1, <2>2 DEF ApproveSteps
  <1>18. CASE CeilingSum(w)
    <2>1. /\ r # None /\ r \in Request /\ r.step = "ceiling"
          /\ \E s : req'[w] = [r EXCEPT !.step = s]
      BY <1>3, <1>6, <1>18, CurrentIsGrounded DEF CeilingSum, At, Proceed
    <2>2. r.op = "approve" /\ req'[w].id = r.id
      BY <1>1, <2>1 DEF Request
    <2> QED BY <1>5, <2>1, <2>2 DEF ApproveSteps
  <1>19. CASE TransitionWrite(w)
    <2>1. /\ r # None /\ r \in Request
          /\ \E row : req'[w] = [r EXCEPT !.row = row, !.step = "history"]
      BY <1>3, <1>6, <1>19, CurrentIsGrounded DEF TransitionWrite, At
    <2>2. req'[w].step = "history"
      BY <2>1 DEF Request
    <2> QED BY <1>1, <2>2 DEF ApproveSteps
  <1>20. CASE HistoryWrite(w)
    <2>1. /\ r # None /\ r \in Request /\ req'[w] = [r EXCEPT !.step = "ledger"]
      BY <1>3, <1>6, <1>20, CurrentIsGrounded DEF HistoryWrite, At, Proceed
    <2>2. req'[w].step = "ledger"
      BY <2>1 DEF Request
    <2> QED BY <1>1, <2>2 DEF ApproveSteps
  <1> QED BY <1>7, <1>8, <1>9, <1>10, <1>11, <1>12, <1>13, <1>14, <1>15, <1>16, <1>17,
             <1>18, <1>19, <1>20 DEF Step

LEMMA ApprovalsStaySubmitted ==
  ASSUME TypeOK, RequestsAreGrounded, DecisionsAreJustified, ApprovesOnlySubmitted,
         NEW w \in Workers, Step(w)
  PROVE  ApprovesOnlySubmitted'
  <1> SUFFICES ASSUME NEW v \in Workers, NEW step \in ApproveSteps, At(v, {"approve"}, step)'
               PROVE  alloc'[req'[v].id].submitted
    BY DEF ApprovesOnlySubmitted
  <1>1. \A a \in Allocations : Exists(alloc, a) /\ alloc[a].submitted => alloc'[a].submitted
    BY EveryStepKeeps DEF StepKeeps, IdentityStep
  <1>2. CASE v = w
    <2>1. alloc[req'[v].id].submitted
      BY <1>2, ApprovalsComeFromPending DEF ApprovesOnlySubmitted, DecisionsAreJustified
    <2> QED BY <1>1, <1>2, <2>1, ApprovalsComeFromPending
  <1>3. CASE v # w
    <2>1. req'[v] = req[v] /\ At(v, {"approve"}, step)
      BY <1>3, EveryStepKeeps DEF StepKeeps, At
    <2>2. alloc[req[v].id].submitted
      BY <2>1 DEF ApprovesOnlySubmitted
    <2>3. req[v].id \in Allocations /\ Exists(alloc, req[v].id)
      BY <2>1, CurrentIsGrounded DEF At, Grounded, Request
    <2> QED BY <1>1, <2>1, <2>2, <2>3
  <1> QED BY <1>2, <1>3

Justified(row) ==
  /\ row.status \in {"PendingApproval", "Approved"} => row.submitted
  /\ row.status \in {"Approved", "Rejected"} => row.reviewedBy # None
  /\ row.status = "Rejected" => row.rejectionReason

LEMMA DecisionsStayJustified ==
  ASSUME SeamTargets \subseteq {"Archived"},
         TypeOK, RequestsAreGrounded, DecisionsAreJustified, ApprovesOnlySubmitted,
         NEW w \in Workers, Step(w)
  PROVE  DecisionsAreJustified'
  <1> SUFFICES ASSUME NEW a \in Allocations, Exists(alloc', a)
               PROVE  Justified(alloc'[a])
    BY DEF DecisionsAreJustified, Justified
  <1>1. Exists(alloc, a) => Justified(alloc[a])
    BY DEF DecisionsAreJustified, Justified
  <1>2. CASE alloc'[a] = alloc[a]
    BY <1>1, <1>2 DEF Exists
  <1>3. CASE alloc'[a].status = "Draft"
    BY <1>3 DEF Justified
  <1>4. CASE /\ alloc[a] # None
             /\ alloc'[a].status = alloc[a].status /\ alloc'[a].reviewedBy = alloc[a].reviewedBy
             /\ alloc'[a].rejectionReason = alloc[a].rejectionReason
    <2>1. alloc[a].submitted => alloc'[a].submitted
      BY <1>4, EveryStepKeeps DEF StepKeeps, IdentityStep, Exists
    <2> QED BY <1>1, <1>4, <2>1 DEF Justified, Exists
  <1>5. CASE /\ alloc[a] # None /\ a = req[w].id /\ TransitionWrite(w)
             /\ alloc'[a] = Transitioned(alloc[a], req[w].op, req[w].target, req[w].actor)
    <2> DEFINE r == req[w]
    <2>1. /\ r # None /\ r \in Request /\ Grounded(r) /\ r.step = "transition"
          /\ r.op \in ReviewOperations \cup {"transition"}
      BY <1>5, CurrentIsGrounded DEF TransitionWrite, At
    <2>2. /\ alloc[a] \in Row /\ r.actor \in Users /\ r.target \in Statuses
      BY <1>5, <2>1, TargetsAreStatuses, WorkflowAssumption DEF Grounded, Request, TypeOK
    <2>3. /\ alloc'[a].status = r.target
          /\ r.op = "submit" \/ alloc[a].submitted => alloc'[a].submitted
          /\ r.op \in {"approve", "reject"} => alloc'[a].reviewedBy = r.actor
          /\ r.op = "reject" => alloc'[a].rejectionReason
      BY <1>5, <2>2, TransitionedIsRow
    <2>4. r.actor # None
      BY <2>2, DataAssumption
    <2>5. CASE r.op = "approve"
      <3>1. alloc[a].submitted
        BY <1>5, <2>1, <2>5 DEF ApprovesOnlySubmitted, ApproveSteps, At
      <3>2. r.target = "Approved"
        BY <2>1, <2>5 DEF Grounded, TargetStatus, ReviewOperations, HistoryAction
      <3> QED BY <2>3, <2>4, <2>5, <3>1, <3>2 DEF Justified
    <2>6. CASE r.op = "reject"
      <3>1. r.target = "Rejected"
        BY <2>1, <2>6 DEF Grounded, TargetStatus, ReviewOperations, HistoryAction
      <3> QED BY <2>3, <2>4, <2>6, <3>1 DEF Justified
    <2>7. CASE r.op = "submit"
      <3>1. r.target = "PendingApproval"
        BY <2>1, <2>7 DEF Grounded, TargetStatus, ReviewOperations, HistoryAction
      <3> QED BY <2>3, <2>7, <3>1 DEF Justified
    <2>8. CASE r.op = "return"
      <3>1. r.target = "Draft"
        BY <2>1, <2>8 DEF Grounded, TargetStatus, ReviewOperations, HistoryAction
      <3> QED BY <2>3, <3>1 DEF Justified
    <2>9. CASE r.op = "transition"
      <3>1. r.target = "Archived"
        BY <2>1, <2>9 DEF Grounded
      <3> QED BY <2>3, <3>1 DEF Justified
    <2> QED BY <2>1, <2>5, <2>6, <2>7, <2>8, <2>9 DEF ReviewOperations, HistoryAction
  <1> QED BY <1>2, <1>3, <1>4, <1>5, RowsChangeSo DEF RowChange

\* No status stands without what justifies it, provided transitionStatus, which
\* no route calls, is only ever asked to archive.
THEOREM JustifiedDecisions ==
  ASSUME SeamTargets \subseteq {"Archived"}
  PROVE  Spec => []DecisionsAreJustified
  <1> DEFINE Inv == DecisionsAreJustified /\ ApprovesOnlySubmitted
  <1>1. Init => Inv
    BY DEF Init, DecisionsAreJustified, ApprovesOnlySubmitted, At, Exists
  <1>2. TypeOK /\ RequestsAreGrounded /\ Inv /\ [Next]_vars => Inv'
    <2> SUFFICES ASSUME TypeOK, RequestsAreGrounded, Inv, [Next]_vars
                 PROVE  Inv'
      OBVIOUS
    <2>1. ASSUME NEW w \in Workers, Step(w)
          PROVE  Inv'
      BY <2>1, DecisionsStayJustified, ApprovalsStaySubmitted
    <2>2. CASE UNCHANGED vars
      BY <2>2 DEF vars, DecisionsAreJustified, ApprovesOnlySubmitted, At, Exists
    <2> QED BY <2>1, <2>2 DEF Next
  <1> QED BY <1>1, <1>2, TypesAndGrounds, PTL DEF Spec

-----------------------------------------------------------------------------
(* Duplicates. *)

\* A row that a step adds is the draft of CreateInsert, and its transaction
\* found no live row with the combination.
LEMMA NewRowsClashWithNone ==
  ASSUME TypeOK, RequestsAreGrounded, NEW w \in Workers, Step(w),
         NEW a \in Allocations, NEW b \in Allocations, Exists(alloc', a), ~Exists(alloc, a)
  PROVE  ~Clash(alloc', a, b)
  <1> DEFINE r == req[w]
  <1>1. CASE CreateInsert(w)
    <2>1. /\ r \in Request /\ Grounded(r) /\ r.op = "create"
      BY <1>1, CurrentIsGrounded DEF CreateInsert, At
    <2>2. r.row \in Row
      BY <2>1 DEF Grounded, Request
    <2>3. PICK n \in 0..Cardinality(Allocations), c \in Allocations :
            /\ ~DuplicateExists(alloc, r.row.fiscalYear, r.row.refs, {})
            /\ alloc' = [alloc EXCEPT ![c] = [r.row EXCEPT !.code = n + 1]]
      BY <1>1 DEF CreateInsert, Exists
    <2>4. PICK new : new = [r.row EXCEPT !.code = n + 1]
      OBVIOUS
    <2>5. new.fiscalYear = r.row.fiscalYear /\ new.refs = r.row.refs
      BY <2>2, <2>4 DEF Row
    <2>6. a = c /\ alloc'[a] = new /\ \A d \in Allocations \ {a} : alloc'[d] = alloc[d]
      BY <2>3, <2>4 DEF TypeOK, Exists
    <2>7. SUFFICES ASSUME a # b, DuplicateExists(alloc', new.fiscalYear, new.refs, Allocations \ {b})
                   PROVE  FALSE
      BY <2>6 DEF Clash
    <2>8. /\ Live(alloc', b) /\ alloc'[b].status \notin ExcludedStatuses
          /\ alloc'[b].fiscalYear = new.fiscalYear /\ alloc'[b].refs = new.refs
      BY <2>7 DEF DuplicateExists
    <2>9. alloc'[b] = alloc[b]
      BY <2>6, <2>7
    <2>10. DuplicateExists(alloc, new.fiscalYear, new.refs, {})
      BY <2>8, <2>9 DEF DuplicateExists, Live, Exists
    <2> QED
      BY <2>3, <2>5, <2>10
  <1>2. CASE UpdateWrite(w) \/ DeleteWrite(w) \/ TransitionWrite(w)
    <2>1. /\ r \in Request /\ Grounded(r) /\ r.op # "create"
      BY <1>2, CurrentIsGrounded
      DEF UpdateWrite, DeleteWrite, TransitionWrite, At, ReviewOperations, HistoryAction
    <2>2. Exists(alloc, r.id)
      BY <2>1 DEF Grounded
    <2>3. \A d \in Allocations \ {r.id} : alloc'[d] = alloc[d]
      BY <1>2 DEF UpdateWrite, DeleteWrite, TransitionWrite, TypeOK
    <2> QED
      BY <2>2, <2>3 DEF Exists
  <1>3. CASE UNCHANGED alloc
    BY <1>3 DEF Exists
  <1> QED
    BY <1>1, <1>2, <1>3, OnlyWritesWrite DEF HistoryWrite

\* A create never makes a duplicate, however many requests run at once.
THEOREM NoDuplicateCreated == Spec => CreatesMakeNoDuplicate
  <1>1. TypeOK /\ RequestsAreGrounded /\ [Next]_vars =>
          [\A a, b \in Allocations :
             Exists(alloc', a) /\ ~Exists(alloc, a) => ~Clash(alloc', a, b)]_vars
    BY NewRowsClashWithNone DEF Next
  <1> QED
    BY <1>1, TypesAndGrounds, PTL DEF Spec, CreatesMakeNoDuplicate

-----------------------------------------------------------------------------
(* One request in flight: what it has checked still holds. *)

\* validateBudgetCeiling on the tables of now.
Fits(y, amount) ==
  ~year[y].archived /\ ~(amount + CommittedAmount(alloc, y) > year[y].budget)

CreateSupported(r) ==
  LET y == r.row.fiscalYear IN
  /\ Role[r.actor] \in WriteRoles
  /\ r.row = NewDraft(y, r.row.refs, r.row.amount, r.actor)
  /\ ReferencesValid(r.row.refs, DOMAIN r.row.refs, master)
  /\ ~year[y].archived /\ r.budget = year[y].budget
  /\ r.step \in {"duplicate", "insert"} => Fits(y, r.row.amount)
  /\ r.step = "insert" => ~DuplicateExists(alloc, y, r.row.refs, {})

UpdateSupported(r) ==
  /\ Role[r.actor] \in WriteRoles
  /\ Live(alloc, r.id) /\ alloc[r.id].status = "Draft" /\ r.row = alloc[r.id]
  /\ r.changed = ChangedReferences(alloc[r.id].refs, r.refs)
  /\ r.step # "references" => ReferencesValid(r.refs, FieldsToValidate(r.changed), master)
  /\ r.step = "edit" /\ r.changed # {} =>
       ~DuplicateExists(alloc, alloc[r.id].fiscalYear, r.refs, {r.id})

DeleteSupported(r) ==
  Role[r.actor] \in WriteRoles /\ Live(alloc, r.id) /\ MayDelete(alloc[r.id], r.actor)

ReviewSupported(r) ==
  /\ Role[r.actor] \in RouteRoles[r.op]
  /\ Live(alloc, r.id) /\ MayDecide(r.op, alloc[r.id], r.actor)

TransitionSupported(r) ==
  LET row == alloc[r.id] IN
  /\ Live(alloc, r.id) /\ r.row = row
  /\ r.target \in AllowedTransitions[row.status]
  /\ r.step = "ceiling" =>
       ~year[row.fiscalYear].archived /\ r.budget = year[row.fiscalYear].budget
  /\ r.step = "transition" /\ r.target = "Approved" => Fits(row.fiscalYear, row.amount)

Owes(r) == r # None /\ r.op \in ReviewOperations /\ r.step \in {"history", "ledger"}

Supports(r) ==
  /\ r.op \in Operations
  /\ r.op = "create" => CreateSupported(r)
  /\ r.op = "update" => UpdateSupported(r)
  /\ r.op = "delete" => DeleteSupported(r)
  /\ r.op \in ReviewOperations /\ ~Owes(r) => ReviewSupported(r)
  /\ r.op \in ReviewOperations \cup {"transition"} /\ ~Owes(r) /\ r.step # "load" =>
       TransitionSupported(r)

Supported == \A w \in Workers : req[w] # None => Supports(req[w])

LEMMA TablesKeepSupport ==
  ASSUME UNCHANGED tables, NEW r, Supports(r)
  PROVE  Supports(r)'
  BY DEF tables, Supports, CreateSupported, UpdateSupported, DeleteSupported, ReviewSupported,
         TransitionSupported, Fits, Owes

(* The tables the life cycle sees. *)

HistoryWith(H, r) ==
  [a \in Allocations |->
     IF r # None /\ r.op \in ReviewOperations /\ r.step = "history" /\ r.id = a
     THEN Append(H[a], [action |-> HistoryAction[r.op], actor |-> r.actor])
     ELSE H[a]]

RecordWith(R, r) ==
  [a \in Allocations |->
     IF r # None /\ r.op = "approve" /\ r.step \in {"history", "ledger"} /\ r.id = a
     THEN r.row ELSE R[a]]

LEMMA DueIs ==
  ASSUME NEW w, Workers = {w}
  PROVE  HistoryDue = HistoryWith(history, req[w]) /\ RecordDue = RecordWith(recorded, req[w])
  <1>1. \A a \in Allocations :
          (\E u \in Workers : OwesHistory(u, a)) <=> OwesHistory(w, a)
    OBVIOUS
  <1>2. \A a \in Allocations :
          OwesHistory(w, a) => (CHOOSE u \in Workers : OwesHistory(u, a)) = w
    OBVIOUS
  <1>3. \A a \in Allocations :
          (\E u \in Workers : OwesRecord(u, a)) <=> OwesRecord(w, a)
    OBVIOUS
  <1>4. \A a \in Allocations :
          OwesRecord(w, a) => (CHOOSE u \in Workers : OwesRecord(u, a)) = w
    OBVIOUS
  <1>5. HistoryDue = HistoryWith(history, req[w])
    BY <1>1, <1>2 DEF HistoryDue, HistoryWith, OwesHistory, At
  <1>6. RecordDue = RecordWith(recorded, req[w])
    BY <1>3, <1>4 DEF RecordDue, RecordWith, OwesRecord, At
  <1> QED
    BY <1>5, <1>6

LEMMA DueThen ==
  ASSUME NEW w, Workers = {w}
  PROVE  HistoryDue' = HistoryWith(history', req'[w]) /\ RecordDue' = RecordWith(recorded', req'[w])
  <1>1. \A a \in Allocations :
          (\E u \in Workers : OwesHistory(u, a)') <=> OwesHistory(w, a)'
    OBVIOUS
  <1>2. \A a \in Allocations :
          OwesHistory(w, a)' => (CHOOSE u \in Workers : OwesHistory(u, a)') = w
    OBVIOUS
  <1>3. \A a \in Allocations :
          (\E u \in Workers : OwesRecord(u, a)') <=> OwesRecord(w, a)'
    OBVIOUS
  <1>4. \A a \in Allocations :
          OwesRecord(w, a)' => (CHOOSE u \in Workers : OwesRecord(u, a)') = w
    OBVIOUS
  <1>5. HistoryDue' = HistoryWith(history', req'[w])
    BY <1>1, <1>2 DEF HistoryDue, HistoryWith, OwesHistory, At
  <1>6. RecordDue' = RecordWith(recorded', req'[w])
    BY <1>3, <1>4 DEF RecordDue, RecordWith, OwesRecord, At
  <1> QED
    BY <1>5, <1>6

LEMMA NothingDue ==
  ASSUME NEW r, ~Owes(r), NEW H \in [Allocations -> Seq(HistoryEntry)],
         NEW R \in [Allocations -> Row \cup {None}]
  PROVE  HistoryWith(H, r) = H /\ RecordWith(R, r) = R
  BY DEF HistoryWith, RecordWith, Owes, ReviewOperations, HistoryAction

LEMMA SameData ==
  /\ \A y, table : Lifecycle!CommittedAmount(table, y) = CommittedAmount(table, y)
  /\ \A row, op, target, user :
       Lifecycle!Transitioned(row, op, target, user) = Transitioned(row, op, target, user)
  /\ \A y, refs, amount, user :
       Lifecycle!NewDraft(y, refs, amount, user) = NewDraft(y, refs, amount, user)
  /\ \A row, changed, refs, amount :
       Lifecycle!Edited(row, changed, refs, amount) = Edited(row, changed, refs, amount)
  <1>1. \A y, table : Lifecycle!Committed(table, y) = Committed(table, y)
    BY DEF Lifecycle!Committed, Committed, Lifecycle!Live, Live, Lifecycle!Exists, Exists
  <1>2. \A y, table : Lifecycle!CommittedAmount(table, y) = CommittedAmount(table, y)
    BY <1>1, Zenon DEF Lifecycle!CommittedAmount, CommittedAmount, Lifecycle!MapThenSumSet,
       MapThenSumSet, Lifecycle!MapThenFoldSet, MapThenFoldSet
  <1>3. \A row, op, target, user :
          Lifecycle!Transitioned(row, op, target, user) = Transitioned(row, op, target, user)
    BY DEF Lifecycle!Transitioned, Transitioned
  <1>4. \A y, refs, amount, user :
          Lifecycle!NewDraft(y, refs, amount, user) = NewDraft(y, refs, amount, user)
    BY DEF Lifecycle!NewDraft, NewDraft
  <1>5. \A row, changed, refs, amount :
          Lifecycle!Edited(row, changed, refs, amount) = Edited(row, changed, refs, amount)
    BY DEF Lifecycle!Edited, Edited
  <1> QED
    BY <1>2, <1>3, <1>4, <1>5

\* The queries and decisions of the life cycle are those of the service.
LEMMA SameQueries ==
  /\ \A table, a : Lifecycle!Live(table, a) <=> Live(table, a)
  /\ \A table, a : Lifecycle!Exists(table, a) <=> Exists(table, a)
  /\ \A table, y, refs, S :
       Lifecycle!DuplicateExists(table, y, refs, S) <=> DuplicateExists(table, y, refs, S)
  /\ \A table, y, n : Lifecycle!IsMaxSequence(table, y, n) <=> IsMaxSequence(table, y, n)
  /\ \A table, y, n : Lifecycle!CodeTaken(table, y, n) <=> CodeTaken(table, y, n)
  /\ \A refs, S, m : Lifecycle!ReferencesValid(refs, S, m) <=> ReferencesValid(refs, S, m)
  /\ \A S : Lifecycle!FieldsToValidate(S) = FieldsToValidate(S)
  /\ \A old, new : Lifecycle!ChangedReferences(old, new) = ChangedReferences(old, new)
  /\ \A row, user : Lifecycle!MayDelete(row, user) <=> MayDelete(row, user)
  /\ \A op, row, user : Lifecycle!MayDecide(op, row, user) <=> MayDecide(op, row, user)
  /\ Lifecycle!AllowedTransitions = AllowedTransitions
  /\ Lifecycle!WriteRoles = WriteRoles /\ Lifecycle!RouteRoles = RouteRoles
  /\ Lifecycle!TargetStatus = TargetStatus /\ Lifecycle!HistoryAction = HistoryAction
  /\ Lifecycle!ReviewOperations = ReviewOperations /\ Lifecycle!References = References
  /\ Lifecycle!FiscalYearRow = FiscalYearRow /\ Lifecycle!Entities = Entities
  /\ \A y, amount : Lifecycle!FitsCeiling(y, amount) <=> Fits(y, amount)
  BY SameData DEF Lifecycle!Live, Live, Lifecycle!Exists, Exists, Lifecycle!DuplicateExists,
     DuplicateExists, Lifecycle!ExcludedStatuses, ExcludedStatuses, Lifecycle!IsMaxSequence,
     IsMaxSequence, Lifecycle!CodeTaken, CodeTaken, Lifecycle!ReferencesValid, ReferencesValid,
     Lifecycle!FieldsToValidate, FieldsToValidate, Lifecycle!ChangedReferences,
     ChangedReferences, Lifecycle!MayDelete, MayDelete, Lifecycle!MayDecide, MayDecide,
     Lifecycle!MayReturn, MayReturn, Lifecycle!MayReview, MayReview, Lifecycle!ApprovalRoles,
     ApprovalRoles, Lifecycle!AllowedTransitions, AllowedTransitions, Lifecycle!Statuses,
     Statuses, Lifecycle!WriteRoles, WriteRoles, Lifecycle!RouteRoles, RouteRoles,
     Lifecycle!ReturnRoles, ReturnRoles, Lifecycle!TargetStatus, TargetStatus,
     Lifecycle!HistoryAction, HistoryAction, Lifecycle!ReviewOperations, ReviewOperations,
     Lifecycle!References, References, Lifecycle!FiscalYearRow, FiscalYearRow,
     Lifecycle!Entities, Entities, Lifecycle!FitsCeiling, Fits

-----------------------------------------------------------------------------
(* One request in flight: the steps that read. *)

\* A step keeps what the request relies on, and is a step of the life cycle.
SerialStep == Supported' /\ [Lifecycle!Next]_(Lifecycle!vars)

LEMMA NobodyOwes == ~Owes(None)
  BY DEF Owes

LEMMA ReadIsSerial ==
  ASSUME TypeOK, UNCHANGED tables, NEW w, Workers = {w}, NEW x, ~Owes(req[w]), ~Owes(x),
         x # None => Supports(x), req' = [req EXCEPT ![w] = x]
  PROVE  SerialStep
  <1>1. req'[w] = x
    BY DEF TypeOK
  <1>2. x # None => Supports(x)'
    BY TablesKeepSupport
  <1>3. Supported'
    BY <1>1, <1>2 DEF Supported, Supports, CreateSupported, UpdateSupported, DeleteSupported,
                      ReviewSupported, TransitionSupported, Owes
  <1>4. HistoryDue = history /\ RecordDue = recorded
    BY DueIs, NothingDue DEF TypeOK
  <1>5. HistoryDue' = history /\ RecordDue' = recorded
    BY <1>1, DueThen, NothingDue DEF TypeOK, tables
  <1>6. UNCHANGED Lifecycle!vars
    BY <1>4, <1>5 DEF Lifecycle!vars, tables
  <1> QED
    BY <1>3, <1>6 DEF SerialStep

LEMMA EndIsSerial ==
  ASSUME TypeOK, UNCHANGED tables, NEW w, Workers = {w}, ~Owes(req[w]), End(w)
  PROVE  SerialStep
  <1> PICK x : x = None
    OBVIOUS
  <1>1. req' = [req EXCEPT ![w] = x]
    BY DEF End, Continue
  <1>2. ~Owes(x) /\ (x # None => Supports(x))
    BY NobodyOwes
  <1> QED
    BY <1>1, <1>2, ReadIsSerial

LEMMA BeginIsSerial ==
  ASSUME TypeOK, UNCHANGED tables, NEW w, Workers = {w}, NEW op, NEW x, ~Owes(x), Supports(x),
         Begin(w, op, x)
  PROVE  SerialStep
  <1>1. req' = [req EXCEPT ![w] = x] /\ req[w] = None
    BY DEF Begin
  <1>2. ~Owes(req[w])
    BY <1>1, NobodyOwes
  <1> QED
    BY <1>1, <1>2, ReadIsSerial

\* The fields of a request that goes on.
LEMMA AtNextStep ==
  ASSUME NEW r \in Request, NEW step, NEW x, x = [r EXCEPT !.step = step]
  PROVE  /\ x.step = step /\ x.op = r.op /\ x.actor = r.actor /\ x.id = r.id /\ x.row = r.row
         /\ x.target = r.target /\ x.refs = r.refs /\ x.changed = r.changed
         /\ x.amount = r.amount /\ x.budget = r.budget
  BY DEF Request

LEMMA SupportedNow ==
  ASSUME TypeOK, RequestsAreGrounded, Supported, NEW w, Workers = {w}, req[w] # None
  PROVE  /\ w \in Workers /\ req[w] \in Request /\ Grounded(req[w]) /\ Supports(req[w])
         /\ req[w].op \in Operations
  BY CurrentIsGrounded DEF Supported, Supports

LEMMA CeilingYearIsSerial ==
  ASSUME TypeOK, RequestsAreGrounded, Supported, NEW w, Workers = {w}, CeilingYear(w)
  PROVE  SerialStep
  <1> PICK r : r = req[w]
    OBVIOUS
  <1> PICK y : y = r.row.fiscalYear
    OBVIOUS
  <1> PICK x : x = [r EXCEPT !.step = "ceiling", !.budget = year[y].budget]
    OBVIOUS
  <1>1. /\ r # None /\ r.op \in {"approve", "transition"} /\ r.step = "fiscalYear"
        /\ UNCHANGED tables
    BY DEF CeilingYear, At
  <1>2. r \in Request /\ Supports(r)
    BY <1>1, SupportedNow
  <1>3. ~Owes(r)
    BY <1>1 DEF Owes
  <1>4. CASE year[y].archived
    BY <1>1, <1>3, <1>4, EndIsSerial DEF CeilingYear
  <1>5. CASE ~year[y].archived
    <2>1. /\ x.step = "ceiling" /\ x.op = r.op /\ x.actor = r.actor /\ x.id = r.id
          /\ x.row = r.row /\ x.target = r.target /\ x.budget = year[y].budget
      BY <1>2 DEF Request
    <2>2. ~Owes(x)
      BY <2>1 DEF Owes
    <2>3. TransitionSupported(r) /\ (r.op = "approve" => ReviewSupported(r))
      BY <1>1, <1>2, <1>3 DEF Supports, ReviewOperations, HistoryAction
    <2>4. TransitionSupported(x) /\ (x.op = "approve" => ReviewSupported(x))
      BY <1>5, <2>1, <2>3 DEF TransitionSupported, ReviewSupported
    <2>5. Supports(x)
      BY <1>1, <1>2, <2>1, <2>4 DEF Supports, ReviewOperations, HistoryAction
    <2>6. req' = [req EXCEPT ![w] = x]
      BY <1>5 DEF CeilingYear, Continue
    <2> QED
      BY <1>1, <1>3, <2>2, <2>5, <2>6, ReadIsSerial
  <1> QED
    BY <1>4, <1>5

LEMMA CeilingSumIsSerial ==
  ASSUME TypeOK, RequestsAreGrounded, Supported, NEW w, Workers = {w}, CeilingSum(w)
  PROVE  SerialStep
  <1> PICK r : r = req[w]
    OBVIOUS
  <1> PICK x : x = [r EXCEPT !.step = IF r.op = "create" THEN "duplicate" ELSE "transition"]
    OBVIOUS
  <1>1. /\ r # None /\ r.op \in {"create", "approve", "transition"} /\ r.step = "ceiling"
        /\ UNCHANGED tables
    BY DEF CeilingSum, At
  <1>2. r \in Request /\ Supports(r)
    BY <1>1, SupportedNow
  <1>3. ~Owes(r)
    BY <1>1 DEF Owes
  <1>4. CASE r.row.amount + CommittedAmount(alloc, r.row.fiscalYear) > r.budget
    BY <1>1, <1>3, <1>4, EndIsSerial DEF CeilingSum
  <1>5. CASE ~(r.row.amount + CommittedAmount(alloc, r.row.fiscalYear) > r.budget)
    <2>1. /\ x.step = (IF r.op = "create" THEN "duplicate" ELSE "transition")
          /\ x.op = r.op /\ x.actor = r.actor /\ x.id = r.id /\ x.row = r.row
          /\ x.target = r.target /\ x.budget = r.budget
      BY <1>2, AtNextStep
    <2>2. ~Owes(x)
      BY <2>1 DEF Owes
    <2>3. ASSUME r.op = "create"
          PROVE  Supports(x)
      <3>1. CreateSupported(r)
        BY <1>2, <2>3 DEF Supports
      <3>2. CreateSupported(x)
        BY <1>5, <2>1, <2>3, <3>1 DEF CreateSupported, Fits
      <3> QED
        BY <1>2, <2>1, <2>3, <3>2 DEF Supports, ReviewOperations, HistoryAction
    <2>4. ASSUME r.op # "create"
          PROVE  Supports(x)
      <3>1. TransitionSupported(r) /\ (r.op = "approve" => ReviewSupported(r))
        BY <1>1, <1>2, <1>3, <2>4 DEF Supports, ReviewOperations, HistoryAction
      <3>2. TransitionSupported(x) /\ (x.op = "approve" => ReviewSupported(x))
        BY <1>1, <1>5, <2>1, <2>4, <3>1 DEF TransitionSupported, ReviewSupported, Fits
      <3> QED
        BY <1>1, <1>2, <2>1, <2>4, <3>2 DEF Supports, ReviewOperations, HistoryAction
    <2>5. req' = [req EXCEPT ![w] = x]
      BY <1>5 DEF CeilingSum, Proceed, Continue
    <2> QED
      BY <1>1, <1>3, <2>2, <2>3, <2>4, <2>5, ReadIsSerial
  <1> QED
    BY <1>4, <1>5

LEMMA CreateValidateIsSerial ==
  ASSUME TypeOK, NEW w, Workers = {w}, CreateValidate(w)
  PROVE  SerialStep
  <1>1. PICK user \in Users, y \in FiscalYears, refs \in References, amount \in Amounts :
          /\ Role[user] \in WriteRoles /\ ~year[y].archived
          /\ ReferencesValid(refs, DOMAIN refs, master)
          /\ Begin(w, "create",
                   [Fresh("create", "ceiling", user)
                      EXCEPT !.row = NewDraft(y, refs, amount, user),
                             !.budget = year[y].budget])
          /\ UNCHANGED tables
    BY DEF CreateValidate
  <1> PICK x : x = [Fresh("create", "ceiling", user)
                      EXCEPT !.row = NewDraft(y, refs, amount, user),
                             !.budget = year[y].budget]
    OBVIOUS
  <1>2. /\ x.op = "create" /\ x.step = "ceiling" /\ x.actor = user
        /\ x.row = NewDraft(y, refs, amount, user) /\ x.budget = year[y].budget
    BY DEF Fresh
  <1>3. /\ x.row.fiscalYear = y /\ x.row.refs = refs /\ x.row.amount = amount
    BY <1>2 DEF NewDraft
  <1>4. CreateSupported(x)
    BY <1>1, <1>2, <1>3 DEF CreateSupported
  <1>5. Supports(x) /\ ~Owes(x)
    BY <1>1, <1>2, <1>4 DEF Supports, Owes, ReviewOperations, HistoryAction, Begin
  <1> QED
    BY <1>1, <1>5, BeginIsSerial

LEMMA CreateCheckDuplicateIsSerial ==
  ASSUME TypeOK, RequestsAreGrounded, Supported, NEW w, Workers = {w}, CreateCheckDuplicate(w)
  PROVE  SerialStep
  <1> PICK r : r = req[w]
    OBVIOUS
  <1> PICK x : x = [r EXCEPT !.step = "insert"]
    OBVIOUS
  <1>1. r # None /\ r.op = "create" /\ r.step = "duplicate" /\ UNCHANGED tables
    BY DEF CreateCheckDuplicate, At
  <1>2. r \in Request /\ Supports(r) /\ ~Owes(r)
    BY <1>1, SupportedNow DEF Owes
  <1>3. CASE DuplicateExists(alloc, r.row.fiscalYear, r.row.refs, {})
    BY <1>1, <1>2, <1>3, EndIsSerial DEF CreateCheckDuplicate
  <1>4. CASE ~DuplicateExists(alloc, r.row.fiscalYear, r.row.refs, {})
    <2>1. /\ x.step = "insert" /\ x.op = "create" /\ x.actor = r.actor /\ x.row = r.row
          /\ x.budget = r.budget
      BY <1>1, <1>2, AtNextStep
    <2>2. CreateSupported(x)
      BY <1>1, <1>2, <1>4, <2>1 DEF Supports, CreateSupported
    <2>3. Supports(x) /\ ~Owes(x)
      BY <1>1, <1>2, <2>1, <2>2 DEF Supports, Owes, ReviewOperations, HistoryAction
    <2>4. req' = [req EXCEPT ![w] = x]
      BY <1>4 DEF CreateCheckDuplicate, Proceed, Continue
    <2> QED
      BY <1>1, <1>2, <2>3, <2>4, ReadIsSerial
  <1> QED
    BY <1>3, <1>4

LEMMA UpdateLoadIsSerial ==
  ASSUME TypeOK, NEW w, Workers = {w}, UpdateLoad(w)
  PROVE  SerialStep
  <1>1. PICK user \in Users, a \in Allocations, amount \in Amounts \cup {0}, refs \in References :
          LET changed == ChangedReferences(alloc[a].refs, refs) IN
          /\ Role[user] \in WriteRoles /\ Live(alloc, a) /\ alloc[a].status = "Draft"
          /\ UNCHANGED tables
          /\ Begin(w, "update",
                   [Fresh("update", IF changed = {} THEN "edit" ELSE "references", user)
                      EXCEPT !.id = a, !.row = alloc[a], !.refs = refs,
                             !.changed = changed, !.amount = amount])
    BY DEF UpdateLoad
  <1> PICK changed : changed = ChangedReferences(alloc[a].refs, refs)
    OBVIOUS
  <1> PICK x : x = [Fresh("update", IF changed = {} THEN "edit" ELSE "references", user)
                      EXCEPT !.id = a, !.row = alloc[a], !.refs = refs,
                             !.changed = changed, !.amount = amount]
    OBVIOUS
  <1>2. /\ x.op = "update" /\ x.step = (IF changed = {} THEN "edit" ELSE "references")
        /\ x.actor = user /\ x.id = a /\ x.row = alloc[a] /\ x.refs = refs
        /\ x.changed = changed
    BY DEF Fresh
  <1>3. ReferencesValid(refs, FieldsToValidate({}), master)
    BY DEF ReferencesValid, FieldsToValidate
  <1>4. UpdateSupported(x)
    BY <1>1, <1>2, <1>3 DEF UpdateSupported
  <1>5. Begin(w, "update", x)
    BY <1>1
  <1>6. Supports(x) /\ ~Owes(x)
    BY <1>2, <1>4, <1>5 DEF Supports, Owes, ReviewOperations, HistoryAction, Begin
  <1> QED
    BY <1>1, <1>5, <1>6, BeginIsSerial

LEMMA UpdateValidateIsSerial ==
  ASSUME TypeOK, RequestsAreGrounded, Supported, NEW w, Workers = {w}, UpdateValidate(w)
  PROVE  SerialStep
  <1> PICK r : r = req[w]
    OBVIOUS
  <1> PICK x : x = [r EXCEPT !.step = "duplicate"]
    OBVIOUS
  <1>1. r # None /\ r.op = "update" /\ r.step = "references" /\ UNCHANGED tables
    BY DEF UpdateValidate, At
  <1>2. r \in Request /\ Supports(r) /\ ~Owes(r)
    BY <1>1, SupportedNow DEF Owes
  <1>3. CASE ~ReferencesValid(r.refs, FieldsToValidate(r.changed), master)
    BY <1>1, <1>2, <1>3, EndIsSerial DEF UpdateValidate
  <1>4. CASE ReferencesValid(r.refs, FieldsToValidate(r.changed), master)
    <2>1. /\ x.step = "duplicate" /\ x.op = "update" /\ x.actor = r.actor /\ x.id = r.id
          /\ x.row = r.row /\ x.refs = r.refs /\ x.changed = r.changed
      BY <1>1, <1>2, AtNextStep
    <2>2. UpdateSupported(x)
      BY <1>1, <1>2, <1>4, <2>1 DEF Supports, UpdateSupported
    <2>3. Supports(x) /\ ~Owes(x)
      BY <1>1, <1>2, <2>1, <2>2 DEF Supports, Owes, ReviewOperations, HistoryAction
    <2>4. req' = [req EXCEPT ![w] = x]
      BY <1>4 DEF UpdateValidate, Proceed, Continue
    <2> QED
      BY <1>1, <1>2, <2>3, <2>4, ReadIsSerial
  <1> QED
    BY <1>3, <1>4

LEMMA UpdateCheckDuplicateIsSerial ==
  ASSUME TypeOK, RequestsAreGrounded, Supported, NEW w, Workers = {w}, UpdateCheckDuplicate(w)
  PROVE  SerialStep
  <1> PICK r : r = req[w]
    OBVIOUS
  <1> PICK x : x = [r EXCEPT !.step = "edit"]
    OBVIOUS
  <1>1. r # None /\ r.op = "update" /\ r.step = "duplicate" /\ UNCHANGED tables
    BY DEF UpdateCheckDuplicate, At
  <1>2. r \in Request /\ Supports(r) /\ ~Owes(r)
    BY <1>1, SupportedNow DEF Owes
  <1>3. CASE DuplicateExists(alloc, r.row.fiscalYear, r.refs, {r.id})
    BY <1>1, <1>2, <1>3, EndIsSerial DEF UpdateCheckDuplicate
  <1>4. CASE ~DuplicateExists(alloc, r.row.fiscalYear, r.refs, {r.id})
    <2>1. /\ x.step = "edit" /\ x.op = "update" /\ x.actor = r.actor /\ x.id = r.id
          /\ x.row = r.row /\ x.refs = r.refs /\ x.changed = r.changed
      BY <1>1, <1>2, AtNextStep
    <2>2. UpdateSupported(x)
      BY <1>1, <1>2, <1>4, <2>1 DEF Supports, UpdateSupported
    <2>3. Supports(x) /\ ~Owes(x)
      BY <1>1, <1>2, <2>1, <2>2 DEF Supports, Owes, ReviewOperations, HistoryAction
    <2>4. req' = [req EXCEPT ![w] = x]
      BY <1>4 DEF UpdateCheckDuplicate, Proceed, Continue
    <2> QED
      BY <1>1, <1>2, <2>3, <2>4, ReadIsSerial
  <1> QED
    BY <1>3, <1>4

LEMMA DeleteLoadIsSerial ==
  ASSUME TypeOK, NEW w, Workers = {w}, DeleteLoad(w)
  PROVE  SerialStep
  <1>1. PICK user \in Users, a \in Allocations :
          /\ Role[user] \in WriteRoles /\ Live(alloc, a) /\ MayDelete(alloc[a], user)
          /\ UNCHANGED tables
          /\ Begin(w, "delete",
                   [Fresh("delete", "remove", user) EXCEPT !.id = a, !.row = alloc[a]])
    BY DEF DeleteLoad
  <1> PICK x : x = [Fresh("delete", "remove", user) EXCEPT !.id = a, !.row = alloc[a]]
    OBVIOUS
  <1>2. x.op = "delete" /\ x.actor = user /\ x.id = a
    BY DEF Fresh
  <1>3. Supports(x) /\ ~Owes(x)
    BY <1>1, <1>2 DEF Supports, DeleteSupported, Owes, ReviewOperations, HistoryAction, Begin
  <1> QED
    BY <1>1, <1>3, BeginIsSerial

LEMMA ReviewAuthoriseIsSerial ==
  ASSUME TypeOK, NEW w, Workers = {w}, ReviewAuthorise(w)
  PROVE  SerialStep
  <1>1. PICK user \in Users, a \in Allocations, op \in ReviewOperations \ {"submit"} :
          /\ Role[user] \in RouteRoles[op] /\ Live(alloc, a) /\ MayDecide(op, alloc[a], user)
          /\ UNCHANGED tables
          /\ Begin(w, op, [Fresh(op, "load", user) EXCEPT !.id = a, !.target = TargetStatus[op]])
    BY DEF ReviewAuthorise
  <1> PICK x : x = [Fresh(op, "load", user) EXCEPT !.id = a, !.target = TargetStatus[op]]
    OBVIOUS
  <1>2. x.op = op /\ x.actor = user /\ x.id = a /\ x.step = "load"
    BY DEF Fresh
  <1>3. op \notin {"create", "update", "delete", "transition"}
    BY DEF ReviewOperations, HistoryAction
  <1>4. Supports(x) /\ ~Owes(x)
    BY <1>1, <1>2, <1>3 DEF Supports, ReviewSupported, Owes, Begin
  <1> QED
    BY <1>1, <1>4, BeginIsSerial

LEMMA SubmitLoadIsSerial ==
  ASSUME TypeOK, NEW w, Workers = {w}, SubmitLoad(w)
  PROVE  SerialStep
  <1>1. PICK user \in Users, a \in Allocations :
          /\ Role[user] \in RouteRoles["submit"] /\ Live(alloc, a)
          /\ "PendingApproval" \in AllowedTransitions[alloc[a].status]
          /\ UNCHANGED tables
          /\ Begin(w, "submit",
                   [Fresh("submit", "transition", user)
                      EXCEPT !.id = a, !.row = alloc[a], !.target = "PendingApproval"])
    BY DEF SubmitLoad
  <1> PICK x : x = [Fresh("submit", "transition", user)
                      EXCEPT !.id = a, !.row = alloc[a], !.target = "PendingApproval"]
    OBVIOUS
  <1>2. /\ x.op = "submit" /\ x.actor = user /\ x.id = a /\ x.step = "transition"
        /\ x.row = alloc[a] /\ x.target = "PendingApproval"
    BY DEF Fresh
  <1>3. ReviewSupported(x) /\ TransitionSupported(x)
    BY <1>1, <1>2 DEF ReviewSupported, TransitionSupported, MayDecide
  <1>4. Supports(x) /\ ~Owes(x)
    BY <1>1, <1>2, <1>3 DEF Supports, Owes, Begin
  <1> QED
    BY <1>1, <1>4, BeginIsSerial

LEMMA SeamLoadIsSerial ==
  ASSUME TypeOK, NEW w, Workers = {w}, SeamLoad(w)
  PROVE  SerialStep
  <1>1. PICK user \in Users, a \in Allocations, target \in SeamTargets :
          /\ Live(alloc, a) /\ target \in AllowedTransitions[alloc[a].status]
          /\ UNCHANGED tables
          /\ Begin(w, "transition",
                   [Fresh("transition", AfterLoad(target), user)
                      EXCEPT !.id = a, !.row = alloc[a], !.target = target])
    BY DEF SeamLoad
  <1> PICK x : x = [Fresh("transition", AfterLoad(target), user)
                      EXCEPT !.id = a, !.row = alloc[a], !.target = target]
    OBVIOUS
  <1>2. /\ x.op = "transition" /\ x.actor = user /\ x.id = a /\ x.step = AfterLoad(target)
        /\ x.row = alloc[a] /\ x.target = target
    BY DEF Fresh
  <1>3. TransitionSupported(x)
    BY <1>1, <1>2 DEF TransitionSupported, AfterLoad
  <1>4. Supports(x) /\ ~Owes(x)
    BY <1>1, <1>2, <1>3 DEF Supports, Owes, ReviewOperations, HistoryAction, Begin
  <1> QED
    BY <1>1, <1>4, BeginIsSerial

LEMMA TransitionLoadIsSerial ==
  ASSUME TypeOK, RequestsAreGrounded, Supported, NEW w, Workers = {w}, TransitionLoad(w)
  PROVE  SerialStep
  <1> PICK r : r = req[w]
    OBVIOUS
  <1> PICK x : x = [r EXCEPT !.row = alloc[r.id], !.step = AfterLoad(r.target)]
    OBVIOUS
  <1>1. r # None /\ r.op \in ReviewOperations /\ r.step = "load" /\ UNCHANGED tables
    BY DEF TransitionLoad, At
  <1>2. r \in Request /\ Supports(r) /\ ~Owes(r)
    BY <1>1, SupportedNow DEF Owes
  <1>3. CASE End(w)
    BY <1>1, <1>2, <1>3, EndIsSerial
  <1>4. CASE ~End(w)
    <2>1. /\ Live(alloc, r.id) /\ r.target \in AllowedTransitions[alloc[r.id].status]
          /\ req' = [req EXCEPT ![w] = x]
      BY <1>4 DEF TransitionLoad, Continue
    <2>2. /\ x.step = AfterLoad(r.target) /\ x.op = r.op /\ x.actor = r.actor /\ x.id = r.id
          /\ x.row = alloc[r.id] /\ x.target = r.target
      BY <1>2 DEF Request
    <2>3. ReviewSupported(x) /\ TransitionSupported(x)
      BY <1>1, <1>2, <2>1, <2>2 DEF Supports, ReviewSupported, TransitionSupported, AfterLoad
    <2>4. Supports(x) /\ ~Owes(x)
      BY <1>1, <1>2, <2>2, <2>3 DEF Supports, Owes, ReviewOperations, HistoryAction, AfterLoad
    <2> QED
      BY <1>1, <1>2, <2>1, <2>4, ReadIsSerial
  <1> QED
    BY <1>3, <1>4

-----------------------------------------------------------------------------
(* One request in flight: the steps that write. *)

\* With nothing owed before and after, the life cycle sees the tables themselves.
LEMMA SeenAsIs ==
  ASSUME TypeOK, TypeOK', NEW w, Workers = {w}, ~Owes(req[w]), ~Owes(req'[w])
  PROVE  /\ HistoryDue = history /\ RecordDue = recorded
         /\ HistoryDue' = history' /\ RecordDue' = recorded'
  <1> PICK r : r = req[w]
    OBVIOUS
  <1> PICK x : x = req'[w]
    OBVIOUS
  <1>1. /\ HistoryDue = HistoryWith(history, r) /\ RecordDue = RecordWith(recorded, r)
        /\ HistoryDue' = HistoryWith(history', x) /\ RecordDue' = RecordWith(recorded', x)
    BY DueIs, DueThen
  <1>2. HistoryWith(history, r) = history /\ RecordWith(recorded, r) = recorded
    BY NothingDue DEF TypeOK
  <1>3. HistoryWith(history', x) = history' /\ RecordWith(recorded', x) = recorded'
    BY NothingDue DEF TypeOK
  <1> QED
    BY <1>1, <1>2, <1>3

LEMMA EndsSupported ==
  ASSUME TypeOK, NEW w, Workers = {w}, End(w)
  PROVE  Supported' /\ ~Owes(req'[w])
  BY NobodyOwes DEF Supported, End, Continue, TypeOK

LEMMA CreateInsertIsSerial ==
  ASSUME TypeOK, TypeOK', RequestsAreGrounded, Supported, NEW w, Workers = {w}, CreateInsert(w)
  PROVE  SerialStep
  <1> PICK r : r = req[w]
    OBVIOUS
  <1>1. /\ r # None /\ r.op = "create" /\ r.step = "insert" /\ End(w)
        /\ UNCHANGED <<history, recorded, year, master>>
    BY DEF CreateInsert, At
  <1>2. r \in Request /\ Grounded(r) /\ Supports(r) /\ ~Owes(r) /\ r.op \in Operations
    BY <1>1, SupportedNow DEF Owes
  <1>3. CASE UNCHANGED alloc
    BY <1>1, <1>2, <1>3, EndIsSerial DEF tables
  <1>4. CASE ~UNCHANGED alloc
    <2> PICK y : y = r.row.fiscalYear
      OBVIOUS
    <2>1. PICK n \in 0..Cardinality(Allocations), a \in Allocations :
            /\ IsMaxSequence(alloc, y, n) /\ ~CodeTaken(alloc, y, n + 1) /\ ~Exists(alloc, a)
            /\ alloc' = [alloc EXCEPT ![a] = [r.row EXCEPT !.code = n + 1]]
      BY <1>4 DEF CreateInsert
    <2>2. CreateSupported(r)
      BY <1>1, <1>2 DEF Supports
    <2>3. /\ Role[r.actor] \in WriteRoles
          /\ r.row = NewDraft(y, r.row.refs, r.row.amount, r.actor)
          /\ ReferencesValid(r.row.refs, DOMAIN r.row.refs, master)
          /\ Fits(y, r.row.amount) /\ ~DuplicateExists(alloc, y, r.row.refs, {})
      BY <1>1, <2>2 DEF CreateSupported
    <2>4. /\ r.row \in Row /\ y \in FiscalYears /\ r.row.refs \in References
          /\ r.row.amount \in Amounts /\ r.actor \in Users
      BY <1>1, <1>2 DEF Grounded, Request, Row
    <2>5. HistoryDue' = HistoryDue /\ RecordDue' = RecordDue
      BY <1>1, <1>2, SeenAsIs, EndsSupported
    <2>6. Lifecycle!Create(r.actor, y, r.row.refs, r.row.amount)
      <3>1. Lifecycle!NewDraft(y, r.row.refs, r.row.amount, r.actor) = r.row
        BY <2>3, SameData
      <3>2. /\ "create" \in Operations /\ Role[r.actor] \in Lifecycle!WriteRoles
            /\ Lifecycle!ReferencesValid(r.row.refs, DOMAIN r.row.refs, master)
            /\ Lifecycle!FitsCeiling(y, r.row.amount)
            /\ ~Lifecycle!DuplicateExists(alloc, y, r.row.refs, {})
        BY <1>1, <1>2, <2>3, SameQueries
      <3>3. /\ ~Lifecycle!Exists(alloc, a) /\ Lifecycle!IsMaxSequence(alloc, y, n)
            /\ ~Lifecycle!CodeTaken(alloc, y, n + 1)
        BY <2>1, SameQueries
      <3>4. alloc' = [alloc EXCEPT ![a] =
                        [Lifecycle!NewDraft(y, r.row.refs, r.row.amount, r.actor)
                           EXCEPT !.code = n + 1]]
        BY <2>1, <3>1
      <3>5. Lifecycle!Cardinality(Allocations) = Cardinality(Allocations)
        BY Zenon DEF Lifecycle!Cardinality, Cardinality
      <3> QED
        BY <1>1, <2>5, <3>2, <3>3, <3>4, <3>5 DEF Lifecycle!Create
    <2>7. Lifecycle!Next
      BY <2>4, <2>6, SameQueries DEF Lifecycle!Next
    <2> QED
      BY <1>1, <2>7, EndsSupported DEF SerialStep
  <1> QED
    BY <1>3, <1>4

LEMMA UpdateWriteIsSerial ==
  ASSUME TypeOK, TypeOK', RequestsAreGrounded, Supported, NEW w, Workers = {w}, UpdateWrite(w)
  PROVE  SerialStep
  <1> PICK r : r = req[w]
    OBVIOUS
  <1>1. /\ r # None /\ r.op = "update" /\ r.step = "edit" /\ End(w)
        /\ UNCHANGED <<history, recorded, year, master>>
        /\ alloc' = [alloc EXCEPT ![r.id] = Edited(alloc[r.id], r.changed, r.refs, r.amount)]
    BY DEF UpdateWrite, At
  <1>2. r \in Request /\ Grounded(r) /\ Supports(r) /\ ~Owes(r) /\ r.op \in Operations
    BY <1>1, SupportedNow DEF Owes
  <1>3. UpdateSupported(r)
    BY <1>1, <1>2 DEF Supports
  <1>4. /\ Role[r.actor] \in WriteRoles /\ Live(alloc, r.id) /\ alloc[r.id].status = "Draft"
        /\ r.changed = ChangedReferences(alloc[r.id].refs, r.refs)
        /\ ReferencesValid(r.refs, FieldsToValidate(r.changed), master)
        /\ r.changed # {} => ~DuplicateExists(alloc, alloc[r.id].fiscalYear, r.refs, {r.id})
    BY <1>1, <1>3 DEF UpdateSupported
  <1>5. /\ r.id \in Allocations /\ r.refs \in References /\ r.amount \in Amounts \cup {0}
        /\ r.actor \in Users
    BY <1>1, <1>2 DEF Grounded, Request
  <1>6. HistoryDue' = HistoryDue /\ RecordDue' = RecordDue
    BY <1>1, <1>2, SeenAsIs, EndsSupported
  <1>7. Lifecycle!Update(r.actor, r.id, r.refs, r.amount)
    BY <1>1, <1>2, <1>4, <1>6, SameData, SameQueries DEF Lifecycle!Update
  <1>8. Lifecycle!Next
    BY <1>4, <1>5, <1>7, SameQueries DEF Lifecycle!Next
  <1> QED
    BY <1>1, <1>8, EndsSupported DEF SerialStep

LEMMA DeleteWriteIsSerial ==
  ASSUME TypeOK, TypeOK', RequestsAreGrounded, Supported, NEW w, Workers = {w}, DeleteWrite(w)
  PROVE  SerialStep
  <1> PICK r : r = req[w]
    OBVIOUS
  <1>1. /\ r # None /\ r.op = "delete" /\ End(w)
        /\ UNCHANGED <<history, recorded, year, master>>
        /\ alloc' = [alloc EXCEPT ![r.id] = [@ EXCEPT !.deleted = TRUE]]
    BY DEF DeleteWrite, At
  <1>2. /\ r \in Request /\ Grounded(r) /\ Supports(r) /\ r.op \in Operations
        /\ ~Owes(r)
    BY <1>1, SupportedNow DEF Owes, ReviewOperations, HistoryAction
  <1>3. Role[r.actor] \in WriteRoles /\ Live(alloc, r.id) /\ MayDelete(alloc[r.id], r.actor)
    BY <1>1, <1>2 DEF Supports, DeleteSupported
  <1>4. r.id \in Allocations /\ r.actor \in Users
    BY <1>1, <1>2 DEF Grounded, Request
  <1>5. HistoryDue' = HistoryDue /\ RecordDue' = RecordDue
    BY <1>1, <1>2, SeenAsIs, EndsSupported
  <1>6. Lifecycle!Delete(r.actor, r.id)
    BY <1>1, <1>2, <1>3, <1>5, SameQueries DEF Lifecycle!Delete
  <1>7. Lifecycle!Next
    BY <1>4, <1>6 DEF Lifecycle!Next
  <1> QED
    BY <1>1, <1>7, EndsSupported DEF SerialStep

\* The write of performTransition is the step; what it owes counts as made.
LEMMA ReviewWriteIsSerial ==
  ASSUME TypeOK, TypeOK', RequestsAreGrounded, Supported, NEW w, Workers = {w},
         TransitionWrite(w), req[w].op \in ReviewOperations
  PROVE  SerialStep
  <1> PICK r : r = req[w]
    OBVIOUS
  <1> PICK row : row = Transitioned(alloc[r.id], r.op, r.target, r.actor)
    OBVIOUS
  <1> PICK x : x = [r EXCEPT !.row = row, !.step = "history"]
    OBVIOUS
  <1> PICK e : e = [action |-> HistoryAction[r.op], actor |-> r.actor]
    OBVIOUS
  <1>1. /\ r # None /\ r.op \in ReviewOperations /\ r.step = "transition"
        /\ UNCHANGED <<history, recorded, year, master>>
        /\ alloc' = [alloc EXCEPT ![r.id] = row]
    BY DEF TransitionWrite, At
  <1>2. /\ r \in Request /\ Grounded(r) /\ Supports(r) /\ ~Owes(r) /\ r.op \in Operations
    BY <1>1, SupportedNow DEF Owes
  <1>3. req' = [req EXCEPT ![w] = x] /\ req'[w] = x
    BY <1>1 DEF TransitionWrite, Continue, ReviewOperations, HistoryAction, TypeOK
  <1>4. /\ x.step = "history" /\ x.op = r.op /\ x.id = r.id /\ x.actor = r.actor /\ x.row = row
    BY <1>2 DEF Request
  <1>5. x # None
    <2>1. alloc[r.id] \in Row /\ r.target \in Statuses /\ r.actor \in Users
      BY <1>1, <1>2, TargetsAreStatuses
      DEF Grounded, Request, ReviewOperations, HistoryAction, TypeOK, Exists
    <2>2. row \in Row
      BY <2>1, TransitionedIsRow
    <2>3. x \in Request
      <3>1. "history" \in Steps
        BY DEF Steps
      <3> QED
        BY <1>2, <2>2, <3>1 DEF Request
    <2> QED
      BY <2>3, RequestAssumption
  <1>6. Owes(x)
    BY <1>1, <1>4, <1>5 DEF Owes
  <1>7. Supported'
    <2>1. x.op \in ReviewOperations /\ x.op \notin {"create", "update", "delete", "transition"}
      BY <1>1, <1>4 DEF ReviewOperations, HistoryAction
    <2>2. Supports(x)'
      BY <1>2, <1>4, <1>6, <2>1 DEF Supports
    <2> QED
      BY <1>3, <2>2 DEF Supported
  <1>8. /\ ReviewSupported(r) /\ TransitionSupported(r) /\ r.target = TargetStatus[r.op]
    BY <1>1, <1>2 DEF Supports, Grounded
  <1>9. /\ Role[r.actor] \in RouteRoles[r.op] /\ Live(alloc, r.id)
        /\ MayDecide(r.op, alloc[r.id], r.actor)
        /\ TargetStatus[r.op] \in AllowedTransitions[alloc[r.id].status]
        /\ r.op = "approve" => Fits(alloc[r.id].fiscalYear, alloc[r.id].amount)
    BY <1>1, <1>8 DEF ReviewSupported, TransitionSupported, TargetStatus
  <1>10. r.id \in Allocations /\ r.actor \in Users
    BY <1>1, <1>2 DEF Grounded, Request, ReviewOperations, HistoryAction
  <1>11. HistoryDue = history /\ RecordDue = recorded
    BY <1>2, DueIs, NothingDue DEF TypeOK
  <1>12. HistoryDue' = [history EXCEPT ![r.id] = Append(@, e)]
    <2>1. HistoryDue' = HistoryWith(history, x)
      BY <1>1, <1>3, DueThen
    <2>2. HistoryWith(history, x) =
            [a \in Allocations |-> IF a = r.id THEN Append(history[a], e) ELSE history[a]]
      BY <1>1, <1>4, <1>5 DEF HistoryWith
    <2>3. history \in [Allocations -> Seq(HistoryEntry)]
      BY DEF TypeOK
    <2> QED
      BY <1>10, <2>1, <2>2, <2>3
  <1>13. RecordDue' = IF r.op = "approve" THEN [recorded EXCEPT ![r.id] = row] ELSE recorded
    <2>1. RecordDue' = RecordWith(recorded, x)
      BY <1>1, <1>3, DueThen
    <2>2. RecordWith(recorded, x) =
            [a \in Allocations |-> IF r.op = "approve" /\ a = r.id THEN row ELSE recorded[a]]
      BY <1>4, <1>5 DEF RecordWith
    <2>3. recorded \in [Allocations -> Row \cup {None}]
      BY DEF TypeOK
    <2>4. CASE r.op = "approve"
      BY <1>10, <2>1, <2>2, <2>3, <2>4
    <2>5. CASE r.op # "approve"
      BY <2>1, <2>2, <2>3, <2>5
    <2> QED
      BY <2>4, <2>5
  <1>14. row = Transitioned(alloc[r.id], r.op, TargetStatus[r.op], r.actor)
    BY <1>8
  <1>15. Lifecycle!Decide(r.actor, r.id, r.op)
    BY <1>1, <1>2, <1>9, <1>11, <1>12, <1>13, <1>14, SameData, SameQueries DEF Lifecycle!Decide
  <1>16. Lifecycle!Next
    BY <1>1, <1>9, <1>10, <1>15, SameQueries DEF Lifecycle!Next
  <1> QED
    BY <1>7, <1>16 DEF SerialStep

LEMMA SeamWriteIsSerial ==
  ASSUME TypeOK, TypeOK', RequestsAreGrounded, Supported, NEW w, Workers = {w},
         TransitionWrite(w), req[w].op = "transition"
  PROVE  SerialStep
  <1> PICK r : r = req[w]
    OBVIOUS
  <1>1. /\ r # None /\ r.op = "transition" /\ r.step = "transition" /\ End(w)
        /\ UNCHANGED <<history, recorded, year, master>>
        /\ alloc' = [alloc EXCEPT ![r.id] = Transitioned(alloc[r.id], r.op, r.target, r.actor)]
    BY DEF TransitionWrite, At
  <1>2. r \in Request /\ Grounded(r) /\ Supports(r) /\ ~Owes(r) /\ r.op \in Operations
    BY <1>1, SupportedNow DEF Owes
  <1>3. TransitionSupported(r)
    BY <1>1, <1>2 DEF Supports
  <1>4. /\ Live(alloc, r.id) /\ r.target \in AllowedTransitions[alloc[r.id].status]
        /\ r.target = "Approved" => Fits(alloc[r.id].fiscalYear, alloc[r.id].amount)
    BY <1>1, <1>3 DEF TransitionSupported
  <1>5. r.id \in Allocations /\ r.actor \in Users /\ r.target \in SeamTargets
    BY <1>1, <1>2 DEF Grounded, Request
  <1>6. HistoryDue' = HistoryDue /\ RecordDue' = RecordDue
    BY <1>1, <1>2, SeenAsIs, EndsSupported
  <1>7. Lifecycle!Transition(r.actor, r.id, r.target)
    BY <1>1, <1>2, <1>4, <1>6, SameData, SameQueries DEF Lifecycle!Transition
  <1>8. Lifecycle!Next
    BY <1>5, <1>7 DEF Lifecycle!Next
  <1> QED
    BY <1>1, <1>8, EndsSupported DEF SerialStep

\* The history entry that was owed is made.
LEMMA HistoryWriteIsSerial ==
  ASSUME TypeOK, TypeOK', RequestsAreGrounded, Supported, NEW w, Workers = {w}, HistoryWrite(w)
  PROVE  SerialStep
  <1> PICK r : r = req[w]
    OBVIOUS
  <1> PICK x : x = req'[w]
    OBVIOUS
  <1> PICK e : e = [action |-> HistoryAction[r.op], actor |-> r.actor]
    OBVIOUS
  <1>1. /\ r # None /\ r.op \in ReviewOperations /\ r.step = "history"
        /\ history' = [history EXCEPT ![r.id] = Append(@, e)]
        /\ UNCHANGED <<alloc, recorded, year, master>>
        /\ IF r.target = "Approved" THEN Proceed(w, "ledger") ELSE End(w)
    BY DEF HistoryWrite, At
  <1>2. r \in Request /\ Grounded(r) /\ Supports(r) /\ r.op \in Operations
    BY <1>1, SupportedNow
  <1>3. r.id \in Allocations
    BY <1>1, <1>2 DEF Grounded, Request, ReviewOperations, HistoryAction
  <1>4. r.target = "Approved" <=> r.op = "approve"
    BY <1>1, <1>2 DEF Grounded, TargetStatus, ReviewOperations, HistoryAction
  <1>5. HistoryDue = HistoryWith(history, r)
    BY DueIs
  <1>6. HistoryWith(history, r) = history'
    BY <1>1, <1>3 DEF HistoryWith, TypeOK
  <1>7. /\ x # None => x.step = "ledger" /\ x.op = "approve" /\ x.id = r.id /\ x.row = r.row
        /\ x # None <=> r.op = "approve"
    <2>1. CASE r.op = "approve"
      <3>1. x = [r EXCEPT !.step = "ledger"]
        BY <1>1, <1>4, <2>1 DEF Proceed, Continue, TypeOK
      <3>2. x.step = "ledger" /\ x.op = r.op /\ x.id = r.id /\ x.row = r.row
        BY <1>2, <3>1, AtNextStep
      <3>3. x \in Request
        BY <1>2, <3>1 DEF Request, Steps
      <3>4. x # None
        BY <3>3, RequestAssumption
      <3> QED
        BY <2>1, <3>2, <3>4
    <2>2. CASE r.op # "approve"
      BY <1>1, <1>4, <2>2 DEF End, Continue, TypeOK
    <2> QED
      BY <2>1, <2>2
  <1>8. HistoryDue' = history'
    <2>1. HistoryDue' = HistoryWith(history', x)
      BY DueThen
    <2>2. HistoryWith(history', x) = history'
      BY <1>7 DEF HistoryWith, TypeOK
    <2> QED
      BY <2>1, <2>2
  <1>9. RecordDue' = RecordDue
    <2>1. RecordDue = RecordWith(recorded, r) /\ RecordDue' = RecordWith(recorded, x)
      BY <1>1, DueIs, DueThen
    <2>2. RecordWith(recorded, r) = RecordWith(recorded, x)
      BY <1>1, <1>7 DEF RecordWith
    <2> QED
      BY <2>1, <2>2
  <1>10. UNCHANGED Lifecycle!vars
    BY <1>1, <1>5, <1>6, <1>8, <1>9 DEF Lifecycle!vars
  <1>11. Supported'
    BY <1>2, <1>7 DEF Supported, Supports, Owes, ReviewOperations, HistoryAction
  <1> QED
    BY <1>10, <1>11 DEF SerialStep

\* The ledger record that was owed is made.
LEMMA LedgerRecordIsSerial ==
  ASSUME TypeOK, TypeOK', RequestsAreGrounded, Supported, NEW w, Workers = {w}, LedgerRecord(w)
  PROVE  SerialStep
  <1> PICK r : r = req[w]
    OBVIOUS
  <1>1. /\ r # None /\ r.op = "approve" /\ r.step = "ledger" /\ End(w)
        /\ recorded' = [recorded EXCEPT ![r.id] = r.row]
        /\ UNCHANGED <<alloc, history, year, master>>
    BY DEF LedgerRecord, At
  <1>2. r \in Request /\ Grounded(r)
    BY <1>1, SupportedNow
  <1>3. r.id \in Allocations
    BY <1>1, <1>2 DEF Grounded, Request
  <1>4. HistoryDue = history /\ HistoryDue' = history
    <2>1. HistoryDue = HistoryWith(history, r) /\ HistoryDue' = HistoryWith(history, req'[w])
      BY <1>1, DueIs, DueThen
    <2>2. HistoryWith(history, r) = history
      BY <1>1 DEF HistoryWith, TypeOK
    <2>3. req'[w] = None
      BY <1>1 DEF End, Continue, TypeOK
    <2>4. HistoryWith(history, None) = history
      BY DEF HistoryWith, TypeOK
    <2> QED
      BY <2>1, <2>2, <2>3, <2>4
  <1>5. RecordDue = recorded' /\ RecordDue' = recorded'
    <2>1. RecordDue = RecordWith(recorded, r) /\ RecordDue' = RecordWith(recorded', req'[w])
      BY DueIs, DueThen
    <2>2. RecordWith(recorded, r) = recorded'
      BY <1>1, <1>3 DEF RecordWith, TypeOK
    <2>3. req'[w] = None
      BY <1>1 DEF End, Continue, TypeOK
    <2>4. RecordWith(recorded', None) = recorded'
      BY DEF RecordWith, TypeOK
    <2> QED
      BY <2>1, <2>2, <2>3, <2>4
  <1>6. UNCHANGED Lifecycle!vars
    BY <1>1, <1>4, <1>5 DEF Lifecycle!vars
  <1> QED
    BY <1>1, <1>6, EndsSupported DEF SerialStep

\* The neighbours write between requests.
LEMMA NeighbourIsSerial ==
  ASSUME TypeOK, TypeOK', NEW w, Workers = {w},
         FiscalYearWrite(w) \/ EntityWrite(w) \/ ProgramWrite(w)
  PROVE  SerialStep
  <1>1. req[w] = None /\ req'[w] = None /\ UNCHANGED <<alloc, history, recorded>>
    BY DEF FiscalYearWrite, EntityWrite, ProgramWrite, Neighbour
  <1>2. Supported'
    BY <1>1 DEF Supported
  <1>3. ~Owes(req[w]) /\ ~Owes(req'[w])
    BY <1>1, NobodyOwes
  <1>4. HistoryDue' = HistoryDue /\ RecordDue' = RecordDue
    BY <1>1, <1>3, SeenAsIs
  <1>5. CASE FiscalYearWrite(w)
    <2>1. PICK y \in FiscalYears, row \in FiscalYearRow :
            /\ "fiscalYear" \in Operations /\ year' = [year EXCEPT ![y] = row]
            /\ UNCHANGED master
      BY <1>5 DEF FiscalYearWrite, Neighbour
    <2>2. Lifecycle!ChangeFiscalYear(y, row)
      BY <1>1, <1>4, <2>1 DEF Lifecycle!ChangeFiscalYear
    <2> QED
      BY <1>2, <2>2, SameQueries DEF SerialStep, Lifecycle!Next
  <1>6. CASE EntityWrite(w)
    <2>1. PICK d \in Entities :
            /\ "masterData" \in Operations
            /\ master' = [master EXCEPT !.inactive = SymDiff(@, {d})]
            /\ UNCHANGED year
      BY <1>6 DEF EntityWrite, Neighbour
    <2>2. Lifecycle!ToggleEntity(d)
      BY <1>1, <1>4, <2>1 DEF Lifecycle!ToggleEntity, Lifecycle!SymDiff, SymDiff
    <2> QED
      BY <1>2, <2>2, SameQueries DEF SerialStep, Lifecycle!Next
  <1>7. CASE ProgramWrite(w)
    <2>1. PICK p \in Programs, d \in Departments :
            /\ "programs" \in Operations
            /\ master' = [master EXCEPT !.department[p] = d]
            /\ UNCHANGED year
      BY <1>7 DEF ProgramWrite, Neighbour
    <2>2. Lifecycle!MoveProgram(p, d)
      BY <1>1, <1>4, <2>1 DEF Lifecycle!MoveProgram
    <2> QED
      BY <1>2, <2>2 DEF SerialStep, Lifecycle!Next
  <1> QED
    BY <1>5, <1>6, <1>7

LEMMA EveryStepIsSerial ==
  ASSUME TypeOK, TypeOK', RequestsAreGrounded, Supported, NEW w, Workers = {w}, Step(w), ~Fail(w)
  PROVE  SerialStep
  <1>1. CASE TransitionWrite(w)
    <2>1. req[w].op \in ReviewOperations \/ req[w].op = "transition"
      BY <1>1 DEF TransitionWrite, At
    <2> QED
      BY <1>1, <2>1, ReviewWriteIsSerial, SeamWriteIsSerial
  <1> QED
    BY <1>1, CreateValidateIsSerial, CreateCheckDuplicateIsSerial, CreateInsertIsSerial,
       UpdateLoadIsSerial, UpdateValidateIsSerial, UpdateCheckDuplicateIsSerial,
       UpdateWriteIsSerial, DeleteLoadIsSerial, DeleteWriteIsSerial, ReviewAuthoriseIsSerial,
       SubmitLoadIsSerial, TransitionLoadIsSerial, SeamLoadIsSerial, CeilingYearIsSerial,
       CeilingSumIsSerial, HistoryWriteIsSerial, LedgerRecordIsSerial, NeighbourIsSerial
    DEF Step

LEMMA InitIsSerial ==
  ASSUME Init, NEW w, Workers = {w}
  PROVE  Supported /\ Lifecycle!Init
  <1>1. req[w] = None
    BY DEF Init
  <1>2. Supported
    BY <1>1 DEF Supported
  <1>3. HistoryDue = history /\ RecordDue = recorded
    BY <1>1, DueIs, NothingDue, NobodyOwes, InitIsTyped DEF TypeOK
  <1>4. Lifecycle!Init
    BY <1>3 DEF Init, Lifecycle!Init, Lifecycle!FirstMasterData, FirstMasterData
  <1> QED
    BY <1>2, <1>4

LEMMA IdleKeepsSupport ==
  ASSUME TypeOK, Supported, UNCHANGED vars
  PROVE  Supported'
  <1>1. UNCHANGED <<tables, req>>
    BY DEF vars, tables
  <1> QED
    BY <1>1, TablesKeepSupport DEF Supported, tables, Supports, CreateSupported,
       UpdateSupported, DeleteSupported, ReviewSupported, TransitionSupported, Owes, Fits

LEMMA StepKeepsSupport ==
  ASSUME TypeOK, TypeOK', RequestsAreGrounded, Supported, NEW w, Workers = {w}, [Next]_vars
  PROVE  Supported'
  <1>1. CASE Next /\ Fail(w)
    BY <1>1, EndsSupported DEF Fail
  <1>2. CASE Next /\ ~Fail(w)
    BY <1>2, EveryStepIsSerial DEF Next, SerialStep
  <1> QED
    BY <1>1, <1>2, IdleKeepsSupport

\* One request at a time: what a request has read and checked is still true of
\* the tables at its next step, whatever failed before it.
THEOREM ChecksHoldAlone ==
  ASSUME NEW w, Workers = {w}
  PROVE  Spec => []Supported
  <1>1. Init => Supported
    BY InitIsSerial
  <1>2. TypeOK /\ TypeOK' /\ RequestsAreGrounded /\ Supported /\ [Next]_vars => Supported'
    BY StepKeepsSupport
  <1> QED
    BY <1>1, <1>2, TypesAndGrounds, PTL DEF Spec

\* One request at a time and without faults, the chain of queries the service
\* runs implements the atomic life cycle: the checks made before the awaits
\* still hold at the write, and what a request owes afterwards it delivers.
THEOREM SerialServiceIsLifecycle ==
  ASSUME NEW w, Workers = {w}, Faults = FALSE
  PROVE  Spec => ImplementsLifecycle
  <1>1. Init => Supported /\ Lifecycle!Init
    BY InitIsSerial
  <1>2. TypeOK /\ TypeOK' /\ RequestsAreGrounded /\ Supported /\ [Next]_vars => SerialStep
    <2> SUFFICES ASSUME TypeOK, TypeOK', RequestsAreGrounded, Supported, [Next]_vars
                 PROVE  SerialStep
      OBVIOUS
    <2>1. CASE Next
      BY <2>1, EveryStepIsSerial DEF Next, Fail
    <2>2. CASE UNCHANGED vars
      <3> PICK x : x = req[w]
        OBVIOUS
      <3>1. UNCHANGED <<tables, req>>
        BY <2>2 DEF vars, tables
      <3>2. Supported'
        BY <2>2, IdleKeepsSupport
      <3>3. HistoryDue' = HistoryDue /\ RecordDue' = RecordDue
        BY <3>1, DueIs, DueThen DEF tables
      <3> QED
        BY <3>1, <3>2, <3>3 DEF SerialStep, Lifecycle!vars, tables
    <2> QED
      BY <2>1, <2>2
  <1>3. SerialStep => Supported' /\ [Lifecycle!Next]_(Lifecycle!vars)
    BY DEF SerialStep
  <1> QED
    BY <1>1, <1>2, <1>3, TypesAndGrounds, PTL DEF Spec, ImplementsLifecycle, Lifecycle!Spec

-----------------------------------------------------------------------------
(* The ceiling.  The sums are those of the life cycle. *)

Totals == INSTANCE AllocationLifecycle_proofs WITH history <- HistoryDue, recorded <- RecordDue

LEMMA SameTotals ==
  /\ \A table, y : Totals!CommittedAmount(table, y) = CommittedAmount(table, y)
  /\ \A table, y : Totals!Committed(table, y) = Committed(table, y)
  /\ Totals!Row = Row
  <1>1. \A table, y : Totals!Committed(table, y) = Committed(table, y)
    BY DEF Totals!Committed, Committed, Totals!Live, Live, Totals!Exists, Exists
  <1>2. \A table, y : Totals!CommittedAmount(table, y) = CommittedAmount(table, y)
    BY <1>1, Zenon DEF Totals!CommittedAmount, CommittedAmount, Totals!MapThenSumSet,
       MapThenSumSet, Totals!MapThenFoldSet, MapThenFoldSet
  <1>3. Totals!Row = Row
    BY Zenon DEF Totals!Row, Row, Totals!Statuses, Statuses, Totals!References, References
  <1> QED
    BY <1>1, <1>2, <1>3

LEMMA TotalsApply ==
  ASSUME IsFiniteSet(Allocations)
  PROVE  Totals!DataAssumption /\ Totals!LifecycleAssumption
  <1>1. Totals!DataAssumption
    BY DataAssumption DEF Totals!DataAssumption, Totals!Roles, Roles
  <1>2. Totals!IsFiniteSet(Allocations)
    BY Zenon DEF Totals!IsFiniteSet, IsFiniteSet
  <1> QED
    BY <1>1, <1>2, SameTotals, WorkflowAssumption DEF Totals!LifecycleAssumption

LEMMA ApprovedTotalGrowth ==
  ASSUME IsFiniteSet(Allocations), NEW old \in [Allocations -> Row \cup {None}],
         NEW table \in [Allocations -> Row \cup {None}], NEW a \in Allocations, NEW y,
         \A b \in Allocations \ {a} : table[b] = old[b],
         a \in Committed(old, y) => a \notin Committed(table, y),
         CommittedAmount(table, y) > CommittedAmount(old, y)
  PROVE  /\ a \in Committed(table, y)
         /\ CommittedAmount(table, y) = table[a].amount + CommittedAmount(old, y)
  <1>1. /\ old \in [Allocations -> Totals!Row \cup {None}]
        /\ table \in [Allocations -> Totals!Row \cup {None}]
    BY SameTotals
  <1>2. a \in Totals!Committed(old, y) => a \notin Totals!Committed(table, y)
    BY SameTotals
  <1>3. Totals!CommittedAmount(table, y) > Totals!CommittedAmount(old, y)
    BY SameTotals
  <1>4. Totals!DataAssumption /\ Totals!LifecycleAssumption
    BY TotalsApply
  <1>5. /\ a \in Totals!Committed(table, y)
        /\ Totals!CommittedAmount(table, y) = table[a].amount + Totals!CommittedAmount(old, y)
    BY <1>1, <1>2, <1>3, <1>4, Totals!CommittedGrowth
  <1> QED
    BY <1>5, SameTotals

\* A write that approves nothing but what fits keeps the total within the budget.
LEMMA WriteGrows ==
  ASSUME IsFiniteSet(Allocations), TypeOK, NEW table \in [Allocations -> Row \cup {None}],
         NEW a \in Allocations, NEW y \in FiscalYears,
         \A b \in Allocations \ {a} : table[b] = alloc[b],
         a \in Committed(alloc, y) => a \notin Committed(table, y),
         a \in Committed(table, y) => Fits(y, table[a].amount),
         CommittedAmount(table, y) > CommittedAmount(alloc, y)
  PROVE  CommittedAmount(table, y) <= year[y].budget
  <1>1. alloc \in [Allocations -> Row \cup {None}]
    BY DEF TypeOK
  <1>2. /\ a \in Committed(table, y)
        /\ CommittedAmount(table, y) = table[a].amount + CommittedAmount(alloc, y)
    BY <1>1, ApprovedTotalGrowth
  <1>3. CommittedAmount(alloc, y) \in Nat
    BY <1>1, SameTotals, TotalsApply, Totals!CommittedIsTotal
  <1>4. year[y].budget \in Nat /\ table[a].amount \in Nat
    BY <1>2, DataAssumption DEF TypeOK, FiscalYearRow, Row, Committed, Live, Exists
  <1> QED
    BY <1>2, <1>3, <1>4 DEF Fits

\* Alone, a request that approves has compared the total of now with the budget;
\* the other writes approve nothing, and an approved allocation stays no longer.
LEMMA AloneStepGrows ==
  ASSUME IsFiniteSet(Allocations), TypeOK, TypeOK', RequestsAreGrounded, Supported,
         NEW w, Workers = {w}, [Next]_vars, NEW y \in FiscalYears,
         CommittedAmount(alloc', y) > CommittedAmount(alloc, y)
  PROVE  CommittedAmount(alloc', y) <= year'[y].budget
  <1> PICK r : r = req[w]
    OBVIOUS
  <1> PICK table : table = alloc'
    OBVIOUS
  <1>1. /\ alloc \in [Allocations -> Row \cup {None}]
        /\ table \in [Allocations -> Row \cup {None}]
    BY DEF TypeOK
  <1>2. CASE UNCHANGED alloc
    <2>1. CommittedAmount(alloc, y) \in Nat
      BY <1>1, SameTotals, TotalsApply, Totals!CommittedIsTotal
    <2> QED
      BY <1>2, <2>1
  <1>3. ASSUME NEW a \in Allocations, NEW new, alloc' = [alloc EXCEPT ![a] = new], UNCHANGED year,
               a \in Committed(alloc, y) => new.deleted \/ new.status # "Approved",
               ~new.deleted /\ new.status = "Approved" => Fits(new.fiscalYear, new.amount)
        PROVE  CommittedAmount(alloc', y) <= year'[y].budget
    <2>1. table[a] = new /\ \A b \in Allocations \ {a} : table[b] = alloc[b]
      BY <1>1, <1>3
    <2>2. a \in Committed(alloc, y) => a \notin Committed(table, y)
      BY <1>3, <2>1 DEF Committed, Live
    <2>3. a \in Committed(table, y) => Fits(y, table[a].amount)
      BY <1>3, <2>1 DEF Committed, Live
    <2>4. CommittedAmount(table, y) > CommittedAmount(alloc, y)
      OBVIOUS
    <2>5. CommittedAmount(table, y) <= year[y].budget
      BY <1>1, <2>1, <2>2, <2>3, <2>4, WriteGrows
    <2> QED
      BY <1>3, <2>5
  <1>4. CASE r # None /\ CreateInsert(w)
    <2>1. r \in Request /\ Grounded(r) /\ r.op = "create" /\ UNCHANGED year
      BY <1>4, SupportedNow DEF CreateInsert, At
    <2>2. r.row \in Row /\ r.row.status = "Draft"
      BY <2>1 DEF Grounded, Request
    <2>3. CASE ~UNCHANGED alloc
      <3>1. PICK n \in 0..Cardinality(Allocations), a \in Allocations :
              ~Exists(alloc, a) /\ alloc' = [alloc EXCEPT ![a] = [r.row EXCEPT !.code = n + 1]]
        BY <1>4, <2>3 DEF CreateInsert
      <3> PICK new : new = [r.row EXCEPT !.code = n + 1]
        OBVIOUS
      <3>2. new.status = "Draft"
        BY <2>2 DEF Row
      <3> QED
        BY <1>3, <2>1, <3>1, <3>2
    <2> QED
      BY <1>2, <2>3
  <1>5. CASE r # None /\ UpdateWrite(w)
    <2>1. r \in Request /\ Grounded(r) /\ Supports(r) /\ r.op = "update" /\ UNCHANGED year
      BY <1>5, SupportedNow DEF UpdateWrite, At
    <2>2. alloc[r.id].status = "Draft" /\ alloc[r.id] \in Row /\ r.id \in Allocations
      BY <1>1, <2>1 DEF Supports, UpdateSupported, Grounded, Request, Exists
    <2> PICK new : new = Edited(alloc[r.id], r.changed, r.refs, r.amount)
      OBVIOUS
    <2>3. new.status = "Draft"
      BY <2>2 DEF Edited, Row
    <2>4. alloc' = [alloc EXCEPT ![r.id] = new]
      BY <1>5 DEF UpdateWrite
    <2> QED
      BY <1>3, <2>1, <2>2, <2>3, <2>4
  <1>6. CASE r # None /\ DeleteWrite(w)
    <2>1. r \in Request /\ Grounded(r) /\ r.op = "delete" /\ UNCHANGED year
      BY <1>6, SupportedNow DEF DeleteWrite, At
    <2>2. alloc[r.id] \in Row /\ r.id \in Allocations
      BY <1>1, <2>1 DEF Grounded, Request, Exists
    <2> PICK new : new = [alloc[r.id] EXCEPT !.deleted = TRUE]
      OBVIOUS
    <2>3. new.deleted
      BY <2>2 DEF Row
    <2>4. alloc' = [alloc EXCEPT ![r.id] = new]
      BY <1>6 DEF DeleteWrite
    <2> QED
      BY <1>3, <2>1, <2>2, <2>3, <2>4
  <1>7. CASE r # None /\ TransitionWrite(w)
    <2>1. /\ r \in Request /\ Grounded(r) /\ Supports(r)
          /\ r.op \in ReviewOperations \cup {"transition"} /\ r.step = "transition"
          /\ UNCHANGED year
      BY <1>7, SupportedNow DEF TransitionWrite, At
    <2>2. r.op # "create" /\ r.op # "update"
      BY <2>1 DEF ReviewOperations, HistoryAction
    <2>3. TransitionSupported(r)
      BY <2>1 DEF Supports, Owes
    <2>4. /\ alloc[r.id] \in Row /\ r.id \in Allocations
          /\ r.target \in AllowedTransitions[alloc[r.id].status]
          /\ r.target = "Approved" => Fits(alloc[r.id].fiscalYear, alloc[r.id].amount)
      BY <1>1, <2>1, <2>2, <2>3 DEF Grounded, Request, Exists, TransitionSupported
    <2> PICK new : new = Transitioned(alloc[r.id], r.op, r.target, r.actor)
      OBVIOUS
    <2>5. /\ new.status = r.target
          /\ new.fiscalYear = alloc[r.id].fiscalYear /\ new.amount = alloc[r.id].amount
      BY <2>4 DEF Transitioned, Row
    <2>6. alloc' = [alloc EXCEPT ![r.id] = new]
      BY <1>7 DEF TransitionWrite
    <2>7. alloc[r.id].status = "Approved" => r.target # "Approved"
      BY <2>4 DEF AllowedTransitions, Statuses
    <2> QED
      BY <1>3, <2>1, <2>4, <2>5, <2>6, <2>7 DEF Committed
  <1>8. \/ UNCHANGED alloc
        \/ r # None /\ (CreateInsert(w) \/ UpdateWrite(w) \/ DeleteWrite(w) \/ TransitionWrite(w))
    <2>1. CASE Next
      <3>1. w \in Workers /\ Step(w)
        BY <2>1 DEF Next
      <3>2. CASE HistoryWrite(w)
        BY <3>2 DEF HistoryWrite
      <3> QED
        BY <3>1, <3>2, OnlyWritesWrite DEF CreateInsert, UpdateWrite, DeleteWrite, TransitionWrite, At
    <2>2. CASE UNCHANGED vars
      BY <2>2 DEF vars, tables
    <2> QED
      BY <2>1, <2>2
  <1> QED
    BY <1>2, <1>4, <1>5, <1>6, <1>7, <1>8

\* The ceiling is broken only by requests that overlap: taken one at a time,
\* and whatever fails, the approved total grows only within the budget.
THEOREM AloneWithinBudget ==
  ASSUME NEW w, Workers = {w}, IsFiniteSet(Allocations)
  PROVE  Spec => GrowsWithinBudget
  <1>1. TypeOK /\ TypeOK' /\ RequestsAreGrounded /\ Supported /\ [Next]_vars =>
          [\A y \in FiscalYears :
             CommittedAmount(alloc', y) > CommittedAmount(alloc, y)
               => CommittedAmount(alloc', y) <= year'[y].budget]_vars
    BY AloneStepGrows
  <1> QED
    BY <1>1, TypesAndGrounds, ChecksHoldAlone, PTL DEF Spec, GrowsWithinBudget
=============================================================================
