------------------------------ MODULE Anchoring ------------------------------
(***************************************************************************)
(* Anchoring allocations on the BudgetLedger contract: blockchainService,  *)
(* blockchainRepository, blockchainScheduler and config/blockchain.        *)
(*                                                                         *)
(* A job is one call of recordAllocation (from an approval) or retryRecord *)
(* (from the retry route or the scheduler's pass).  An action is one       *)
(* awaited database or ledger call with the code up to the next await.     *)
(* Allocations change under the jobs' feet, the node comes and goes,       *)
(* queries fail and the process may die.                                   *)
(***************************************************************************)
EXTENDS Naturals, FiniteSets

CONSTANTS
  Allocations,  \* the allocations
  Jobs,         \* HTTP requests in flight that anchor something
  Scheduler,    \* the job the background scheduler runs
  MaxVersion,   \* bound on the number of times the content of a row changes
  MaxRequests,  \* bound on the number of approvals and retry requests
  MaxFaults,    \* bound on failed queries, refused transactions and crashes
  None          \* no row, no job, no pass in progress

ASSUME AnchoringAssumption ==
  /\ Scheduler \notin Jobs
  /\ MaxVersion \in Nat
  /\ MaxRequests \in Nat
  /\ MaxFaults \in Nat

VARIABLES
  row,      \* budget_allocations: the version of its content, approved, deleted
  record,   \* blockchain_records by contentHash, which is unique
  chain,    \* the contents BudgetLedger holds
  orphans,  \* contents of broadcast transactions that nobody waits for
  node,     \* the RPC node
  job,      \* what each job is doing, None when there is none
  pass,     \* allocations left in the scheduler's pass, None between passes
  requests, \* number of requests so far, for the bound only
  faults    \* number of faults so far, for the bound only

vars == <<row, record, chain, orphans, node, job, pass, requests, faults>>

Workers == Jobs \cup {Scheduler}

(* computeAllocationContentHash: every write to the row that changes its   *)
(* amount, references, status or workflow timestamps changes the hash, so  *)
(* a content is the allocation and how often it was rewritten.             *)
Contents == Allocations \X (0..MaxVersion)

Row == [version: 0..MaxVersion, approved: BOOLEAN, deleted: BOOLEAN]

\* tx: the record has a txHash.  current: supersededAt is null.
RecordRow ==
  [status: {"Pending", "Failed", "Confirmed"}, tx: BOOLEAN, current: BOOLEAN]

ASSUME NoneAssumption == None \notin RecordRow

DatabaseSteps == {"lookup", "load", "current", "create", "update"}

LedgerSteps == {"verify", "submit", "wait"}

(* mode is what the job does with the outcome: create the allocation's     *)
(* current record (recordAllocation) or update the record it found         *)
(* (retryRecord).  status is the outcome; tx the transaction it sent.      *)
Job ==
  [step: DatabaseSteps \cup LedgerSteps, mode: {"create", "update"},
   content: Contents, status: {"Pending", "Failed", "Confirmed"},
   tx: {"none", "sent", "mined", "reverted", "dropped"}]

TypeOK ==
  /\ row \in [Allocations -> Row]
  /\ record \in [Contents -> RecordRow \cup {None}]
  /\ chain \in SUBSET Contents
  /\ orphans \in SUBSET Contents
  /\ node \in {"unconfigured", "down", "up"}
  /\ job \in [Workers -> Job \cup {None}]
  /\ pass \in (SUBSET Allocations) \cup {None}
  /\ requests \in 0..MaxRequests
  /\ faults \in 0..MaxFaults

Init ==
  /\ row = [a \in Allocations |-> [version |-> 0, approved |-> FALSE, deleted |-> FALSE]]
  /\ record = [c \in Contents |-> None]
  /\ chain = {}
  /\ orphans = {}
  /\ node \in {"unconfigured", "down", "up"}
  /\ job = [w \in Workers |-> None]
  /\ pass = None
  /\ requests = 0
  /\ faults = 0

-----------------------------------------------------------------------------
(* Queries on blockchain_records. *)

Content(a) == <<a, row[a].version>>

Unconfirmed(c) == record[c] # None /\ record[c].status # "Confirmed"

\* findByAllocationId: the records of an allocation that are not superseded.
CurrentContents(a) ==
  {c \in Contents : c[1] = a /\ record[c] # None /\ record[c].current}

\* Mutation: the scheduler fetches the Pending records only.
PendingAllocations ==
  {a \in Allocations : \E c \in CurrentContents(a) : record[c].status = "Pending"}

\* verifyAllocation, its local part: the current record is that of the row.
\* Where it is false the answer is "possible tampering".
IntegrityOk(a) == \A c \in CurrentContents(a) : c = Content(a)

\* findUnconfirmed: the allocations with a live Pending or Failed record.
UnconfirmedAllocations ==
  {a \in Allocations : \E c \in CurrentContents(a) : Unconfirmed(c)}

-----------------------------------------------------------------------------
(* The life of a job. *)

Idle(w) == job[w] = None

At(w, step) == job[w] # None /\ job[w].step = step

Begin(w, j) ==
  /\ Idle(w)
  /\ requests < MaxRequests
  /\ requests' = requests + 1
  /\ job' = [job EXCEPT ![w] = j]

Goto(w, j) == job' = [job EXCEPT ![w] = j]

Proceed(w, step) == Goto(w, [job[w] EXCEPT !.step = step])

End(w) == Goto(w, None)

Start(step, c) ==
  [step |-> step, mode |-> "create", content |-> c, status |-> "Pending", tx |-> "none"]

\* What verify or record returned, on its way into the database.
Outcome(w, status) ==
  Goto(w, [job[w] EXCEPT !.step = job[w].mode, !.status = status])

\* Mutation: retryRecord marks the record it could not anchor as Failed.
FailureAlwaysWritten(w) ==
  Goto(w, [job[w] EXCEPT !.step = job[w].mode, !.status = "Failed", !.tx = "none"])

\* Mutation: the status the node gave the transaction is stored as it is.
FailureNodeStatus(w) ==
  IF job[w].mode = "create"
  THEN Goto(w, [job[w] EXCEPT !.step = "create", !.status = "Reverted", !.tx = "none"])
  ELSE End(w)

(* The catch blocks: recordAllocation persists a Failed record, while      *)
(* retryRecord leaves the record as it is and rejects.                     *)
Failure(w) ==
  IF job[w].mode = "create"
  THEN Goto(w, [job[w] EXCEPT !.step = "create", !.status = "Failed", !.tx = "none"])
  ELSE End(w)

Fault == faults < MaxFaults /\ faults' = faults + 1

-----------------------------------------------------------------------------
(* Allocations change: the service's writes, one commit each. *)

Rewritten(r, approved) == [r EXCEPT !.version = @ + 1, !.approved = approved]

\* performTransition commits the approval, then awaits recordAllocation with
\* the row the UPDATE returned.
Approve(w, a) ==
  /\ row[a].version < MaxVersion
  /\ row' = [row EXCEPT ![a] = Rewritten(@, TRUE)]
  /\ Begin(w, Start("lookup", <<a, row[a].version + 1>>))
  /\ UNCHANGED <<record, chain, orphans, node, pass, faults>>

\* Any other write to the row: an edit, a submission, a rejection, a return.
Revise(a) ==
  /\ row[a].version < MaxVersion
  /\ row' = [row EXCEPT ![a] = Rewritten(@, FALSE)]
  /\ UNCHANGED <<record, chain, orphans, node, job, pass, requests, faults>>

Delete(a) ==
  /\ ~row[a].deleted
  /\ row' = [row EXCEPT ![a].deleted = TRUE]
  /\ UNCHANGED <<record, chain, orphans, node, job, pass, requests, faults>>

-----------------------------------------------------------------------------
(* recordAllocation and retryRecord. *)

\* POST /blockchain/allocations/:id/retry, whatever the allocation's status.
Retry(w, a) ==
  /\ Begin(w, Start("load", Content(a)))
  /\ UNCHANGED <<row, record, chain, orphans, node, pass, faults>>

\* recordAllocation: findByContentHash, then what the record found calls for.
Lookup(w) ==
  /\ At(w, "lookup")
  /\ LET c == job[w].content IN
     \/ /\ record[c] # None
        /\ IF Unconfirmed(c) THEN Goto(w, Start("load", c)) ELSE End(w)
     \/ /\ record[c] = None
        /\ Proceed(w, IF node = "unconfigured" THEN "create" ELSE "verify")
  /\ UNCHANGED <<row, record, chain, orphans, node, pass, requests, faults>>

\* retryRecord: the allocation must be live; a missing one is a 404.
Load(w) ==
  /\ At(w, "load")
  /\ LET a == job[w].content[1] IN
     IF row[a].deleted
     THEN End(w)
     ELSE Goto(w, Start("current", Content(a)))
  /\ UNCHANGED <<row, record, chain, orphans, node, pass, requests, faults>>

\* Mutation: a record that is not done is handed back to recordAllocation.
CurrentHandsBack(w) ==
  LET found == CurrentContents(job[w].content[1]) IN
  /\ At(w, "current")
  /\ \/ /\ found = {}
        /\ Proceed(w, "lookup")
     \/ \E c \in found :
          IF (~Unconfirmed(c) /\ record[c].tx) \/ node = "unconfigured"
          THEN End(w)
          ELSE Goto(w, Start("lookup", c))
  /\ UNCHANGED <<row, record, chain, orphans, node, pass, requests, faults>>

\* retryRecord: without a current record, record the allocation just read;
\* with one, anchor that record's content unless it is done.
Current(w) ==
  LET found == CurrentContents(job[w].content[1]) IN
  /\ At(w, "current")
  /\ \/ /\ found = {}
        /\ Proceed(w, "lookup")
     \/ \E c \in found :
          IF (~Unconfirmed(c) /\ record[c].tx) \/ node = "unconfigured"
          THEN End(w)
          ELSE Goto(w, [job[w] EXCEPT !.step = "verify", !.mode = "update", !.content = c])
  /\ UNCHANGED <<row, record, chain, orphans, node, pass, requests, faults>>

\* anchorUnlessExists: a content already on the ledger is Confirmed without a
\* transaction; when the node does not answer, the content is submitted anyway.
Verify(w) ==
  /\ At(w, "verify")
  /\ IF node = "up" /\ job[w].content \in chain
     THEN Outcome(w, "Confirmed")
     ELSE Proceed(w, "submit")
  /\ UNCHANGED <<row, record, chain, orphans, node, pass, requests, faults>>

\* Mutation: the job goes on when the transaction is sent, without tx.wait().
SubmitWithoutWait(w) ==
  /\ At(w, "submit")
  /\ IF node = "up" /\ job[w].content \notin chain
     THEN Goto(w, [job[w] EXCEPT !.step = job[w].mode, !.status = "Confirmed", !.tx = "sent"])
     ELSE Failure(w)
  /\ UNCHANGED <<row, record, chain, orphans, node, pass, requests, faults>>

\* contract.record: gas estimation fails for a content the contract holds,
\* and any call fails while the node is down.
Submit(w) ==
  /\ At(w, "submit")
  /\ IF node = "up" /\ job[w].content \notin chain
     THEN Goto(w, [job[w] EXCEPT !.step = "wait", !.tx = "sent"])
     ELSE Failure(w)
  /\ UNCHANGED <<row, record, chain, orphans, node, pass, requests, faults>>

\* tx.wait() returns the receipt, and throws if the transaction reverted.
Receipt(w) ==
  /\ At(w, "wait")
  /\ node = "up"
  /\ \/ job[w].tx = "mined" /\ Outcome(w, "Confirmed")
     \/ job[w].tx = "reverted" /\ Failure(w)
  /\ UNCHANGED <<row, record, chain, orphans, node, pass, requests, faults>>

\* Mutation: the previous records are not superseded.
CreateBeside(w) ==
  LET j == job[w] IN
  /\ At(w, "create")
  /\ record' = IF record[j.content] # None THEN record
               ELSE [record EXCEPT ![j.content] =
                       [status |-> j.status, tx |-> j.tx = "mined", current |-> TRUE]]
  /\ End(w)
  /\ UNCHANGED <<row, chain, orphans, node, pass, requests, faults>>

(* createCurrent, one transaction: supersede the allocation's live records *)
(* and insert the new one.  A content that has a record by now violates    *)
(* the unique index and rolls the transaction back; the error is logged.   *)
CreateCurrent(w) ==
  LET j == job[w] IN
  /\ At(w, "create")
  /\ IF record[j.content] # None
     THEN UNCHANGED record
     ELSE record' =
            [c \in Contents |->
               CASE c = j.content ->
                      [status |-> j.status, tx |-> j.tx = "mined", current |-> TRUE]
                 [] c \in CurrentContents(j.content[1]) \ {j.content} ->
                      [record[c] EXCEPT !.current = FALSE]
                 [] OTHER -> record[c]]
  /\ End(w)
  /\ UNCHANGED <<row, chain, orphans, node, pass, requests, faults>>

\* update by id, superseded in the meantime or not.
UpdateRecord(w) ==
  LET j == job[w] IN
  /\ At(w, "update")
  /\ record' = [record EXCEPT ![j.content] =
                  [@ EXCEPT !.status = j.status, !.tx = (j.tx = "mined")]]
  /\ End(w)
  /\ UNCHANGED <<row, chain, orphans, node, pass, requests, faults>>

-----------------------------------------------------------------------------
(* The scheduler's pass: isProcessing is pass # None.                      *)

Tick ==
  /\ pass = None
  /\ node # "unconfigured"
  /\ pass' = UnconfirmedAllocations
  /\ UNCHANGED <<row, record, chain, orphans, node, job, requests, faults>>

NextRecord ==
  /\ pass # None
  /\ Idle(Scheduler)
  /\ \E a \in pass :
       /\ pass' = pass \ {a}
       /\ Goto(Scheduler, Start("load", Content(a)))
  /\ UNCHANGED <<row, record, chain, orphans, node, requests, faults>>

\* The finally block.
EndPass ==
  /\ pass = {}
  /\ Idle(Scheduler)
  /\ pass' = None
  /\ UNCHANGED <<row, record, chain, orphans, node, job, requests, faults>>

-----------------------------------------------------------------------------
(* The node: blocks, outages, transactions that get lost.                  *)

\* BudgetLedger.record in a block: it reverts for a content already there.
Mine(w) ==
  LET c == job[w].content IN
  /\ node = "up"
  /\ At(w, "wait")
  /\ job[w].tx = "sent"
  /\ Goto(w, [job[w] EXCEPT !.tx = IF c \in chain THEN "reverted" ELSE "mined"])
  /\ chain' = chain \cup {c}
  /\ UNCHANGED <<row, record, orphans, node, pass, requests, faults>>

MineOrphan ==
  /\ node = "up"
  /\ \E c \in orphans : chain' = chain \cup {c} /\ orphans' = orphans \ {c}
  /\ UNCHANGED <<row, record, node, job, pass, requests, faults>>

\* tx.wait() may throw while the node does not answer; the transaction stays.
LoseReceipt(w) ==
  /\ node = "down"
  /\ At(w, "wait")
  /\ Failure(w)
  /\ orphans' = IF job[w].tx = "sent" THEN orphans \cup {job[w].content} ELSE orphans
  /\ UNCHANGED <<row, record, chain, node, pass, requests, faults>>

\* No signer, no funds, or a nonce another job's transaction took.
RejectTransaction(w) ==
  /\ Fault
  /\ At(w, "submit")
  /\ Failure(w)
  /\ UNCHANGED <<row, record, chain, orphans, node, pass, requests>>

\* The node forgets a transaction; tx.wait() has no timeout.
Drop(w) ==
  /\ Fault
  /\ At(w, "wait")
  /\ job[w].tx = "sent"
  /\ Goto(w, [job[w] EXCEPT !.tx = "dropped"])
  /\ UNCHANGED <<row, record, chain, orphans, node, pass, requests>>

NodeUp == node # "up" /\ node' = "up"

NodeDown == node = "up" /\ node' = "down"

Outage ==
  /\ NodeUp \/ NodeDown
  /\ UNCHANGED <<row, record, chain, orphans, job, pass, requests, faults>>

-----------------------------------------------------------------------------
(* The process. *)

\* A query throws: the request answers 500, or the pass goes to its next record.
Fail(w) ==
  /\ Fault
  /\ job[w] # None
  /\ job[w].step \in DatabaseSteps
  /\ End(w)
  /\ UNCHANGED <<row, record, chain, orphans, node, pass, requests>>

\* The process dies and is started again; what it sent may still be mined.
Crash ==
  /\ Fault
  /\ job' = [w \in Workers |-> None]
  /\ pass' = None
  /\ orphans' = orphans \cup
       {job[w].content : w \in {v \in Workers : At(v, "wait") /\ job[v].tx = "sent"}}
  /\ UNCHANGED <<row, record, chain, node, requests>>

Step(w) ==
  \/ Lookup(w) \/ Load(w) \/ Current(w)
  \/ Verify(w) \/ Submit(w) \/ Receipt(w)
  \/ CreateCurrent(w) \/ UpdateRecord(w)

Next ==
  \/ \E w \in Jobs, a \in Allocations : Approve(w, a) \/ Retry(w, a)
  \/ \E a \in Allocations : Revise(a) \/ Delete(a)
  \/ \E w \in Workers :
       Step(w) \/ Mine(w) \/ LoseReceipt(w) \/ RejectTransaction(w) \/ Drop(w) \/ Fail(w)
  \/ Tick \/ NextRecord \/ EndPass
  \/ MineOrphan \/ Outage \/ Crash

Spec == Init /\ [][Next]_vars

(* An await returns, the interval timer fires again and again, and a node  *)
(* that is up puts a transaction it keeps into a block.                    *)
Fairness ==
  /\ \A w \in Workers : WF_vars(Step(w)) /\ WF_vars(Mine(w))
  /\ WF_vars(Tick) /\ WF_vars(NextRecord) /\ WF_vars(EndPass)

FairSpec == Spec /\ Fairness

-----------------------------------------------------------------------------
(* Properties. *)

(* What is in flight is true: a job that confirms has its content on the   *)
(* ledger, one that updates has a record to update and success to report,  *)
(* and whatever the order of its awaits a job holds a transaction only     *)
(* after sending it.  The scheduler only ever retries: between its query   *)
(* and its turn another job may supersede a record but never leave an      *)
(* allocation without one, so a pass never records what nobody asked for.  *)
Grounded(w, j) ==
  /\ j.step \in {"create", "update"} => j.mode = j.step
  /\ j.step \in {"lookup", "load", "current"} => j.mode = "create" /\ j.status = "Pending"
  /\ j.step = "update" => j.status = "Confirmed"
  /\ j.step \in {"create", "update"} /\ j.status = "Confirmed" => j.content \in chain
  /\ j.mode = "update" => record[j.content] # None
  /\ j.tx # "none" => j.step \in {"wait", "create", "update"}
  /\ j.tx = "mined" => j.content \in chain
  /\ w = Scheduler =>
       \/ j.mode = "update"
       \/ j.step \in {"load", "current"} /\ CurrentContents(j.content[1]) # {}

JobsAreGrounded ==
  /\ \A w \in Workers : job[w] # None => Grounded(w, job[w])
  /\ pass # None => \A a \in pass : CurrentContents(a) # {}

(* Repeated approvals "never accumulate stale duplicate records": an       *)
(* allocation that was ever recorded has exactly one live record, whatever *)
(* mix of approvals, retries and passes recorded it.                       *)
OneCurrentRecord ==
  \A c \in Contents :
    record[c] # None => Cardinality(CurrentContents(c[1])) = 1

(* The promise of AnchorLedger, with the statuses of the records standing  *)
(* for what the database reports: a Confirmed record is on the ledger, a   *)
(* receipt lost or a retry that fails never takes a confirmation back.     *)
Ledger == INSTANCE AnchorLedger WITH
  confirmed <- {c \in Contents : record[c] # None /\ record[c].status = "Confirmed"}

ImplementsLedger == Ledger!Spec

NodeRecovers == <>[](node = "up")

\* The scheduler waits for a transaction the node has forgotten.
Hung(w) == At(w, "wait") /\ job[w].tx = "dropped"

(* Eventual consistency: once the node stays up, every Pending or Failed   *)
(* record is confirmed or superseded by the scheduler's passes, unless its *)
(* allocation is deleted (a retry answers 404) or the scheduler's one      *)
(* transaction was dropped, which tx.wait() never reports.                 *)
EventuallyConfirmed ==
  NodeRecovers =>
    \A c \in Contents :
      (Unconfirmed(c) /\ record[c].current)
        ~> \/ ~Unconfirmed(c) \/ ~record[c].current
           \/ row[c[1]].deleted \/ Hung(Scheduler)

(* recordAllocation and retryRecord call each other, and both await the    *)
(* ledger inside an HTTP request: once the node stays up every job ends,   *)
(* except one whose transaction was dropped.                               *)
JobsEnd ==
  NodeRecovers => \A w \in Workers : (job[w] # None) ~> (Idle(w) \/ Hung(w))

(* What the code's documentation claims and the runs anchoring_stale_record *)
(* and anchoring_lost_record refute.                                        *)

(* A record that no longer matches its allocation "signals tampering":     *)
(* nobody tampers here, so whenever no job is in flight the current record *)
(* of an approved allocation is that of its content.  A retry that read    *)
(* the row before the approval and creates its record after it breaks it.  *)
MismatchMeansTampering ==
  (\A w \in Workers : Idle(w)) =>
    \A a \in Allocations : row[a].approved /\ ~row[a].deleted => IntegrityOk(a)

(* A content mined while its database write was lost is recovered by the   *)
(* next retry pass: an approved content on the ledger is eventually in a   *)
(* record.  The pass only knows records, so an approval whose createCurrent *)
(* failed is never looked at again.                                        *)
AnchoredIsMirrored ==
  NodeRecovers =>
    \A a \in Allocations :
      (row[a].approved /\ ~row[a].deleted /\ Content(a) \in chain)
        ~> (record[Content(a)] # None \/ ~row[a].approved \/ row[a].deleted)
=============================================================================
