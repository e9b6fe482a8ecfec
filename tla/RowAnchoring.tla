---------------------------- MODULE RowAnchoring ----------------------------
(***************************************************************************)
(* Anchoring rows that carry their own anchor columns: document versions   *)
(* on the BudgetLedger contract (documentBlockchainService) and audit log  *)
(* entries on the AuditLedger contract (auditPersistence and               *)
(* auditEventBlockchainService), with the scheduler's pass over both.      *)
(*                                                                         *)
(* Unlike the records of Anchoring, a row exists before it is anchored,    *)
(* and the first attempt (anchorVersion, anchorEvent) writes Failed over   *)
(* whatever is there, while a retry that fails writes nothing.             *)
(***************************************************************************)
EXTENDS Naturals, FiniteSets

CONSTANTS
  Versions,     \* document versions, which are unique by their content hash
  MaxEntries,   \* bound on the audit entries that are logged
  Jobs,         \* HTTP requests in flight that anchor a row
  Scheduler,    \* the job the background scheduler runs
  Batch,        \* how many audit entries one pass fetches
  MaxInputs,    \* bound on requests, events, outages and other faults
  None          \* no row, no call, no pass in progress

\* Entries are numbered in the order of their timestamps.
Entries == 1..MaxEntries

Rows == Versions \cup Entries

\* persistAuditEntry runs as a task of its own, one for each entry.
Workers == Jobs \cup Entries \cup {Scheduler}

ASSUME RowAnchoringAssumption ==
  /\ MaxEntries \in Nat
  /\ Batch \in Nat \ {0}
  /\ MaxInputs \in Nat
  /\ Jobs \cap Entries = {}
  /\ Versions \cap Entries = {}
  /\ Scheduler \notin Jobs \cup Entries

VARIABLES
  anchor,   \* the anchor columns of document_versions and audit_logs
  chain,    \* the rows whose hash a ledger contract holds
  orphans,  \* rows of broadcast transactions that nobody waits for
  node,     \* the RPC node, which both contracts share
  call,     \* what each worker is doing, None when it does nothing
  pass,     \* rows left in the scheduler's pass, None between passes
  inputs    \* number of inputs so far, for the bound only

vars == <<anchor, chain, orphans, node, call, pass, inputs>>

\* tx: the row has a txHash.
AnchorColumns == [status: {"Pending", "Failed", "Confirmed"}, tx: BOOLEAN]

\* mode tells the first attempt from a retry, whose catch blocks differ.
Call ==
  [step: {"verify", "submit", "wait", "confirm", "mark"},
   mode: {"anchor", "retry"}, row: Rows,
   tx: {"none", "sent", "mined", "reverted", "dropped"}]

ASSUME NoneAssumption == None \notin AnchorColumns /\ None \notin Call

TypeOK ==
  /\ anchor \in [Rows -> AnchorColumns \cup {None}]
  /\ chain \in SUBSET Rows
  /\ orphans \in SUBSET Rows
  /\ node \in {"unconfigured", "down", "up"}
  /\ call \in [Workers -> Call \cup {None}]
  /\ pass \in (SUBSET Rows) \cup {None}
  /\ inputs \in 0..MaxInputs

Init ==
  /\ anchor = [r \in Rows |-> None]
  /\ chain = {}
  /\ orphans = {}
  /\ node \in {"unconfigured", "down", "up"}
  /\ call = [w \in Workers |-> None]
  /\ pass = None
  /\ inputs = 0

-----------------------------------------------------------------------------
(* Queries. *)

Has(r, status) == anchor[r] # None /\ anchor[r].status = status

\* Mutation: versions are fetched like entries, Pending ones only.
PendingVersions == {v \in Versions : Has(v, "Pending")}

\* findUnconfirmedVersions, of live and archived documents alike.
UnconfirmedVersions == {v \in Versions : Has(v, "Pending") \/ Has(v, "Failed")}

PendingEntries == {e \in Entries : Has(e, "Pending")}

\* Mutation: the limit is applied before the filter.
OldestEntries ==
  {e \in PendingEntries : Cardinality({d \in Entries : anchor[d] # None /\ d < e}) < Batch}

\* auditLogRepository.findUnconfirmed: Pending entries only, oldest first.
FetchedEntries ==
  {e \in PendingEntries : Cardinality({d \in PendingEntries : d < e}) < Batch}

-----------------------------------------------------------------------------
(* The life of a call. *)

Idle(w) == call[w] = None

At(w, step) == call[w] # None /\ call[w].step = step

Goto(w, c) == call' = [call EXCEPT ![w] = c]

Proceed(w, step) == Goto(w, [call[w] EXCEPT !.step = step])

End(w) == Goto(w, None)

Start(mode, r) == [step |-> "verify", mode |-> mode, row |-> r, tx |-> "none"]

\* anchorVersion and anchorEvent return early without a configured ledger.
AnchorIfConfigured(w, r) ==
  IF node = "unconfigured" THEN UNCHANGED call ELSE Goto(w, Start("anchor", r))

(* The catch blocks: the first attempt marks the row Failed, a retry       *)
(* leaves the row as it is and rejects.                                    *)
Failure(w) == IF call[w].mode = "anchor" THEN Proceed(w, "mark") ELSE End(w)

Input == inputs < MaxInputs /\ inputs' = inputs + 1

-----------------------------------------------------------------------------
(* Where rows and calls come from. *)

\* An upload or a replacement commits its version, writes the activity row
\* and anchors the version; the activity may fail, and then nobody does.
Upload(w, v) ==
  /\ Idle(w)
  /\ anchor[v] = None
  /\ Input
  /\ anchor' = [anchor EXCEPT ![v] = [status |-> "Pending", tx |-> FALSE]]
  /\ \/ AnchorIfConfigured(w, v)
     \/ UNCHANGED call
  /\ UNCHANGED <<chain, orphans, node, pass>>

\* persistAuditEntry inserts the row; auditLogger.log does not wait for it.
LogEvent(e) ==
  /\ anchor[e] = None
  /\ \A d \in 1..(e - 1) : anchor[d] # None
  /\ Input
  /\ anchor' = [anchor EXCEPT ![e] = [status |-> "Pending", tx |-> FALSE]]
  /\ AnchorIfConfigured(e, e)
  /\ UNCHANGED <<chain, orphans, node, pass>>

\* retryDocumentVersion and retryAnchor, from the row they have just read.
Retry(w, r) ==
  /\ Idle(w)
  /\ anchor[r] # None
  /\ ~(Has(r, "Confirmed") /\ anchor[r].tx)
  /\ node # "unconfigured"
  /\ Input
  /\ Goto(w, Start("retry", r))
  /\ UNCHANGED <<anchor, chain, orphans, node, pass>>

-----------------------------------------------------------------------------
(* anchorUnlessExists and what follows it. *)

\* A row already on the ledger is Confirmed without a transaction; when the
\* node does not answer, the row is submitted anyway.
Verify(w) ==
  /\ At(w, "verify")
  /\ Proceed(w, IF node = "up" /\ call[w].row \in chain THEN "confirm" ELSE "submit")
  /\ UNCHANGED <<anchor, chain, orphans, node, pass, inputs>>

\* Mutation: the call goes on when the transaction is sent, without tx.wait().
SubmitWithoutWait(w) ==
  /\ At(w, "submit")
  /\ IF node = "up" /\ call[w].row \notin chain
     THEN Goto(w, [call[w] EXCEPT !.step = "confirm", !.tx = "sent"])
     ELSE Failure(w)
  /\ UNCHANGED <<anchor, chain, orphans, node, pass, inputs>>

\* Gas estimation fails for a hash the contract holds, and any call fails
\* while the node is down.
Submit(w) ==
  /\ At(w, "submit")
  /\ IF node = "up" /\ call[w].row \notin chain
     THEN Goto(w, [call[w] EXCEPT !.step = "wait", !.tx = "sent"])
     ELSE Failure(w)
  /\ UNCHANGED <<anchor, chain, orphans, node, pass, inputs>>

\* Mutation: a reverted transaction is waited for like one that is not mined.
ReceiptOfSuccess(w) ==
  /\ At(w, "wait")
  /\ node = "up"
  /\ call[w].tx = "mined"
  /\ Proceed(w, "confirm")
  /\ UNCHANGED <<anchor, chain, orphans, node, pass, inputs>>

\* tx.wait() returns the receipt, and throws if the transaction reverted.
Receipt(w) ==
  /\ At(w, "wait")
  /\ node = "up"
  /\ \/ call[w].tx = "mined" /\ Proceed(w, "confirm")
     \/ call[w].tx = "reverted" /\ Failure(w)
  /\ UNCHANGED <<anchor, chain, orphans, node, pass, inputs>>

\* updateVersion, updateAnchor: by id, whatever another call wrote meanwhile.
Confirm(w) ==
  /\ At(w, "confirm")
  /\ anchor' = [anchor EXCEPT ![call[w].row] =
                  [status |-> "Confirmed", tx |-> call[w].tx = "mined"]]
  /\ End(w)
  /\ UNCHANGED <<chain, orphans, node, pass, inputs>>

\* Mutation: the status of the node is written into the row.
MarkNodeStatus(w) ==
  /\ At(w, "mark")
  /\ anchor' = [anchor EXCEPT ![call[w].row].status = node]
  /\ End(w)
  /\ UNCHANGED <<chain, orphans, node, pass, inputs>>

Mark(w) ==
  /\ At(w, "mark")
  /\ anchor' = [anchor EXCEPT ![call[w].row].status = "Failed"]
  /\ End(w)
  /\ UNCHANGED <<chain, orphans, node, pass, inputs>>

-----------------------------------------------------------------------------
(* The scheduler's pass: isProcessing is pass # None.                      *)

Tick ==
  /\ pass = None
  /\ node # "unconfigured"
  /\ pass' = UnconfirmedVersions \cup FetchedEntries
  /\ UNCHANGED <<anchor, chain, orphans, node, call, inputs>>

\* The versions come before the entries, each retried from the fetched row.
NextRow ==
  /\ pass # None
  /\ Idle(Scheduler)
  /\ \E r \in pass :
       /\ r \in Entries => pass \cap Versions = {}
       /\ pass' = pass \ {r}
       /\ Goto(Scheduler, Start("retry", r))
  /\ UNCHANGED <<anchor, chain, orphans, node, inputs>>

\* The finally block.
EndPass ==
  /\ pass = {}
  /\ Idle(Scheduler)
  /\ pass' = None
  /\ UNCHANGED <<anchor, chain, orphans, node, call, inputs>>

-----------------------------------------------------------------------------
(* The node: blocks, outages, transactions that get lost.                  *)

\* record or recordEvent in a block: it reverts for a hash already there.
Mine(w) ==
  /\ node = "up"
  /\ At(w, "wait")
  /\ call[w].tx = "sent"
  /\ Goto(w, [call[w] EXCEPT !.tx = IF call[w].row \in chain THEN "reverted" ELSE "mined"])
  /\ chain' = chain \cup {call[w].row}
  /\ UNCHANGED <<anchor, orphans, node, pass, inputs>>

MineOrphan ==
  /\ node = "up"
  /\ \E r \in orphans : chain' = chain \cup {r} /\ orphans' = orphans \ {r}
  /\ UNCHANGED <<anchor, node, call, pass, inputs>>

\* tx.wait() may throw while the node does not answer; the transaction stays.
LoseReceipt(w) ==
  /\ node = "down"
  /\ At(w, "wait")
  /\ Failure(w)
  /\ orphans' = IF call[w].tx = "sent" THEN orphans \cup {call[w].row} ELSE orphans
  /\ UNCHANGED <<anchor, chain, node, pass, inputs>>

\* No signer, no funds, or a nonce another call's transaction took.
RejectTransaction(w) ==
  /\ Input
  /\ At(w, "submit")
  /\ Failure(w)
  /\ UNCHANGED <<anchor, chain, orphans, node, pass>>

\* The node forgets a transaction; tx.wait() has no timeout.
Drop(w) ==
  /\ Input
  /\ At(w, "wait")
  /\ call[w].tx = "sent"
  /\ Goto(w, [call[w] EXCEPT !.tx = "dropped"])
  /\ UNCHANGED <<anchor, chain, orphans, node, pass>>

Outage ==
  /\ node = "up"
  /\ Input
  /\ node' = "down"
  /\ UNCHANGED <<anchor, chain, orphans, call, pass>>

\* The node answers again, or the server is started with a ledger configured.
Recover ==
  /\ node # "up"
  /\ node' = "up"
  /\ UNCHANGED <<anchor, chain, orphans, call, pass, inputs>>

-----------------------------------------------------------------------------
(* The process. *)

(* A query throws.  The confirmation is inside the try block of the        *)
(* anchoring; the Failed mark is in its catch block and is given up.       *)
Fail(w) ==
  /\ Input
  /\ \/ At(w, "confirm") /\ Failure(w)
     \/ At(w, "mark") /\ End(w)
  /\ UNCHANGED <<anchor, chain, orphans, node, pass>>

\* The process dies and is started again; what it sent may still be mined.
Crash ==
  /\ Input
  /\ call' = [w \in Workers |-> None]
  /\ pass' = None
  /\ orphans' = orphans \cup
       {call[w].row : w \in {v \in Workers : At(v, "wait") /\ call[v].tx = "sent"}}
  /\ UNCHANGED <<anchor, chain, node>>

Step(w) ==
  \/ Verify(w) \/ Submit(w) \/ Receipt(w)
  \/ Confirm(w) \/ Mark(w)

Next ==
  \/ \E w \in Jobs, v \in Versions : Upload(w, v)
  \/ \E w \in Jobs, r \in Rows : Retry(w, r)
  \/ \E e \in Entries : LogEvent(e)
  \/ \E w \in Workers :
       Step(w) \/ Mine(w) \/ LoseReceipt(w) \/ RejectTransaction(w) \/ Drop(w) \/ Fail(w)
  \/ Tick \/ NextRow \/ EndPass
  \/ MineOrphan \/ Outage \/ Recover \/ Crash

Spec == Init /\ [][Next]_vars

(* An await returns, the interval timer fires again and again, and a node  *)
(* that is up puts a transaction it keeps into a block.                    *)
Fairness ==
  /\ \A w \in Workers : WF_vars(Step(w)) /\ WF_vars(Mine(w))
  /\ WF_vars(Tick) /\ WF_vars(NextRow) /\ WF_vars(EndPass)

FairSpec == Spec /\ Fairness

-----------------------------------------------------------------------------
(* Properties. *)

(* What a Confirmed row says is true, and so is what a call is about to    *)
(* write: neither a lost receipt, a revert nor a race of two calls on one  *)
(* row confirms a hash the ledger does not hold.                           *)
ConfirmedOnLedger ==
  /\ \A r \in Rows : Has(r, "Confirmed") => r \in chain
  /\ \A w \in Workers : At(w, "confirm") => call[w].row \in chain

NodeRecovers == <>[](node = "up")

Hung(w) == At(w, "wait") /\ call[w].tx = "dropped"

(* A version is confirmed for good once the node stays up, although the    *)
(* loser of a race marks a confirmed version Failed: the pass fetches it   *)
(* again.  Unless the scheduler waits for a transaction the node forgot.   *)
VersionsSettle ==
  NodeRecovers =>
    <>[](\A v \in Versions : anchor[v] = None \/ Has(v, "Confirmed") \/ Hung(Scheduler))

(* An entry does not stay Pending: the pass takes the oldest entries, and  *)
(* since those are confirmed the younger get their turn, however small the *)
(* batch.                                                                  *)
EntriesSettle ==
  NodeRecovers => <>[](PendingEntries = {} \/ Hung(Scheduler))

(* Every call ends once the node stays up, whatever it anchors, except one *)
(* whose transaction was dropped.                                          *)
CallsEnd ==
  NodeRecovers => \A w \in Workers : (call[w] # None) ~> (Idle(w) \/ Hung(w))

(* What the code's documentation claims and the run audit_failed_entry     *)
(* refutes: a Failed entry is retried like a Pending one.                  *)
FailedEntriesRecover ==
  NodeRecovers =>
    \A e \in Entries : Has(e, "Failed") ~> (Has(e, "Confirmed") \/ Hung(Scheduler))
=============================================================================
