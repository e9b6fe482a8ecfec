------------------------- MODULE RowAnchoring_proofs -------------------------
(***************************************************************************)
(* What holds of the anchoring of rows for any number of versions, entries *)
(* and calls: a Confirmed row is on the ledger.                            *)
(*                                                                         *)
(* ConfirmedOnLedger is not inductive: it takes that a transaction known   *)
(* to be mined put its hash on the ledger, that the ledger only grows, and *)
(* that calls and passes concern rows that exist.  Every action moves one  *)
(* worker at most, so MoveKeeps is the invariance proof once and for all,  *)
(* and each action has to supply what its worker does next.                *)
(***************************************************************************)
EXTENDS RowAnchoring, FiniteSetTheorems, TLAPS

\* What a call in progress relies on, in a database and a ledger.
Grounded(c, columns, ledger) ==
  /\ columns[c.row] # None
  /\ c.step = "confirm" => c.row \in ledger
  /\ c.tx = "mined" => c.row \in ledger

ConfirmedIn(columns, ledger) ==
  \A r \in Rows : columns[r] # None /\ columns[r].status = "Confirmed" => r \in ledger

Inv ==
  /\ TypeOK
  /\ ConfirmedIn(anchor, chain)
  /\ \A w \in Workers : call[w] # None => Grounded(call[w], anchor, chain)
  /\ pass # None => \A r \in pass : anchor[r] # None

\* The tables only grow.
Grows ==
  /\ chain \subseteq chain'
  /\ \A r \in Rows : anchor[r] # None => anchor'[r] # None

-----------------------------------------------------------------------------
(* One worker moves. *)

LEMMA Typed ==
  ASSUME Inv
  PROVE  /\ anchor \in [Rows -> AnchorColumns \cup {None}]
         /\ chain \in SUBSET Rows
         /\ orphans \in SUBSET Rows
         /\ node \in {"unconfigured", "down", "up"}
         /\ call \in [Workers -> Call \cup {None}]
         /\ pass \in (SUBSET Rows) \cup {None}
         /\ inputs \in 0..MaxInputs
  BY DEF Inv, TypeOK

LEMMA InFlight ==
  ASSUME Inv, NEW w \in Workers, call[w] # None
  PROVE  /\ call[w] \in Call
         /\ call[w].row \in Rows
         /\ call[w].tx \in {"none", "sent", "mined", "reverted", "dropped"}
         /\ Grounded(call[w], anchor, chain)
  BY DEF Inv, TypeOK, Call

LEMMA InputBound ==
  ASSUME Inv, Input
  PROVE  inputs' \in 0..MaxInputs
  BY RowAnchoringAssumption DEF Inv, TypeOK, Input

LEMMA MoveKeeps ==
  ASSUME Inv, Grows,
         anchor' \in [Rows -> AnchorColumns \cup {None}], chain' \in SUBSET Rows,
         orphans' \in SUBSET Rows, node' \in {"unconfigured", "down", "up"},
         pass' \in (SUBSET Rows) \cup {None}, inputs' \in 0..MaxInputs,
         ConfirmedIn(anchor', chain'),
         pass' # None => \A r \in pass' : anchor'[r] # None,
         NEW w \in Workers, NEW x \in Call \cup {None},
         x # None => Grounded(x, anchor', chain'),
         call' = [call EXCEPT ![w] = x]
  PROVE  Inv'
  <1>1. TypeOK'
    BY Typed DEF TypeOK
  <1>2. ASSUME NEW v \in Workers, call'[v] # None
        PROVE  Grounded(call'[v], anchor', chain')
    <2>1. CASE v = w
      BY <1>2, <2>1, Typed
    <2>2. CASE v # w
      <3>1. call'[v] = call[v]
        BY <2>2, Typed
      <3>2. call[v].row \in Rows /\ Grounded(call[v], anchor, chain)
        BY <1>2, <3>1, InFlight
      <3> QED BY <3>1, <3>2 DEF Grounded, Grows
    <2> QED BY <2>1, <2>2
  <1> QED BY <1>1, <1>2 DEF Inv

\* A step that leaves the rows, the ledger and the pass alone.
LEMMA CallKeeps ==
  ASSUME Inv, UNCHANGED <<anchor, chain, node, pass>>, orphans' \in SUBSET Rows,
         inputs' \in 0..MaxInputs,
         NEW w \in Workers, NEW x \in Call \cup {None},
         x # None => Grounded(x, anchor, chain),
         call' = [call EXCEPT ![w] = x]
  PROVE  Inv'
  <1>1. Grows
    BY DEF Grows
  <1>2. ConfirmedIn(anchor', chain') /\ (pass' # None => \A r \in pass' : anchor'[r] # None)
    BY DEF Inv
  <1> QED BY <1>1, <1>2, Typed, MoveKeeps

LEMMA StartIsCall ==
  ASSUME NEW mode \in {"anchor", "retry"}, NEW r \in Rows
  PROVE  /\ Start(mode, r) \in Call
         /\ Start(mode, r).row = r
         /\ Start(mode, r).step = "verify"
         /\ Start(mode, r).tx = "none"
  BY DEF Start, Call

LEMMA EndKeeps ==
  ASSUME Inv, UNCHANGED <<anchor, chain, node, pass>>, orphans' \in SUBSET Rows,
         inputs' \in 0..MaxInputs, NEW w \in Workers, End(w)
  PROVE  Inv'
  BY CallKeeps DEF End, Goto

\* The next step of a call; only the confirmation needs a reason.
LEMMA ProceedKeeps ==
  ASSUME Inv, UNCHANGED <<anchor, chain, node, pass>>, orphans' \in SUBSET Rows,
         inputs' \in 0..MaxInputs, NEW w \in Workers, call[w] # None,
         NEW step \in {"verify", "submit", "wait", "confirm", "mark"},
         step = "confirm" => call[w].row \in chain, Proceed(w, step)
  PROVE  Inv'
  <1> DEFINE x == [call[w] EXCEPT !.step = step]
  <1>1. x \in Call /\ x.row = call[w].row /\ x.step = step /\ x.tx = call[w].tx
    BY InFlight DEF Call
  <1>2. Grounded(x, anchor, chain)
    BY <1>1, InFlight DEF Grounded
  <1>3. call' = [call EXCEPT ![w] = x]
    BY DEF Proceed, Goto
  <1> HIDE DEF x
  <1> QED BY <1>1, <1>2, <1>3, CallKeeps

LEMMA FailureKeeps ==
  ASSUME Inv, UNCHANGED <<anchor, chain, node, pass>>, orphans' \in SUBSET Rows,
         inputs' \in 0..MaxInputs, NEW w \in Workers, call[w] # None, Failure(w)
  PROVE  Inv'
  <1>1. CASE call[w].mode = "anchor"
    BY <1>1, ProceedKeeps DEF Failure
  <1>2. CASE call[w].mode # "anchor"
    BY <1>2, EndKeeps DEF Failure
  <1> QED BY <1>1, <1>2

-----------------------------------------------------------------------------
(* Where rows and calls come from. *)

\* A row that did not exist is inserted Pending.
LEMMA InsertKeeps ==
  ASSUME Inv, NEW w \in Workers, NEW r \in Rows, anchor[r] = None,
         anchor' = [anchor EXCEPT ![r] = [status |-> "Pending", tx |-> FALSE]],
         Input, UNCHANGED <<chain, orphans, node, pass>>,
         AnchorIfConfigured(w, r) \/ UNCHANGED call
  PROVE  Inv'
  <1> DEFINE new == [status |-> "Pending", tx |-> FALSE]
  <1>1. new \in AnchorColumns /\ new # None /\ new.status = "Pending"
    <2>1. new \in AnchorColumns
      BY Zenon DEF AnchorColumns
    <2>2. new.status = "Pending"
      OBVIOUS
    <2> QED BY <2>1, <2>2, NoneAssumption
  <1> HIDE DEF new
  <1>2. anchor' = [anchor EXCEPT ![r] = new]
    BY DEF new
  <1>3. anchor' \in [Rows -> AnchorColumns \cup {None}] /\ Grows
    BY <1>1, <1>2, Typed DEF Grows
  <1>4. ConfirmedIn(anchor', chain')
    BY <1>1, <1>2, Typed DEF Inv, ConfirmedIn
  <1>5. pass' # None => \A q \in pass' : anchor'[q] # None
    BY <1>1, <1>2, Typed DEF Inv
  <1>6. CASE UNCHANGED call
    <2>1. call' = [call EXCEPT ![w] = call[w]] /\ call[w] \in Call \cup {None}
      BY <1>6, Typed
    <2>2. call[w] # None => Grounded(call[w], anchor', chain')
      BY <1>3, InFlight DEF Grounded, Grows
    <2> QED BY <2>2, <1>3, <1>4, <1>5, <2>1, InputBound, Typed, MoveKeeps
  <1>7. CASE call' = [call EXCEPT ![w] = Start("anchor", r)]
    <2> DEFINE x == Start("anchor", r)
    <2>1. x \in Call /\ x.row = r /\ x.step = "verify" /\ x.tx = "none"
      BY StartIsCall
    <2>2. call' = [call EXCEPT ![w] = x]
      BY <1>7
    <2> HIDE DEF x
    <2>3. Grounded(x, anchor', chain')
      BY <1>1, <1>2, <2>1, Typed DEF Grounded
    <2> QED BY <1>3, <1>4, <1>5, <2>1, <2>2, <2>3, InputBound, Typed, MoveKeeps
  <1> QED BY <1>6, <1>7 DEF AnchorIfConfigured, Goto

LEMMA RowsAreRows ==
  /\ \A v \in Versions : v \in Rows
  /\ \A e \in Entries : e \in Rows /\ e \in Workers
  /\ \A w \in Jobs : w \in Workers
  /\ Scheduler \in Workers
  BY DEF Rows, Workers

LEMMA UploadKeeps ==
  ASSUME Inv, NEW w \in Jobs, NEW v \in Versions, Upload(w, v)
  PROVE  Inv'
  <1>1. w \in Workers /\ v \in Rows /\ anchor[v] = None /\ Input
    BY RowsAreRows DEF Upload
  <1> QED BY <1>1, InsertKeeps DEF Upload

LEMMA LogEventKeeps ==
  ASSUME Inv, NEW e \in Entries, LogEvent(e)
  PROVE  Inv'
  <1>1. e \in Workers /\ e \in Rows /\ anchor[e] = None
    BY RowsAreRows DEF LogEvent
  <1> QED BY <1>1, InsertKeeps DEF LogEvent

LEMMA RetryKeeps ==
  ASSUME Inv, NEW w \in Jobs, NEW r \in Rows, Retry(w, r)
  PROVE  Inv'
  <1> DEFINE x == Start("retry", r)
  <1>1. x \in Call /\ x.row = r /\ x.step = "verify" /\ x.tx = "none"
    BY StartIsCall
  <1>2. call' = [call EXCEPT ![w] = x] /\ w \in Workers /\ inputs' \in 0..MaxInputs
    BY RowsAreRows, InputBound DEF Retry, Goto
  <1> HIDE DEF x
  <1>3. Grounded(x, anchor, chain)
    BY <1>1 DEF Grounded, Retry
  <1> QED BY <1>1, <1>2, <1>3, Typed, CallKeeps DEF Retry

-----------------------------------------------------------------------------
(* The steps of a call. *)

LEMMA VerifyKeeps ==
  ASSUME Inv, NEW w \in Workers, Verify(w)
  PROVE  Inv'
  <1> DEFINE step == IF node = "up" /\ call[w].row \in chain THEN "confirm" ELSE "submit"
  <1>1. step \in {"submit", "confirm"} /\ (step = "confirm" => call[w].row \in chain)
    OBVIOUS
  <1>2. call[w] # None /\ Proceed(w, step)
    BY DEF Verify, At
  <1> HIDE DEF step
  <1> QED BY <1>1, <1>2, Typed, ProceedKeeps DEF Verify

LEMMA SubmitKeeps ==
  ASSUME Inv, NEW w \in Workers, Submit(w)
  PROVE  Inv'
  <1>1. CASE node = "up" /\ call[w].row \notin chain
    <2> DEFINE x == [call[w] EXCEPT !.step = "wait", !.tx = "sent"]
    <2>1. x \in Call /\ x.row = call[w].row /\ x.step = "wait" /\ x.tx = "sent"
      BY InFlight DEF Submit, At, Call
    <2>2. call' = [call EXCEPT ![w] = x]
      BY <1>1 DEF Submit, Goto
    <2>3. call[w] # None
      BY DEF Submit, At
    <2> HIDE DEF x
    <2>4. Grounded(x, anchor, chain)
      BY <2>1, <2>3, InFlight DEF Grounded
    <2> QED BY <2>1, <2>2, <2>4, Typed, CallKeeps DEF Submit
  <1>2. CASE ~(node = "up" /\ call[w].row \notin chain)
    BY <1>2, Typed, FailureKeeps DEF Submit, At
  <1> QED BY <1>1, <1>2

LEMMA ReceiptKeeps ==
  ASSUME Inv, NEW w \in Workers, Receipt(w)
  PROVE  Inv'
  <1>1. CASE call[w].tx = "mined" /\ Proceed(w, "confirm")
    <2>1. call[w] # None /\ call[w].row \in chain
      BY <1>1, InFlight DEF Receipt, At, Grounded
    <2> QED BY <1>1, <2>1, Typed, ProceedKeeps DEF Receipt
  <1>2. CASE Failure(w)
    BY <1>2, Typed, FailureKeeps DEF Receipt, At
  <1> QED BY <1>1, <1>2 DEF Receipt

\* A write of the anchor columns, true of the ledger, ends the call.
LEMMA WriteKeeps ==
  ASSUME Inv, NEW w \in Workers, call[w] # None, NEW new \in AnchorColumns,
         anchor' = [anchor EXCEPT ![call[w].row] = new],
         new.status = "Confirmed" => call[w].row \in chain,
         End(w), UNCHANGED <<chain, orphans, node, pass, inputs>>
  PROVE  Inv'
  <1>1. new # None /\ call[w].row \in Rows
    BY NoneAssumption, InFlight
  <1>2. anchor' \in [Rows -> AnchorColumns \cup {None}] /\ Grows
    BY <1>1, Typed DEF Grows
  <1>3. ConfirmedIn(anchor', chain')
    BY <1>1, Typed DEF Inv, ConfirmedIn
  <1>4. pass' # None => \A r \in pass' : anchor'[r] # None
    BY <1>1, Typed DEF Inv
  <1>5. call' = [call EXCEPT ![w] = None]
    BY DEF End, Goto
  <1> QED BY <1>2, <1>3, <1>4, <1>5, Typed, MoveKeeps

LEMMA ConfirmKeeps ==
  ASSUME Inv, NEW w \in Workers, Confirm(w)
  PROVE  Inv'
  <1> DEFINE mined == call[w].tx = "mined"
             new == [status |-> "Confirmed", tx |-> mined]
  <1>1. new \in AnchorColumns
    <2>1. mined \in BOOLEAN
      OBVIOUS
    <2> HIDE DEF mined
    <2> QED BY <2>1, Zenon DEF AnchorColumns
  <1>2. call[w] # None /\ call[w].row \in chain
    BY InFlight DEF Confirm, At, Grounded
  <1>3. anchor' = [anchor EXCEPT ![call[w].row] = new]
    BY DEF Confirm
  <1> HIDE DEF new
  <1> QED BY <1>1, <1>2, <1>3, WriteKeeps DEF Confirm

LEMMA MarkKeeps ==
  ASSUME Inv, NEW w \in Workers, Mark(w)
  PROVE  Inv'
  <1> DEFINE old == anchor[call[w].row]
             new == [old EXCEPT !.status = "Failed"]
  <1>1. call[w] # None /\ call[w].row \in Rows /\ old # None
    BY InFlight DEF Mark, At, Grounded
  <1>2. old \in AnchorColumns
    BY <1>1, Typed
  <1>3. anchor' = [anchor EXCEPT ![call[w].row] = new]
    BY <1>1, Typed DEF Mark
  <1> HIDE DEF old
  <1>4. new \in AnchorColumns
    BY <1>2 DEF AnchorColumns
  <1>5. new.status = "Failed"
    BY <1>2 DEF AnchorColumns
  <1> HIDE DEF new
  <1> QED BY <1>1, <1>3, <1>4, <1>5, WriteKeeps DEF Mark

-----------------------------------------------------------------------------
(* The pass, the node and the process. *)

LEMMA FetchedExist ==
  /\ UnconfirmedVersions \cup FetchedEntries \in SUBSET Rows
  /\ \A r \in UnconfirmedVersions \cup FetchedEntries : anchor[r] # None
  BY DEF UnconfirmedVersions, FetchedEntries, PendingEntries, Has, Rows

\* A step that leaves every call alone.
LEMMA StillKeeps ==
  ASSUME Inv, UNCHANGED <<anchor, call>>, Grows, chain' \in SUBSET Rows,
         orphans' \in SUBSET Rows, node' \in {"unconfigured", "down", "up"},
         pass' \in (SUBSET Rows) \cup {None}, inputs' \in 0..MaxInputs,
         pass' # None => \A r \in pass' : anchor[r] # None
  PROVE  Inv'
  <1>1. TypeOK'
    BY Typed DEF TypeOK
  <1>2. ConfirmedIn(anchor', chain')
    BY DEF Inv, ConfirmedIn, Grows
  <1>3. \A w \in Workers : call'[w] # None => Grounded(call'[w], anchor', chain')
    BY InFlight DEF Grounded, Grows
  <1> QED BY <1>1, <1>2, <1>3 DEF Inv

LEMMA TickKeeps ==
  ASSUME Inv, Tick
  PROVE  Inv'
  BY FetchedExist, StillKeeps, Typed DEF Tick, Grows

LEMMA NextRowKeeps ==
  ASSUME Inv, NextRow
  PROVE  Inv'
  <1>1. PICK r \in pass : pass' = pass \ {r} /\ Goto(Scheduler, Start("retry", r))
    BY DEF NextRow
  <1> DEFINE x == Start("retry", r)
  <1>2. pass \in SUBSET Rows /\ pass # None /\ r \in Rows /\ anchor[r] # None
    BY <1>1, Typed DEF NextRow, Inv
  <1>3. x \in Call /\ x.row = r /\ x.step = "verify" /\ x.tx = "none"
    BY <1>2, StartIsCall
  <1>4. call' = [call EXCEPT ![Scheduler] = x] /\ Scheduler \in Workers
    BY <1>1, RowsAreRows DEF Goto
  <1> HIDE DEF x
  <1>5. Grounded(x, anchor', chain') /\ ConfirmedIn(anchor', chain') /\ Grows
    BY <1>2, <1>3 DEF Grounded, Inv, NextRow, Grows
  <1>6. pass' \in SUBSET Rows /\ \A q \in pass' : anchor'[q] # None
    BY <1>1, <1>2 DEF Inv, NextRow
  <1> QED BY <1>3, <1>4, <1>5, <1>6, Typed, MoveKeeps DEF NextRow

LEMMA EndPassKeeps ==
  ASSUME Inv, EndPass
  PROVE  Inv'
  BY StillKeeps, Typed DEF EndPass, Grows

\* The block holds the hash of a transaction that it includes.
LEMMA MineKeeps ==
  ASSUME Inv, NEW w \in Workers, Mine(w)
  PROVE  Inv'
  <1> DEFINE result == IF call[w].row \in chain THEN "reverted" ELSE "mined"
             x == [call[w] EXCEPT !.tx = result]
  <1>1. call[w] # None /\ call[w].step = "wait" /\ call[w].row \in Rows
    BY InFlight DEF Mine, At
  <1>2. x \in Call /\ x.row = call[w].row /\ x.step = "wait"
    <2>1. result \in {"reverted", "mined"}
      OBVIOUS
    <2> HIDE DEF result
    <2> QED BY <1>1, <2>1, InFlight DEF Call
  <1>3. call' = [call EXCEPT ![w] = x] /\ chain' = chain \cup {call[w].row}
    BY DEF Mine, Goto
  <1> HIDE DEF x
  <1>4. Grounded(x, anchor', chain')
    BY <1>1, <1>2, <1>3, InFlight DEF Grounded, Mine
  <1>5. Grows /\ ConfirmedIn(anchor', chain') /\ chain' \in SUBSET Rows
    BY <1>1, <1>3, Typed DEF Grows, ConfirmedIn, Inv, Mine
  <1>6. pass' # None => \A r \in pass' : anchor'[r] # None
    BY DEF Inv, Mine
  <1> QED BY <1>2, <1>3, <1>4, <1>5, <1>6, Typed, MoveKeeps DEF Mine

LEMMA MineOrphanKeeps ==
  ASSUME Inv, MineOrphan
  PROVE  Inv'
  <1>1. PICK r \in orphans : chain' = chain \cup {r} /\ orphans' = orphans \ {r}
    BY DEF MineOrphan
  <1>2. Grows /\ chain' \in SUBSET Rows /\ orphans' \in SUBSET Rows
    BY <1>1, Typed DEF Grows, MineOrphan
  <1> QED BY <1>2, StillKeeps, Typed DEF MineOrphan, Inv

LEMMA LoseReceiptKeeps ==
  ASSUME Inv, NEW w \in Workers, LoseReceipt(w)
  PROVE  Inv'
  <1>1. call[w] # None
    BY DEF LoseReceipt, At
  <1>2. orphans' \in SUBSET Rows
    BY <1>1, InFlight, Typed DEF LoseReceipt
  <1> QED BY <1>1, <1>2, Typed, FailureKeeps DEF LoseReceipt

LEMMA RejectTransactionKeeps ==
  ASSUME Inv, NEW w \in Workers, RejectTransaction(w)
  PROVE  Inv'
  BY FailureKeeps, InputBound, Typed DEF RejectTransaction, At

LEMMA DropKeeps ==
  ASSUME Inv, NEW w \in Workers, Drop(w)
  PROVE  Inv'
  <1> DEFINE x == [call[w] EXCEPT !.tx = "dropped"]
  <1>1. call[w] # None
    BY DEF Drop, At
  <1>2. x \in Call /\ x.row = call[w].row /\ x.step = call[w].step /\ x.tx = "dropped"
    BY <1>1, InFlight DEF Call
  <1>3. call' = [call EXCEPT ![w] = x]
    BY DEF Drop, Goto
  <1> HIDE DEF x
  <1>4. Grounded(x, anchor, chain)
    BY <1>1, <1>2, InFlight DEF Grounded
  <1> QED BY <1>2, <1>3, <1>4, InputBound, Typed, CallKeeps DEF Drop

LEMMA FailKeeps ==
  ASSUME Inv, NEW w \in Workers, Fail(w)
  PROVE  Inv'
  <1>1. CASE At(w, "confirm") /\ Failure(w)
    BY <1>1, FailureKeeps, InputBound, Typed DEF Fail, At
  <1>2. CASE At(w, "mark") /\ End(w)
    BY <1>2, EndKeeps, InputBound, Typed DEF Fail
  <1> QED BY <1>1, <1>2 DEF Fail

LEMMA CrashKeeps ==
  ASSUME Inv, Crash
  PROVE  Inv'
  <1>1. inputs' \in 0..MaxInputs
    BY InputBound DEF Crash
  <1>2. orphans' \in SUBSET Rows
    BY InFlight, Typed DEF Crash, At
  <1>3. TypeOK'
    BY <1>1, <1>2, Typed DEF Crash, TypeOK
  <1> QED BY <1>3 DEF Crash, Inv

-----------------------------------------------------------------------------
(* The invariant. *)

LEMMA InitHolds == Init => Inv
  <1> SUFFICES ASSUME Init PROVE Inv
    OBVIOUS
  <1>1. TypeOK
    BY RowAnchoringAssumption DEF Init, TypeOK
  <1> QED BY <1>1 DEF Init, Inv, ConfirmedIn

LEMMA StutterKeeps ==
  ASSUME Inv, UNCHANGED vars
  PROVE  Inv'
  BY DEF vars, Inv, TypeOK

LEMMA NextKeeps ==
  ASSUME Inv, Next
  PROVE  Inv'
  <1>1. ASSUME NEW w \in Jobs, NEW v \in Versions, Upload(w, v) PROVE Inv'
    BY <1>1, UploadKeeps
  <1>2. ASSUME NEW w \in Jobs, NEW r \in Rows, Retry(w, r) PROVE Inv'
    BY <1>2, RetryKeeps
  <1>3. ASSUME NEW e \in Entries, LogEvent(e) PROVE Inv'
    BY <1>3, LogEventKeeps
  <1>4. ASSUME NEW w \in Workers, Step(w) PROVE Inv'
    BY <1>4, VerifyKeeps, SubmitKeeps, ReceiptKeeps, ConfirmKeeps, MarkKeeps DEF Step
  <1>5. ASSUME NEW w \in Workers,
               Mine(w) \/ LoseReceipt(w) \/ RejectTransaction(w) \/ Drop(w) \/ Fail(w)
        PROVE  Inv'
    BY <1>5, MineKeeps, LoseReceiptKeeps, RejectTransactionKeeps, DropKeeps, FailKeeps
  <1>6. CASE Tick \/ NextRow \/ EndPass
    BY <1>6, TickKeeps, NextRowKeeps, EndPassKeeps
  <1>7. CASE MineOrphan \/ Crash
    BY <1>7, MineOrphanKeeps, CrashKeeps
  <1>8. CASE Outage \/ Recover
    BY <1>8, StillKeeps, InputBound, Typed DEF Outage, Recover, Grows, Inv
  <1> QED BY <1>1, <1>2, <1>3, <1>4, <1>5, <1>6, <1>7, <1>8 DEF Next

\* Inv holds in every state, whatever is uploaded, logged, retried or lost.
THEOREM RowInvariant == Spec => []Inv
  <1>1. Inv /\ [Next]_vars => Inv'
    BY NextKeeps, StutterKeeps
  <1> QED BY <1>1, InitHolds, PTL DEF Spec

\* The tables and the calls have their types.
THEOREM RowTypes == Spec => []TypeOK
  <1>1. Inv => TypeOK
    BY DEF Inv
  <1> QED BY <1>1, RowInvariant, PTL

\* A document version or an audit entry that says Confirmed is on the ledger,
\* and nothing is about to be written that says so of one that is not.
THEOREM ConfirmedRows == Spec => []ConfirmedOnLedger
  <1>1. Inv => ConfirmedOnLedger
    BY DEF Inv, ConfirmedOnLedger, ConfirmedIn, Has, At, Grounded
  <1> QED BY <1>1, RowInvariant, PTL
=============================================================================
