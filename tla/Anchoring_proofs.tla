--------------------------- MODULE Anchoring_proofs ---------------------------
(***************************************************************************)
(* What holds of anchoring for any number of allocations, contents, jobs   *)
(* and faults: no job acts on something untrue, and the database and the   *)
(* contract together implement AnchorLedger.                               *)
(*                                                                         *)
(* Inv is inductive.  Keeps(w) is what a step that touches the job of w    *)
(* must establish for it; there is one lemma per action, and the theorems  *)
(* at the end combine them.                                                *)
(***************************************************************************)
EXTENDS Anchoring, FiniteSetTheorems, TLAPS

Confirmed == {c \in Contents : record[c] # None /\ record[c].status = "Confirmed"}

RecordsAreGrounded == Confirmed \subseteq chain

Inv == TypeOK /\ JobsAreGrounded /\ RecordsAreGrounded

LedgerStep == [Ledger!Next]_(Ledger!vars)

-----------------------------------------------------------------------------
(* What only grows. *)

Monotone ==
  /\ chain \subseteq chain'
  /\ \A c \in Contents : record[c] # None => record'[c] # None
  /\ \A a \in Allocations : CurrentContents(a) # {} => CurrentContents(a)' # {}

\* A job stays grounded while the ledger and the records grow.
LEMMA GroundedStays ==
  ASSUME Monotone, NEW w \in Workers, NEW j \in Job, Grounded(w, j)
  PROVE  Grounded(w, j)'
  <1>1. j.content \in Contents /\ j.content[1] \in Allocations
    BY DEF Job, Contents
  <1> QED BY <1>1 DEF Grounded, Monotone

Keeps(w) ==
  /\ TypeOK'
  /\ Monotone
  /\ RecordsAreGrounded'
  /\ LedgerStep
  /\ (job[w] # None => Grounded(w, job[w]))'
  /\ \A v \in Workers \ {w} : job'[v] = job[v]

\* A step that leaves the records and the ledger alone.
LEMMA ReadKeeps ==
  ASSUME Inv, UNCHANGED <<record, chain>>,
         row' \in [Allocations -> Row], orphans' \in SUBSET Contents,
         node' \in {"unconfigured", "down", "up"},
         pass' \in (SUBSET Allocations) \cup {None},
         requests' \in 0..MaxRequests, faults' \in 0..MaxFaults,
         NEW w \in Workers, NEW x \in Job \cup {None},
         x # None => Grounded(w, x), job' = [job EXCEPT ![w] = x]
  PROVE  Keeps(w)
  <1>1. TypeOK'
    BY DEF Inv, TypeOK
  <1>2. Monotone
    BY DEF Monotone, CurrentContents
  <1>3. RecordsAreGrounded' /\ LedgerStep
    BY DEF Inv, RecordsAreGrounded, Confirmed, LedgerStep, Ledger!vars
  <1>4. job'[w] = x /\ \A v \in Workers \ {w} : job'[v] = job[v]
    BY DEF Inv, TypeOK
  <1>5. (job[w] # None => Grounded(w, job[w]))'
    BY <1>4 DEF Grounded, CurrentContents
  <1> QED BY <1>1, <1>2, <1>3, <1>4, <1>5 DEF Keeps

-----------------------------------------------------------------------------
(* Jobs in flight. *)

LEMMA InFlight ==
  ASSUME Inv, NEW w \in Workers, job[w] # None
  PROVE  /\ job[w] \in Job /\ Grounded(w, job[w])
         /\ job[w].content \in Contents
         /\ job[w].content[1] \in Allocations
  BY DEF Inv, TypeOK, JobsAreGrounded, Job, Contents

LEMMA ContentIsContent ==
  ASSUME Inv, NEW a \in Allocations
  PROVE  Content(a) \in Contents /\ Content(a)[1] = a
  BY DEF Inv, TypeOK, Content, Contents, Row

\* The tables of a step that moves one job.
LEMMA MoveKeeps ==
  ASSUME Inv, UNCHANGED <<row, record, chain, orphans, node, pass, requests>>,
         faults' \in 0..MaxFaults,
         NEW w \in Workers, NEW x \in Job \cup {None},
         x # None => Grounded(w, x), job' = [job EXCEPT ![w] = x]
  PROVE  Keeps(w)
  BY ReadKeeps DEF Inv, TypeOK

LEMMA StartIsJob ==
  ASSUME NEW step \in DatabaseSteps \cup LedgerSteps, NEW c \in Contents
  PROVE  /\ Start(step, c) \in Job
         /\ Start(step, c).step = step
         /\ Start(step, c).mode = "create"
         /\ Start(step, c).content = c
         /\ Start(step, c).status = "Pending"
         /\ Start(step, c).tx = "none"
  BY DEF Start, Job

\* A request that has just started is grounded, and so is a retry of the
\* scheduler for an allocation that has a record.
LEMMA StartIsGrounded ==
  ASSUME NEW step \in {"lookup", "load", "current"}, NEW c \in Contents, NEW w \in Workers,
         w = Scheduler => step # "lookup" /\ CurrentContents(c[1]) # {}
  PROVE  Grounded(w, Start(step, c))
  BY StartIsJob DEF Grounded, DatabaseSteps, LedgerSteps

LEMMA EndKeeps ==
  ASSUME Inv, UNCHANGED <<row, record, chain, orphans, node, pass, requests>>,
         faults' \in 0..MaxFaults, NEW w \in Workers, End(w)
  PROVE  Keeps(w)
  BY MoveKeeps DEF End, Goto

(* A failed attempt: Failed is written by recordAllocation alone, so a job *)
(* that updates never reaches the database with anything but a success.    *)
LEMMA FailureKeeps ==
  ASSUME Inv, UNCHANGED <<row, record, chain, node, pass, requests>>,
         orphans' \in SUBSET Contents, faults' \in 0..MaxFaults,
         NEW w \in Workers, job[w] # None, job[w].step \in {"submit", "wait"}, Failure(w)
  PROVE  Keeps(w)
  <1> DEFINE failed == [job[w] EXCEPT !.step = "create", !.status = "Failed", !.tx = "none"]
             x == IF job[w].mode = "create" THEN failed ELSE None
  <1>1. failed \in Job /\ failed.step = "create" /\ failed.mode = job[w].mode
          /\ failed.status = "Failed" /\ failed.tx = "none" /\ failed.content = job[w].content
    BY InFlight DEF Job, DatabaseSteps
  <1>2. x # None => Grounded(w, x)
    BY <1>1, InFlight DEF Grounded
  <1>3. job' = [job EXCEPT ![w] = x]
    BY DEF Failure, Goto, End
  <1>4. x \in Job \cup {None}
    BY <1>1
  <1> HIDE DEF x
  <1> QED BY <1>2, <1>3, <1>4, ReadKeeps DEF Inv, TypeOK

\* A successful one: the content is on the ledger when the outcome is stored.
LEMMA OutcomeKeeps ==
  ASSUME Inv, UNCHANGED <<row, record, chain, orphans, node, pass, requests, faults>>,
         NEW w \in Workers, job[w] # None, job[w].step \in {"verify", "wait"},
         job[w].content \in chain, Outcome(w, "Confirmed")
  PROVE  Keeps(w)
  <1> DEFINE x == [job[w] EXCEPT !.step = job[w].mode, !.status = "Confirmed"]
  <1>1. x \in Job /\ x.step = job[w].mode /\ x.mode = job[w].mode /\ x.status = "Confirmed"
          /\ x.tx = job[w].tx /\ x.content = job[w].content
    BY InFlight DEF Job, DatabaseSteps
  <1>2. Grounded(w, x)
    <2>1. job[w].mode \in {"create", "update"}
      BY InFlight DEF Job
    <2> QED BY <1>1, <2>1, InFlight DEF Grounded
  <1>3. job' = [job EXCEPT ![w] = x]
    BY DEF Outcome, Goto
  <1> HIDE DEF x
  <1> QED BY <1>1, <1>2, <1>3, MoveKeeps DEF Inv, TypeOK

\* The next step of a job whose other fields stay.
LEMMA ProceedKeeps ==
  ASSUME Inv, UNCHANGED <<row, record, chain, orphans, node, pass, requests, faults>>,
         NEW w \in Workers, job[w] # None, NEW step \in DatabaseSteps \cup LedgerSteps,
         Proceed(w, step),
         \A j \in Job : /\ j.step = step /\ j.mode = job[w].mode /\ j.tx = job[w].tx
                        /\ j.status = job[w].status /\ j.content = job[w].content
                        => Grounded(w, j)
  PROVE  Keeps(w)
  <1> DEFINE x == [job[w] EXCEPT !.step = step]
  <1>1. x \in Job /\ x.step = step /\ x.mode = job[w].mode /\ x.status = job[w].status
          /\ x.tx = job[w].tx /\ x.content = job[w].content
    BY InFlight DEF Job
  <1>2. job' = [job EXCEPT ![w] = x]
    BY DEF Proceed, Goto
  <1> HIDE DEF x
  <1> QED BY <1>1, <1>2, MoveKeeps DEF Inv, TypeOK

-----------------------------------------------------------------------------
(* The steps of a job that leave the records alone. *)

LEMMA RewrittenIsRow ==
  ASSUME NEW r \in Row, r.version < MaxVersion, NEW approved \in BOOLEAN
  PROVE  Rewritten(r, approved) \in Row
  <1>1. r.version + 1 \in 0..MaxVersion
    BY AnchoringAssumption DEF Row
  <1> QED BY <1>1 DEF Row, Rewritten

LEMMA ApproveKeeps ==
  ASSUME Inv, NEW w \in Jobs, NEW a \in Allocations, Approve(w, a)
  PROVE  Keeps(w)
  <1> DEFINE c == <<a, row[a].version + 1>>
             x == Start("lookup", c)
  <1>1. c \in Contents /\ row' \in [Allocations -> Row]
    <2>1. row[a] \in Row /\ row[a].version < MaxVersion
      BY DEF Approve, Inv, TypeOK
    <2>2. Rewritten(row[a], TRUE) \in Row
      BY <2>1, RewrittenIsRow
    <2>3. c \in Contents
      BY <2>1, AnchoringAssumption DEF Row, Contents
    <2>4. row' = [row EXCEPT ![a] = Rewritten(row[a], TRUE)]
      BY DEF Approve
    <2> QED BY <2>2, <2>3, <2>4 DEF Inv, TypeOK
  <1>2. x \in Job
    BY <1>1, StartIsJob DEF DatabaseSteps
  <1>3. w \in Workers /\ w # Scheduler
    BY AnchoringAssumption DEF Workers
  <1>4. Grounded(w, x)
    BY <1>1, <1>3, StartIsGrounded
  <1>5. job' = [job EXCEPT ![w] = x] /\ requests' \in 0..MaxRequests
    BY AnchoringAssumption DEF Approve, Begin, Inv, TypeOK
  <1> HIDE DEF x
  <1> QED BY <1>1, <1>2, <1>3, <1>4, <1>5, ReadKeeps DEF Approve, Inv, TypeOK

LEMMA RetryKeeps ==
  ASSUME Inv, NEW w \in Jobs, NEW a \in Allocations, Retry(w, a)
  PROVE  Keeps(w)
  <1> DEFINE x == Start("load", Content(a))
  <1>1. w \in Workers /\ w # Scheduler
    BY AnchoringAssumption DEF Workers
  <1>2. x \in Job /\ Grounded(w, x)
    BY <1>1, ContentIsContent, StartIsJob, StartIsGrounded DEF DatabaseSteps
  <1>3. job' = [job EXCEPT ![w] = x] /\ requests' \in 0..MaxRequests
    BY AnchoringAssumption DEF Retry, Begin, Inv, TypeOK
  <1> HIDE DEF x
  <1> QED BY <1>1, <1>2, <1>3, ReadKeeps DEF Retry, Inv, TypeOK

LEMMA LookupKeeps ==
  ASSUME Inv, NEW w \in Workers, Lookup(w)
  PROVE  Keeps(w)
  <1> DEFINE c == job[w].content
  <1>1. /\ job[w] # None /\ job[w].step = "lookup" /\ job[w].mode = "create"
        /\ job[w].tx = "none" /\ job[w].status = "Pending" /\ c \in Contents
        /\ w # Scheduler
    BY InFlight DEF Lookup, At, Grounded
  <1>2. CASE record[c] # None /\ Unconfirmed(c)
    <2>1. Start("load", c) \in Job /\ Grounded(w, Start("load", c))
      BY <1>1, StartIsJob, StartIsGrounded DEF DatabaseSteps
    <2> QED BY <1>2, <2>1, MoveKeeps DEF Lookup, Goto, Inv, TypeOK
  <1>3. CASE record[c] # None /\ ~Unconfirmed(c)
    BY <1>3, EndKeeps DEF Lookup, Inv, TypeOK
  <1>4. CASE record[c] = None /\ node = "unconfigured"
    BY <1>1, <1>4, ProceedKeeps DEF Lookup, Grounded, DatabaseSteps
  <1>5. CASE record[c] = None /\ node # "unconfigured"
    BY <1>1, <1>5, ProceedKeeps DEF Lookup, Grounded, LedgerSteps
  <1> QED BY <1>2, <1>3, <1>4, <1>5

LEMMA LoadKeeps ==
  ASSUME Inv, NEW w \in Workers, Load(w)
  PROVE  Keeps(w)
  <1> DEFINE a == job[w].content[1]
             x == Start("current", Content(a))
  <1>1. job[w] # None /\ job[w].step = "load" /\ job[w].mode = "create" /\ a \in Allocations
    BY InFlight DEF Load, At, Grounded
  <1>2. CASE row[a].deleted
    BY <1>2, EndKeeps DEF Load, Inv, TypeOK
  <1>3. CASE ~row[a].deleted
    <2>1. w = Scheduler => CurrentContents(a) # {}
      BY <1>1, InFlight DEF Grounded
    <2>2. x \in Job /\ Grounded(w, x)
      BY <1>1, <2>1, ContentIsContent, StartIsJob, StartIsGrounded DEF DatabaseSteps
    <2>3. job' = [job EXCEPT ![w] = x]
      BY <1>3 DEF Load, Goto
    <2> HIDE DEF x
    <2> QED BY <2>2, <2>3, MoveKeeps DEF Load, Inv, TypeOK
  <1> QED BY <1>2, <1>3

\* The scheduler's job finds a record, so only a request goes on to create one.
LEMMA CurrentKeeps ==
  ASSUME Inv, NEW w \in Workers, Current(w)
  PROVE  Keeps(w)
  <1> DEFINE found == CurrentContents(job[w].content[1])
  <1>1. /\ job[w] # None /\ job[w].step = "current" /\ job[w].mode = "create"
        /\ job[w].tx = "none" /\ job[w].status = "Pending"
        /\ w = Scheduler => found # {}
    BY InFlight DEF Current, At, Grounded
  <1>2. CASE found = {} /\ Proceed(w, "lookup")
    BY <1>1, <1>2, ProceedKeeps DEF Current, Grounded, DatabaseSteps
  <1>3. CASE End(w)
    BY <1>3, EndKeeps DEF Current, Inv, TypeOK
  <1>4. ASSUME NEW c \in found,
               Goto(w, [job[w] EXCEPT !.step = "verify", !.mode = "update", !.content = c])
        PROVE  Keeps(w)
    <2> DEFINE x == [job[w] EXCEPT !.step = "verify", !.mode = "update", !.content = c]
    <2>1. c \in Contents /\ record[c] # None
      BY DEF CurrentContents
    <2>2. x \in Job /\ x.step = "verify" /\ x.mode = "update" /\ x.tx = "none" /\ x.content = c
      BY <1>1, <2>1, InFlight DEF Job, LedgerSteps
    <2>3. Grounded(w, x)
      BY <2>1, <2>2 DEF Grounded
    <2>4. job' = [job EXCEPT ![w] = x]
      BY <1>4 DEF Goto
    <2> HIDE DEF x
    <2> QED BY <2>2, <2>3, <2>4, MoveKeeps DEF Current, Inv, TypeOK
  <1> QED BY <1>2, <1>3, <1>4 DEF Current

LEMMA VerifyKeeps ==
  ASSUME Inv, NEW w \in Workers, Verify(w)
  PROVE  Keeps(w)
  <1>1. job[w] # None /\ job[w].step = "verify" /\ job[w].tx = "none"
    BY InFlight DEF Verify, At, Grounded
  <1>2. CASE node = "up" /\ job[w].content \in chain
    BY <1>1, <1>2, OutcomeKeeps DEF Verify
  <1>3. CASE ~(node = "up" /\ job[w].content \in chain)
    BY <1>1, <1>3, InFlight, ProceedKeeps DEF Verify, Grounded, LedgerSteps
  <1> QED BY <1>2, <1>3

LEMMA SubmitKeeps ==
  ASSUME Inv, NEW w \in Workers, Submit(w)
  PROVE  Keeps(w)
  <1>1. job[w] # None /\ job[w].step = "submit" /\ job[w].tx = "none"
    BY InFlight DEF Submit, At, Grounded
  <1>2. CASE node = "up" /\ job[w].content \notin chain
    <2> DEFINE x == [job[w] EXCEPT !.step = "wait", !.tx = "sent"]
    <2>1. x \in Job /\ x.step = "wait" /\ x.mode = job[w].mode /\ x.tx = "sent"
            /\ x.content = job[w].content
      BY <1>1, InFlight DEF Job, LedgerSteps
    <2>2. Grounded(w, x)
      BY <1>1, <2>1, InFlight DEF Grounded
    <2>3. job' = [job EXCEPT ![w] = x]
      BY <1>2 DEF Submit, Goto
    <2> HIDE DEF x
    <2> QED BY <2>1, <2>2, <2>3, MoveKeeps DEF Submit, Inv, TypeOK
  <1>3. CASE ~(node = "up" /\ job[w].content \notin chain)
    BY <1>1, <1>3, FailureKeeps DEF Submit, Inv, TypeOK
  <1> QED BY <1>2, <1>3

LEMMA ReceiptKeeps ==
  ASSUME Inv, NEW w \in Workers, Receipt(w)
  PROVE  Keeps(w)
  <1>1. job[w] # None /\ job[w].step = "wait"
    BY DEF Receipt, At
  <1>2. CASE job[w].tx = "mined" /\ Outcome(w, "Confirmed")
    BY <1>1, <1>2, InFlight, OutcomeKeeps DEF Receipt, Grounded
  <1>3. CASE job[w].tx = "reverted" /\ Failure(w)
    BY <1>1, <1>3, FailureKeeps DEF Receipt, Inv, TypeOK
  <1> QED BY <1>2, <1>3 DEF Receipt

-----------------------------------------------------------------------------
(* The steps that write a record. *)

\* What createCurrent leaves of the other records: only their current flag
\* may change, and only for records of the same allocation.
LEMMA CreatedRecords ==
  ASSUME Inv, NEW w \in Workers, CreateCurrent(w), record[job[w].content] = None
  PROVE  /\ record' \in [Contents -> RecordRow \cup {None}]
         /\ record'[job[w].content] # None
         /\ record'[job[w].content].status = job[w].status
         /\ record'[job[w].content].current
         /\ \A c \in Contents \ {job[w].content} :
              /\ record'[c] = None <=> record[c] = None
              /\ record[c] # None => record'[c].status = record[c].status
              /\ c[1] # job[w].content[1] => record'[c] = record[c]
              /\ c[1] = job[w].content[1] /\ record[c] # None => ~record'[c].current
  <1> DEFINE j == job[w]
             mined == j.tx = "mined"
             new == [status |-> j.status, tx |-> mined, current |-> TRUE]
  <1>1. j \in Job /\ j.content \in Contents
    BY InFlight DEF CreateCurrent, At
  <1>2. new \in RecordRow /\ new # None /\ new.status = j.status /\ new.current
    <2>1. mined \in BOOLEAN
      OBVIOUS
    <2> HIDE DEF mined
    <2>2. new \in RecordRow
      BY <1>1, <2>1 DEF RecordRow, Job
    <2> QED BY <2>2, NoneAssumption
  <1>3. record' = [c \in Contents |->
                     CASE c = j.content -> new
                       [] c \in CurrentContents(j.content[1]) \ {j.content} ->
                            [record[c] EXCEPT !.current = FALSE]
                       [] OTHER -> record[c]]
    BY DEF CreateCurrent
  <1> HIDE DEF new
  <1>4. record'[j.content] = new
    BY <1>1, <1>3
  <1>5. ASSUME NEW c \in Contents \ {j.content}
        PROVE  /\ record'[c] \in RecordRow \cup {None}
               /\ record'[c] = None <=> record[c] = None
               /\ record[c] # None => record'[c].status = record[c].status
               /\ c[1] # j.content[1] => record'[c] = record[c]
               /\ c[1] = j.content[1] /\ record[c] # None => ~record'[c].current
    <2>1. CASE c \in CurrentContents(j.content[1])
      <3>1. record[c] \in RecordRow /\ record[c] # None /\ c[1] = j.content[1]
        BY <2>1 DEF CurrentContents, Inv, TypeOK
      <3>2. record'[c] = [record[c] EXCEPT !.current = FALSE]
        BY <1>3, <2>1
      <3> QED BY <3>1, <3>2, NoneAssumption DEF RecordRow
    <2>2. CASE c \notin CurrentContents(j.content[1])
      <3>1. record'[c] = record[c]
        BY <1>3, <2>2
      <3>2. c[1] = j.content[1] /\ record[c] # None => ~record[c].current
        BY <2>2 DEF CurrentContents
      <3> QED BY <3>1, <3>2 DEF Inv, TypeOK
    <2> QED BY <2>1, <2>2
  <1>6. record' \in [Contents -> RecordRow \cup {None}]
    <2>1. record' = [c \in Contents |-> record'[c]]
      BY <1>3
    <2> QED BY <2>1, <1>2, <1>4, <1>5
  <1> QED BY <1>2, <1>4, <1>5, <1>6

\* Ending a job keeps it grounded whatever else the step did.
LEMMA EndedJob ==
  ASSUME Inv, NEW w \in Workers, End(w)
  PROVE  /\ job' \in [Workers -> Job \cup {None}]
         /\ job'[w] = None
         /\ \A v \in Workers \ {w} : job'[v] = job[v]
  BY DEF End, Goto, Inv, TypeOK

LEMMA CreateKeeps ==
  ASSUME Inv, NEW w \in Workers, CreateCurrent(w)
  PROVE  Keeps(w)
  <1> DEFINE j == job[w]
  <1>1. j # None /\ j.step = "create" /\ j.content \in Contents
          /\ (j.status = "Confirmed" => j.content \in chain)
    BY InFlight DEF CreateCurrent, At, Grounded
  <1>2. CASE record[j.content] # None
    BY <1>2, EndKeeps DEF CreateCurrent, Inv, TypeOK
  <1>3. CASE record[j.content] = None
    <2>1. End(w) /\ UNCHANGED <<row, chain, orphans, node, pass, requests, faults>>
      BY DEF CreateCurrent
    <2>2. TypeOK'
      BY <1>3, <2>1, CreatedRecords, EndedJob DEF Inv, TypeOK
    <2>3. ASSUME NEW a \in Allocations, CurrentContents(a) # {}
          PROVE  CurrentContents(a)' # {}
      <3>1. CASE a = j.content[1]
        <4>1. j.content \in CurrentContents(a)'
          BY <1>1, <1>3, <3>1, CreatedRecords DEF CurrentContents
        <4> QED BY <4>1
      <3>2. CASE a # j.content[1]
        <4>1. PICK c \in Contents : c[1] = a /\ record[c] # None /\ record[c].current
          BY <2>3 DEF CurrentContents
        <4>2. record'[c] = record[c]
          BY <1>3, <3>2, <4>1, CreatedRecords
        <4>3. c \in CurrentContents(a)'
          BY <4>1, <4>2 DEF CurrentContents
        <4> QED BY <4>3
      <3> QED BY <3>1, <3>2
    <2>4. Monotone
      BY <1>3, <2>1, <2>3, CreatedRecords DEF Monotone
    <2>5. Confirmed' = IF j.status = "Confirmed" THEN Confirmed \cup {j.content} ELSE Confirmed
      BY <1>1, <1>3, CreatedRecords DEF Confirmed
    <2>6. RecordsAreGrounded'
      BY <1>1, <2>1, <2>5 DEF Inv, RecordsAreGrounded
    <2>7. LedgerStep
      BY <1>1, <2>1, <2>5
      DEF LedgerStep, Confirmed, Ledger!vars, Ledger!Next, Ledger!Confirm
    <2> QED BY <2>1, <2>2, <2>4, <2>6, <2>7, EndedJob DEF Keeps
  <1> QED BY <1>2, <1>3

LEMMA UpdateKeeps ==
  ASSUME Inv, NEW w \in Workers, UpdateRecord(w)
  PROVE  Keeps(w)
  <1> DEFINE j == job[w]
             mined == j.tx = "mined"
             new == [record[j.content] EXCEPT !.status = j.status, !.tx = mined]
  <1>1. /\ j # None /\ j.step = "update" /\ j.content \in Contents
        /\ j.status = "Confirmed" /\ j.content \in chain /\ record[j.content] # None
    BY InFlight DEF UpdateRecord, At, Grounded
  <1>2. mined \in BOOLEAN
    OBVIOUS
  <1>3. End(w) /\ UNCHANGED <<row, chain, orphans, node, pass, requests, faults>>
    BY DEF UpdateRecord
  <1>4. record' = [record EXCEPT ![j.content] = new]
    BY DEF UpdateRecord
  <1> HIDE DEF mined
  <1>5. /\ new \in RecordRow /\ new # None /\ new.status = "Confirmed"
        /\ new.current = record[j.content].current
    <2>1. record[j.content] \in RecordRow
      BY <1>1 DEF Inv, TypeOK
    <2> QED BY <1>1, <1>2, <2>1, NoneAssumption DEF RecordRow
  <1> HIDE DEF new
  <1>6. record'[j.content] = new /\ \A c \in Contents \ {j.content} : record'[c] = record[c]
    BY <1>1, <1>4 DEF Inv, TypeOK
  <1>7. TypeOK'
    BY <1>3, <1>4, <1>5, EndedJob DEF Inv, TypeOK
  <1>8. Monotone
    <2>1. ASSUME NEW a \in Allocations PROVE CurrentContents(a)' = CurrentContents(a)
      BY <1>1, <1>5, <1>6 DEF CurrentContents
    <2> QED BY <1>3, <1>5, <1>6, <2>1 DEF Monotone
  <1>9. Confirmed' = Confirmed \cup {j.content}
    BY <1>1, <1>5, <1>6 DEF Confirmed
  <1>10. RecordsAreGrounded' /\ LedgerStep
    BY <1>1, <1>3, <1>9
    DEF Inv, RecordsAreGrounded, LedgerStep, Confirmed, Ledger!vars, Ledger!Next, Ledger!Confirm
  <1> QED BY <1>3, <1>7, <1>8, <1>10, EndedJob DEF Keeps

-----------------------------------------------------------------------------
(* The ledger's steps, and failures that end or divert one job. *)

LEMMA MineKeeps ==
  ASSUME Inv, NEW w \in Workers, Mine(w)
  PROVE  Keeps(w)
  <1> DEFINE c == job[w].content
             x == [job[w] EXCEPT !.tx = IF c \in chain THEN "reverted" ELSE "mined"]
  <1>1. job[w] # None /\ job[w].step = "wait" /\ c \in Contents
    BY InFlight DEF Mine, At
  <1>2. /\ x \in Job /\ x.step = "wait" /\ x.mode = job[w].mode /\ x.content = c
        /\ x.status = job[w].status
    BY <1>1, InFlight DEF Job
  <1>3. job' = [job EXCEPT ![w] = x] /\ chain' = chain \cup {c}
          /\ UNCHANGED <<row, record, orphans, node, pass, requests, faults>>
    BY DEF Mine, Goto
  <1> HIDE DEF x
  <1>4. job'[w] = x /\ \A v \in Workers \ {w} : job'[v] = job[v]
    BY <1>3 DEF Inv, TypeOK
  <1>5. TypeOK'
    BY <1>1, <1>2, <1>3 DEF Inv, TypeOK
  <1>6. Monotone
    BY <1>3 DEF Monotone, CurrentContents
  <1>7. Confirmed' = Confirmed
    BY <1>3 DEF Confirmed
  <1>8. RecordsAreGrounded'
    BY <1>3, <1>7 DEF Inv, RecordsAreGrounded
  <1>9. LedgerStep
    BY <1>1, <1>3, <1>7 DEF LedgerStep, Confirmed, Ledger!vars, Ledger!Next, Ledger!Record
  <1>10. Grounded(w, job[w])'
    <2>1. w = Scheduler => x.mode = "update"
      BY <1>1, <1>2, InFlight DEF Grounded
    <2>2. x.mode = "update" => record[c] # None
      BY <1>1, <1>2, InFlight DEF Grounded
    <2> QED BY <1>1, <1>2, <1>3, <1>4, <2>1, <2>2 DEF Grounded
  <1> QED BY <1>4, <1>5, <1>6, <1>8, <1>9, <1>10 DEF Keeps

LEMMA FaultBound ==
  ASSUME Inv, Fault
  PROVE  faults' \in 0..MaxFaults
  BY AnchoringAssumption DEF Fault, Inv, TypeOK

LEMMA LoseReceiptKeeps ==
  ASSUME Inv, NEW w \in Workers, LoseReceipt(w)
  PROVE  Keeps(w)
  <1>1. job[w] # None /\ job[w].step = "wait" /\ job[w].content \in Contents
    BY InFlight DEF LoseReceipt, At
  <1>2. orphans' \in SUBSET Contents
    BY <1>1 DEF LoseReceipt, Inv, TypeOK
  <1> QED BY <1>1, <1>2, FailureKeeps DEF LoseReceipt, Inv, TypeOK

LEMMA RejectTransactionKeeps ==
  ASSUME Inv, NEW w \in Workers, RejectTransaction(w)
  PROVE  Keeps(w)
  BY FaultBound, FailureKeeps DEF RejectTransaction, At, Inv, TypeOK

LEMMA DropKeeps ==
  ASSUME Inv, NEW w \in Workers, Drop(w)
  PROVE  Keeps(w)
  <1> DEFINE x == [job[w] EXCEPT !.tx = "dropped"]
  <1>1. job[w] # None /\ job[w].step = "wait"
    BY DEF Drop, At
  <1>2. /\ x \in Job /\ x.step = "wait" /\ x.mode = job[w].mode /\ x.tx = "dropped"
        /\ x.content = job[w].content
    BY <1>1, InFlight DEF Job
  <1>3. Grounded(w, x)
    BY <1>1, <1>2, InFlight DEF Grounded
  <1>4. job' = [job EXCEPT ![w] = x]
    BY DEF Drop, Goto
  <1> HIDE DEF x
  <1> QED BY <1>2, <1>3, <1>4, FaultBound, MoveKeeps DEF Drop

LEMMA FailKeeps ==
  ASSUME Inv, NEW w \in Workers, Fail(w)
  PROVE  Keeps(w)
  BY FaultBound, EndKeeps DEF Fail

LEMMA NextRecordKeeps ==
  ASSUME Inv, NextRecord
  PROVE  /\ Keeps(Scheduler)
         /\ pass # None /\ pass' \subseteq pass
  <1>1. PICK a \in pass : /\ pass' = pass \ {a}
                          /\ Goto(Scheduler, Start("load", Content(a)))
    BY DEF NextRecord
  <1>2. pass # None
    BY DEF NextRecord
  <1>3. pass \subseteq Allocations /\ a \in Allocations
    BY <1>2 DEF Inv, TypeOK
  <1> DEFINE x == Start("load", Content(a))
  <1>4. x \in Job /\ Grounded(Scheduler, x)
    <2>1. CurrentContents(Content(a)[1]) # {}
      BY <1>2, <1>3, ContentIsContent DEF Inv, JobsAreGrounded
    <2> QED BY <1>3, <2>1, ContentIsContent, StartIsJob, StartIsGrounded
            DEF DatabaseSteps, Workers
  <1>5. job' = [job EXCEPT ![Scheduler] = x] /\ Scheduler \in Workers
    BY <1>1 DEF Goto, Workers
  <1> HIDE DEF x
  <1>6. Keeps(Scheduler)
    BY <1>1, <1>3, <1>4, <1>5, ReadKeeps DEF NextRecord, Inv, TypeOK
  <1> QED BY <1>1, <1>2, <1>6

-----------------------------------------------------------------------------
(* Every step. *)

\* What a step of one job keeps, with a pass no larger than before.
LEMMA KeepsIsEnough ==
  ASSUME Inv, NEW w \in Workers, Keeps(w),
         pass' = pass \/ (pass # None /\ pass' \subseteq pass)
  PROVE  Inv' /\ LedgerStep
  <1>1. ASSUME NEW v \in Workers, job'[v] # None
        PROVE  Grounded(v, job[v])'
    <2>1. CASE v = w
      <3>1. (job[w] # None => Grounded(w, job[w]))'
        BY DEF Keeps
      <3> QED BY <1>1, <2>1, <3>1
    <2>2. CASE v # w
      <3>1. job'[v] = job[v]
        BY <2>2 DEF Keeps
      <3> DEFINE j == job[v]
      <3>2. j \in Job /\ Grounded(v, j)
        BY <1>1, <3>1, InFlight
      <3>3. ASSUME NEW i \in Job, Grounded(v, i), job'[v] = i PROVE Grounded(v, job[v])'
        <4>1. Grounded(v, i)'
          BY <3>3, GroundedStays DEF Keeps
        <4> QED BY <3>3, <4>1 DEF Grounded, CurrentContents
      <3> QED BY <3>1, <3>2, <3>3
    <2> QED BY <2>1, <2>2
  <1>2. ASSUME pass' # None, NEW a \in pass'
        PROVE  CurrentContents(a)' # {}
    <2>1. a \in Allocations /\ CurrentContents(a) # {}
      BY <1>2 DEF Inv, TypeOK, JobsAreGrounded
    <2> QED BY <2>1 DEF Keeps, Monotone
  <1> QED BY <1>1, <1>2 DEF Keeps, Inv, JobsAreGrounded

\* A step outside the jobs that leaves records and ledger alone.
LEMMA Elsewhere ==
  ASSUME Inv, TypeOK', UNCHANGED <<record, chain>>,
         \A w \in Workers : job'[w] = job[w] \/ job'[w] = None,
         pass' \in {pass, None, UnconfirmedAllocations}
  PROVE  Inv' /\ LedgerStep
  <1>1. ASSUME NEW a PROVE CurrentContents(a)' = CurrentContents(a)
    BY DEF CurrentContents
  <1>2. ASSUME NEW w \in Workers, job'[w] # None PROVE Grounded(w, job[w])'
    <2>1. Grounded(w, job[w]) /\ job'[w] = job[w]
      BY <1>2, InFlight
    <2> QED BY <1>1, <2>1 DEF Grounded
  <1>3. ASSUME pass' # None, NEW a \in pass' PROVE CurrentContents(a)' # {}
    BY <1>1, <1>3 DEF Inv, JobsAreGrounded, UnconfirmedAllocations
  <1>4. RecordsAreGrounded' /\ LedgerStep
    BY DEF Inv, RecordsAreGrounded, Confirmed, LedgerStep, Ledger!vars
  <1> QED BY <1>2, <1>3, <1>4 DEF Inv, JobsAreGrounded

LEMMA StepKeeps ==
  ASSUME Inv, NEW w \in Workers, Step(w)
  PROVE  Keeps(w) /\ UNCHANGED <<row, pass>>
  <1>1. Keeps(w)
    BY LookupKeeps, LoadKeeps, CurrentKeeps, VerifyKeeps, SubmitKeeps, ReceiptKeeps,
       CreateKeeps, UpdateKeeps DEF Step
  <1>2. UNCHANGED <<row, pass>>
    BY DEF Step, Lookup, Load, Current, Verify, Submit, Receipt, CreateCurrent, UpdateRecord
  <1> QED BY <1>1, <1>2

LEMMA NextKeeps ==
  ASSUME Inv, Next
  PROVE  Inv' /\ LedgerStep
  <1>1. ASSUME NEW w \in Jobs, NEW a \in Allocations, Approve(w, a) \/ Retry(w, a)
        PROVE  Inv' /\ LedgerStep
    <2>1. w \in Workers /\ Keeps(w)
      BY <1>1, ApproveKeeps, RetryKeeps DEF Workers
    <2>2. pass' = pass
      BY <1>1 DEF Approve, Retry
    <2> QED BY <2>1, <2>2, KeepsIsEnough
  <1>2. ASSUME NEW a \in Allocations, Revise(a) PROVE Inv' /\ LedgerStep
    <2>1. row[a] \in Row /\ row[a].version < MaxVersion
      BY <1>2 DEF Revise, Inv, TypeOK
    <2>2. row' \in [Allocations -> Row]
      BY <1>2, <2>1, RewrittenIsRow DEF Revise, Inv, TypeOK
    <2>3. TypeOK'
      BY <1>2, <2>2 DEF Revise, Inv, TypeOK
    <2> QED BY <1>2, <2>3, Elsewhere DEF Revise
  <1>3. ASSUME NEW a \in Allocations, Delete(a) PROVE Inv' /\ LedgerStep
    <2>1. TypeOK'
      BY <1>3 DEF Delete, Inv, TypeOK, Row
    <2> QED BY <1>3, <2>1, Elsewhere DEF Delete
  <1>4. ASSUME NEW w \in Workers, Step(w) PROVE Inv' /\ LedgerStep
    BY <1>4, StepKeeps, KeepsIsEnough
  <1>5. ASSUME NEW w \in Workers,
               Mine(w) \/ LoseReceipt(w) \/ RejectTransaction(w) \/ Drop(w) \/ Fail(w)
        PROVE  Inv' /\ LedgerStep
    <2>1. Keeps(w)
      BY <1>5, MineKeeps, LoseReceiptKeeps, RejectTransactionKeeps, DropKeeps, FailKeeps
    <2>2. pass' = pass
      BY <1>5 DEF Mine, LoseReceipt, RejectTransaction, Drop, Fail
    <2> QED BY <2>1, <2>2, KeepsIsEnough
  <1>6. CASE Tick
    <2>1. UnconfirmedAllocations \in SUBSET Allocations
      BY DEF UnconfirmedAllocations
    <2>2. TypeOK'
      BY <1>6, <2>1 DEF Tick, Inv, TypeOK
    <2> QED BY <1>6, <2>2, Elsewhere DEF Tick
  <1>7. CASE NextRecord
    BY <1>7, NextRecordKeeps, KeepsIsEnough DEF Workers
  <1>8. CASE EndPass
    <2>1. TypeOK'
      BY <1>8 DEF EndPass, Inv, TypeOK
    <2> QED BY <1>8, <2>1, Elsewhere DEF EndPass
  <1>9. CASE MineOrphan
    <2>1. PICK c \in orphans : chain' = chain \cup {c} /\ orphans' = orphans \ {c}
      BY <1>9 DEF MineOrphan
    <2>2. c \in Contents /\ UNCHANGED <<row, record, node, job, pass, requests, faults>>
      BY <1>9 DEF MineOrphan, Inv, TypeOK
    <2>3. TypeOK'
      BY <2>1, <2>2 DEF Inv, TypeOK
    <2>4. Confirmed' = Confirmed
      BY <2>2 DEF Confirmed
    <2>5. RecordsAreGrounded' /\ LedgerStep
      BY <2>1, <2>2, <2>4
      DEF Inv, RecordsAreGrounded, LedgerStep, Confirmed, Ledger!vars, Ledger!Next, Ledger!Record
    <2>6. JobsAreGrounded'
      BY <2>1, <2>2 DEF Inv, JobsAreGrounded, Grounded, CurrentContents
    <2> QED BY <2>3, <2>5, <2>6 DEF Inv
  <1>10. CASE Outage
    <2>1. TypeOK'
      BY <1>10 DEF Outage, NodeUp, NodeDown, Inv, TypeOK
    <2> QED BY <1>10, <2>1, Elsewhere DEF Outage
  <1>11. CASE Crash
    <2>1. orphans' \in SUBSET Contents
      BY <1>11, InFlight DEF Crash, At, Inv, TypeOK
    <2>2. TypeOK'
      BY <1>11, <2>1, FaultBound DEF Crash, Inv, TypeOK
    <2> QED BY <1>11, <2>2, Elsewhere DEF Crash
  <1> QED BY <1>1, <1>2, <1>3, <1>4, <1>5, <1>6, <1>7, <1>8, <1>9, <1>10, <1>11 DEF Next

LEMMA StutterKeeps ==
  ASSUME Inv, UNCHANGED vars
  PROVE  Inv' /\ LedgerStep
  BY DEF vars, Inv, TypeOK, JobsAreGrounded, Grounded, CurrentContents, RecordsAreGrounded,
         Confirmed, LedgerStep, Ledger!vars

-----------------------------------------------------------------------------
(* One current record. *)

CurrentIsUnique ==
  \A c \in Contents : record[c] # None => \E d \in Contents : CurrentContents(c[1]) = {d}

LEMMA OnlyTwoWrites ==
  ASSUME [Next]_vars
  PROVE  \/ UNCHANGED record
         \/ \E w \in Workers : CreateCurrent(w) \/ UpdateRecord(w)
  BY DEF Next, Step, vars, Approve, Retry, Revise, Delete, Lookup, Load, Current, Verify, Submit,
         Receipt, Mine, LoseReceipt, RejectTransaction, Drop, Fail, Tick, NextRecord, EndPass,
         MineOrphan, Outage, Crash

LEMMA CreateKeepsUnique ==
  ASSUME Inv, CurrentIsUnique, NEW w \in Workers, CreateCurrent(w)
  PROVE  CurrentIsUnique'
  <1> DEFINE new == job[w].content
  <1>1. new \in Contents
    BY InFlight DEF CreateCurrent, At
  <1>2. CASE record[new] # None
    BY <1>2 DEF CreateCurrent, CurrentIsUnique, CurrentContents
  <1>3. CASE record[new] = None
    <2>1. ASSUME NEW c \in Contents, record'[c] # None, c[1] = new[1]
          PROVE  CurrentContents(c[1])' = {new}
      BY <1>1, <1>3, <2>1, CreatedRecords DEF CurrentContents
    <2>2. ASSUME NEW c \in Contents, record'[c] # None, c[1] # new[1]
          PROVE  record[c] # None /\ CurrentContents(c[1])' = CurrentContents(c[1])
      BY <1>1, <1>3, <2>2, CreatedRecords DEF CurrentContents
    <2>3. ASSUME NEW c \in Contents, record'[c] # None
          PROVE  \E d \in Contents : CurrentContents(c[1])' = {d}
      BY <1>1, <2>1, <2>2, <2>3 DEF CurrentIsUnique
    <2> QED BY <2>3 DEF CurrentIsUnique
  <1> QED BY <1>2, <1>3

LEMMA UpdateKeepsUnique ==
  ASSUME Inv, CurrentIsUnique, NEW w \in Workers, UpdateRecord(w)
  PROVE  CurrentIsUnique'
  <1>1. job[w].content \in Contents /\ record[job[w].content] \in RecordRow
          /\ record[job[w].content] # None
    BY InFlight DEF UpdateRecord, At, Grounded, Inv, TypeOK
  <1>2. ASSUME NEW c \in Contents
        PROVE  /\ record'[c] # None => record[c] # None
               /\ record[c] # None => record'[c] # None /\ record'[c].current = record[c].current
    <2> DEFINE mined == job[w].tx = "mined"
               new == [record[job[w].content] EXCEPT !.status = job[w].status, !.tx = mined]
    <2>1. record' = [record EXCEPT ![job[w].content] = new]
      BY DEF UpdateRecord
    <2>2. new.current = record[job[w].content].current
      BY <1>1 DEF RecordRow
    <2>3. record'[job[w].content] # None
      BY <1>1, UpdateKeeps DEF Keeps, Monotone
    <2> HIDE DEF new
    <2> QED BY <1>1, <2>1, <2>2, <2>3 DEF Inv, TypeOK
  <1>3. ASSUME NEW a PROVE CurrentContents(a)' = CurrentContents(a)
    BY <1>2 DEF CurrentContents
  <1> QED BY <1>2, <1>3 DEF CurrentIsUnique

-----------------------------------------------------------------------------
(* Theorems. *)

(* The types, what every job knows, and that no record is Confirmed for a  *)
(* content the contract does not hold, as one inductive invariant.         *)
THEOREM AnchoringInvariant == Spec => []Inv
  <1>1. Init => Inv
    BY AnchoringAssumption
    DEF Init, Inv, TypeOK, Row, JobsAreGrounded, RecordsAreGrounded, Confirmed
  <1>2. Inv /\ [Next]_vars => Inv'
    BY NextKeeps, StutterKeeps
  <1> QED BY <1>1, <1>2, PTL DEF Spec

(* Every variable keeps its type, whatever fails. *)
THEOREM AnchoringTypes == Spec => []TypeOK
  BY AnchoringInvariant, PTL DEF Inv

(* No job confirms what is not on the ledger, updates a record that is not *)
(* there or, being the scheduler's, records what nobody asked for.         *)
THEOREM GroundedAnchors == Spec => []JobsAreGrounded
  BY AnchoringInvariant, PTL DEF Inv

(* An allocation that was ever recorded has exactly one live record: any   *)
(* number of createCurrent transactions leave the last one's.              *)
THEOREM CurrentRecordUnique == Spec => []OneCurrentRecord
  <1>1. Init => CurrentIsUnique
    BY DEF Init, CurrentIsUnique
  <1>2. Inv /\ CurrentIsUnique /\ [Next]_vars => CurrentIsUnique'
    BY OnlyTwoWrites, CreateKeepsUnique, UpdateKeepsUnique DEF CurrentIsUnique, CurrentContents
  <1>3. CurrentIsUnique => OneCurrentRecord
    <2>1. \A d \in Contents : Cardinality({d}) = 1
      BY FS_Singleton
    <2> QED BY <2>1 DEF CurrentIsUnique, OneCurrentRecord
  <1> QED BY <1>1, <1>2, <1>3, AnchoringInvariant, PTL DEF Spec

(* blockchain_records and the contract implement AnchorLedger: Confirmed   *)
(* means on the ledger, and neither is ever taken back.                    *)
THEOREM LedgerImplemented == Spec => ImplementsLedger
  <1>1. Init => Ledger!Init
    BY DEF Init, Ledger!Init
  <1>2. Inv /\ [Next]_vars => LedgerStep
    BY NextKeeps, StutterKeeps
  <1> QED BY <1>1, <1>2, AnchoringInvariant, PTL
          DEF Spec, ImplementsLedger, Ledger!Spec, LedgerStep
=============================================================================
