------------------------- MODULE AllocationRefinement -------------------------
(***************************************************************************)
(* With one request in flight and no faults the service implements the     *)
(* atomic life cycle.  The life cycle's step is the UPDATE of the row: the *)
(* history entry and the ledger record a request still owes count as made. *)
(***************************************************************************)
EXTENDS AllocationWorkflow

OwesHistory(w, a) == At(w, ReviewOperations, "history") /\ req[w].id = a

OwesRecord(w, a) ==
  /\ At(w, {"approve"}, "history") \/ At(w, {"approve"}, "ledger")
  /\ req[w].id = a

HistoryDue ==
  [a \in Allocations |->
     IF \E w \in Workers : OwesHistory(w, a)
     THEN LET r == req[CHOOSE w \in Workers : OwesHistory(w, a)] IN
          Append(history[a], [action |-> HistoryAction[r.op], actor |-> r.actor])
     ELSE history[a]]

RecordDue ==
  [a \in Allocations |->
     IF \E w \in Workers : OwesRecord(w, a)
     THEN req[CHOOSE w \in Workers : OwesRecord(w, a)].row
     ELSE recorded[a]]

Lifecycle == INSTANCE AllocationLifecycle WITH history <- HistoryDue, recorded <- RecordDue

\* Every behaviour of the service with a single worker is one of the life cycle.
ImplementsLifecycle == Lifecycle!Spec
=============================================================================
