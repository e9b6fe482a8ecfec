------------------------- MODULE AllocationLifecycle --------------------------
(***************************************************************************)
(* What the allocation API promises one caller at a time: each operation   *)
(* checks and writes in a single step.  AllocationWorkflow runs the same   *)
(* operations query by query; with one request in flight it implements     *)
(* this module.                                                            *)
(***************************************************************************)
EXTENDS AllocationData, Sequences

CONSTANTS
  Operations,   \* the operations the users of this instance perform
  SeamTargets   \* statuses asked of transitionStatus

ASSUME LifecycleAssumption ==
  /\ IsFiniteSet(Allocations)
  /\ None \notin Row

VARIABLES
  alloc,     \* the row of each allocation, or None
  history,   \* the decisions taken on each allocation, oldest first
  recorded,  \* the row last recorded on the ledger for an allocation
  year,      \* fiscal years
  master     \* departments, programs, fund sources and categories

vars == <<alloc, history, recorded, year, master>>

Init ==
  /\ alloc = [a \in Allocations |-> None]
  /\ history = [a \in Allocations |-> <<>>]
  /\ recorded = [a \in Allocations |-> None]
  /\ year \in [FiscalYears -> [budget: Budgets, archived: {FALSE}]]
  /\ master = FirstMasterData

\* Mutation: the amount alone is compared with the ceiling.
FitsCeilingAlone(y, amount) == ~year[y].archived /\ amount <= year[y].budget

\* validateBudgetCeiling throws when the amount exceeds what remains.
FitsCeiling(y, amount) ==
  /\ ~year[y].archived
  /\ ~(amount + CommittedAmount(alloc, y) > year[y].budget)

Create(user, y, refs, amount) ==
  /\ "create" \in Operations
  /\ Role[user] \in WriteRoles
  /\ ReferencesValid(refs, DOMAIN refs, master)
  /\ FitsCeiling(y, amount)
  /\ ~DuplicateExists(alloc, y, refs, {})
  /\ \E a \in Allocations, n \in 0..Cardinality(Allocations) :
       /\ ~Exists(alloc, a)
       /\ IsMaxSequence(alloc, y, n)
       /\ ~CodeTaken(alloc, y, n + 1)
       /\ alloc' = [alloc EXCEPT ![a] =
                      [NewDraft(y, refs, amount, user) EXCEPT !.code = n + 1]]
  /\ UNCHANGED <<history, recorded, year, master>>

\* Mutation: the duplicate check looks at the references the row has now.
UpdateChecksOldReferences(user, a, refs, amount) ==
  LET changed == ChangedReferences(alloc[a].refs, refs) IN
  /\ "update" \in Operations /\ Role[user] \in WriteRoles
  /\ Live(alloc, a) /\ alloc[a].status = "Draft"
  /\ ReferencesValid(refs, FieldsToValidate(changed), master)
  /\ ~DuplicateExists(alloc, alloc[a].fiscalYear, alloc[a].refs, {a})
  /\ alloc' = [alloc EXCEPT ![a] = Edited(@, changed, refs, amount)]
  /\ UNCHANGED <<history, recorded, year, master>>

\* Mutation: any live allocation can be edited.
UpdateAnyStatus(user, a, refs, amount) ==
  LET changed == ChangedReferences(alloc[a].refs, refs) IN
  /\ "update" \in Operations /\ Role[user] \in WriteRoles
  /\ Live(alloc, a)
  /\ ReferencesValid(refs, FieldsToValidate(changed), master)
  /\ changed # {} => ~DuplicateExists(alloc, alloc[a].fiscalYear, refs, {a})
  /\ alloc' = [alloc EXCEPT ![a] = Edited(@, changed, refs, amount)]
  /\ UNCHANGED <<history, recorded, year, master>>

Update(user, a, refs, amount) ==
  LET changed == ChangedReferences(alloc[a].refs, refs) IN
  /\ "update" \in Operations
  /\ Role[user] \in WriteRoles
  /\ Live(alloc, a)
  /\ alloc[a].status = "Draft"
  /\ ReferencesValid(refs, FieldsToValidate(changed), master)
  /\ changed # {} => ~DuplicateExists(alloc, alloc[a].fiscalYear, refs, {a})
  /\ alloc' = [alloc EXCEPT ![a] = Edited(@, changed, refs, amount)]
  /\ UNCHANGED <<history, recorded, year, master>>

Delete(user, a) ==
  /\ "delete" \in Operations
  /\ Role[user] \in WriteRoles
  /\ Live(alloc, a)
  /\ MayDelete(alloc[a], user)
  /\ alloc' = [alloc EXCEPT ![a] = [@ EXCEPT !.deleted = TRUE]]
  /\ UNCHANGED <<history, recorded, year, master>>

\* Mutation: a return leaves no history entry.
DecideWithoutReturnEntry(user, a, op) ==
  LET row == Transitioned(alloc[a], op, TargetStatus[op], user) IN
  /\ op \in Operations /\ Role[user] \in RouteRoles[op]
  /\ Live(alloc, a) /\ MayDecide(op, alloc[a], user)
  /\ TargetStatus[op] \in AllowedTransitions[alloc[a].status]
  /\ op = "approve" => FitsCeiling(alloc[a].fiscalYear, alloc[a].amount)
  /\ alloc' = [alloc EXCEPT ![a] = row]
  /\ history' = IF op = "return" THEN history
                ELSE [history EXCEPT ![a] =
                        Append(@, [action |-> HistoryAction[op], actor |-> user])]
  /\ recorded' = IF op = "approve" THEN [recorded EXCEPT ![a] = row] ELSE recorded
  /\ UNCHANGED <<year, master>>

\* Submit, approve, reject or return: the transition, its history entry and,
\* for an approval, the ledger record happen together.
Decide(user, a, op) ==
  LET row == Transitioned(alloc[a], op, TargetStatus[op], user) IN
  /\ op \in Operations
  /\ Role[user] \in RouteRoles[op]
  /\ Live(alloc, a)
  /\ MayDecide(op, alloc[a], user)
  /\ TargetStatus[op] \in AllowedTransitions[alloc[a].status]
  /\ op = "approve" => FitsCeiling(alloc[a].fiscalYear, alloc[a].amount)
  /\ alloc' = [alloc EXCEPT ![a] = row]
  /\ history' = [history EXCEPT ![a] =
                   Append(@, [action |-> HistoryAction[op], actor |-> user])]
  /\ recorded' = IF op = "approve" THEN [recorded EXCEPT ![a] = row] ELSE recorded
  /\ UNCHANGED <<year, master>>

\* transitionStatus leaves no trace beyond the status itself.
Transition(user, a, target) ==
  /\ "transition" \in Operations
  /\ Live(alloc, a)
  /\ target \in AllowedTransitions[alloc[a].status]
  /\ target = "Approved" => FitsCeiling(alloc[a].fiscalYear, alloc[a].amount)
  /\ alloc' = [alloc EXCEPT ![a] = Transitioned(@, "transition", target, user)]
  /\ UNCHANGED <<history, recorded, year, master>>

ChangeFiscalYear(y, row) ==
  /\ "fiscalYear" \in Operations
  /\ year' = [year EXCEPT ![y] = row]
  /\ UNCHANGED <<alloc, history, recorded, master>>

ToggleEntity(e) ==
  /\ "masterData" \in Operations
  /\ master' = [master EXCEPT !.inactive = SymDiff(@, {e})]
  /\ UNCHANGED <<alloc, history, recorded, year>>

\* updateBudgetProgram looks at the new department and at no allocation.
MoveProgram(p, d) ==
  /\ "programs" \in Operations
  /\ master' = [master EXCEPT !.department[p] = d]
  /\ UNCHANGED <<alloc, history, recorded, year>>

Next ==
  \/ \E user \in Users, y \in FiscalYears, refs \in References, amount \in Amounts :
       Create(user, y, refs, amount)
  \/ \E user \in Users, a \in Allocations, refs \in References, amount \in Amounts \cup {0} :
       Live(alloc, a) /\ Update(user, a, refs, amount)
  \/ \E user \in Users, a \in Allocations :
       \/ Delete(user, a)
       \/ \E op \in ReviewOperations : Live(alloc, a) /\ Decide(user, a, op)
       \/ \E target \in SeamTargets : Transition(user, a, target)
  \/ \E y \in FiscalYears, row \in FiscalYearRow : ChangeFiscalYear(y, row)
  \/ \E e \in Entities : ToggleEntity(e)
  \/ \E p \in Programs, d \in Departments : MoveProgram(p, d)

Spec == Init /\ [][Next]_vars

-----------------------------------------------------------------------------
(* Properties. *)

LifecycleTypeOK ==
  /\ alloc \in [Allocations -> Row \cup {None}]
  /\ history \in [Allocations -> Seq(HistoryEntry)]
  /\ recorded \in [Allocations -> Row \cup {None}]
  /\ year \in [FiscalYears -> FiscalYearRow]
  /\ master \in MasterData

\* The approved total of a fiscal year only ever grows within the ceiling the
\* year has at that moment: neither an approval nor an edit, a return or a
\* change of master data can push it above (lowering the ceiling below what is
\* already committed is allowed and is not growth).
GrowsWithinBudget ==
  [][\A y \in FiscalYears :
       CommittedAmount(alloc', y) > CommittedAmount(alloc, y)
         => CommittedAmount(alloc', y) <= year'[y].budget]_vars

\* The approval history alone tells the status of an allocation that has not
\* been archived: the last decision on it is the one in force.
HistoryExplainsStatus ==
  \A a \in Allocations :
    Exists(alloc, a) /\ alloc[a].status # "Archived" =>
      LET n == Len(history[a]) IN
      alloc[a].status =
        IF n = 0 THEN "Draft"
        ELSE CHOOSE s \in Statuses :
               \E op \in ReviewOperations :
                 HistoryAction[op] = history[a][n].action /\ TargetStatus[op] = s

\* An approved allocation still has the very content that went to the ledger,
\* so verifyAllocation never reports a discrepancy nobody caused.
ApprovedAsRecorded ==
  \A a \in Allocations :
    Live(alloc, a) /\ alloc[a].status = "Approved" => recorded[a] = alloc[a]

\* No two live allocations share fiscal year, department, program, fund source
\* and category (rejected and archived ones do not count).
NoLiveDuplicates == \A a, b \in Allocations : ~Clash(alloc, a, b)

\* The only way to two live allocations with the same combination is to take a
\* rejected allocation back to draft after its replacement was created: no
\* create and no edit ever makes a duplicate.
DuplicatesOnlyByReturn ==
  [][\A a, b \in Allocations :
       Clash(alloc', a, b) /\ ~Clash(alloc, a, b) =>
         \E c \in {a, b} : Exists(alloc, c) /\ alloc[c].status = "Rejected"]_vars

\* The department and program of an allocation.
Filed(table, a) == <<table[a].refs.department, table[a].refs.program>>

(* A create or an edit files an allocation under the department its        *)
(* program belongs to, whichever of the two it names and wherever programs *)
(* have moved: only moving a program takes the two apart.                  *)
ProgramMatchesDepartment ==
  [][\A a \in Allocations :
       Exists(alloc', a) /\ (Exists(alloc, a) => Filed(alloc, a) # Filed(alloc', a))
         => master'.department[alloc'[a].refs.program] = alloc'[a].refs.department]_vars
=============================================================================
