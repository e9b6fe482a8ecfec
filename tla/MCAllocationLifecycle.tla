------------------------ MODULE MCAllocationLifecycle -------------------------
(* Small instances of AllocationLifecycle. *)
EXTENDS AllocationLifecycle, TLC

CONSTANTS
  a1, a2, officer, treasurer, admin, y1, d1, d2, p1, p2, f1, c1,
  MaxHistory,   \* bound on the decisions taken on one allocation
  MaxChanged    \* bound on the entities inactive or moved and the years archived at the same time

MCRole ==
  [u \in Users |-> CASE u = officer   -> "BudgetOfficer"
                     [] u = treasurer -> "Treasurer"
                     [] u = admin     -> "Administrator"]

MCStartYear == [y \in FiscalYears |-> 2026]

MCProgramDepartment == [p \in Programs |-> IF p = p1 THEN d1 ELSE d2]

Changed ==
  master.inactive \cup {p \in Programs : master.department[p] # ProgramDepartment[p]}
    \cup {y \in FiscalYears : year[y].archived}

\* The life cycle with at most MaxHistory decisions on each allocation.
MCNext ==
  /\ Next
  /\ \A a \in Allocations : Len(history'[a]) <= MaxHistory
  /\ Cardinality(Changed') <= MaxChanged

MCSpec == Init /\ [][MCNext]_vars

\* Row identifiers are interchangeable.
Symmetry == Permutations(Allocations)
=============================================================================
