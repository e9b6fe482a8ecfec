------------------------- MODULE MCAllocationWorkflow -------------------------
(* Small instances of AllocationWorkflow. *)
EXTENDS AllocationRefinement, TLC

CONSTANTS a1, a2, w1, w2, officer, treasurer, admin, y1, d1, d2, p1, p2, f1, f2, c1

MCRole ==
  [u \in Users |-> CASE u = officer   -> "BudgetOfficer"
                     [] u = treasurer -> "Treasurer"
                     [] u = admin     -> "Administrator"]

MCStartYear == [y \in FiscalYears |-> 2026]

MCProgramDepartment == [p \in Programs |-> IF p = p2 THEN d2 ELSE d1]

\* Row identifiers and workers are interchangeable.
Symmetry == Permutations(Allocations) \cup Permutations(Workers)
=============================================================================
