----------------------------- MODULE AnchorLedger -----------------------------
(***************************************************************************)
(* What anchoring promises, whatever the node, the database and the other  *)
(* requests do: the contract only ever gains contents, the database calls  *)
(* a content Confirmed only if the contract holds it, and never takes that *)
(* back.                                                                   *)
(***************************************************************************)
CONSTANT Contents  \* what is anchored: the hashes of allocation contents

VARIABLES
  chain,     \* BudgetLedger._records: the contents on the ledger
  confirmed  \* the contents the database reports as Confirmed

vars == <<chain, confirmed>>

Init == chain = {} /\ confirmed = {}

\* BudgetLedger.record reverts for a content it already holds.
Record(c) ==
  /\ c \notin chain
  /\ chain' = chain \cup {c}
  /\ UNCHANGED confirmed

Confirm(c) ==
  /\ c \in chain
  /\ confirmed' = confirmed \cup {c}
  /\ UNCHANGED chain

Next == \E c \in Contents : Record(c) \/ Confirm(c)

Spec == Init /\ [][Next]_vars
=============================================================================
