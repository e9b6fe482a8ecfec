------------------------------ MODULE MCRequests ------------------------------
(* Documents, fiscal years, users, sessions and listings in one run.  They *)
(* share Handlers and nothing else, so a behaviour follows one, focus:     *)
(* steps of the others commute with its own.                               *)
EXTENDS Documents, FiscalYears, Users, Sessions, Listings, TLC

CONSTANTS
  x1, x2, f1, f2, f3, w1, w2,
  RowRequests  \* bound on the requests where the table has rows to begin with

VARIABLE focus

MCPrefixes == {<<>>, <<2>>}

(* The sets of different components may share their values.                *)
Symmetry == Permutations({x1, x2}) \cup Permutations({f1, f2, f3}) \cup Permutations({w1, w2})

Init ==
  /\ HandlersInit /\ DocumentsInit /\ YearsInit /\ UsersInit /\ SessionsInit /\ ListingsInit
  /\ focus \in {"documents", "years", "users", "sessions", "listings"}
  /\ focus # "years" => year = [y \in Years |-> None]
  /\ focus # "users" => user = [u \in Users |-> Administrator]

Next ==
  /\ UNCHANGED focus
  /\ \/ focus = "documents" /\ DocumentsNext
        /\ UNCHANGED <<yearVars, userVars, sessionVars, listingVars>>
     \/ /\ focus = "years" /\ YearsNext /\ requests' <= RowRequests
        /\ UNCHANGED <<documentVars, userVars, sessionVars, listingVars>>
     \/ /\ focus = "users" /\ UsersNext /\ requests' <= RowRequests
        /\ UNCHANGED <<documentVars, yearVars, sessionVars, listingVars>>
     \/ /\ focus = "sessions" /\ SessionsNext
        /\ UNCHANGED <<documentVars, yearVars, userVars, listingVars>>
     \/ /\ focus = "listings" /\ ListingsNext
        /\ UNCHANGED <<documentVars, yearVars, userVars, sessionVars>>

vars == <<documentVars, yearVars, userVars, sessionVars, listingVars, handlerVars, focus>>

Spec == Init /\ [][Next]_vars

(* What the clients keep has its type: the storage and the requests of the *)
(* tabs, and what a reader of the listings has seen.                       *)
ClientTypeOK == SessionsTypeOK /\ ListingsTypeOK
=============================================================================
