------------------------------- MODULE Handlers -------------------------------
(***************************************************************************)
(* What the request handlers of the API server have in common.  A handler  *)
(* is an async function: it runs until an await, other handlers run until  *)
(* the awaited query answers, and it goes on.  A call is what a handler    *)
(* remembers between two awaits; its step names the query it waits for.    *)
(* Components keep a table of calls each, and share the bounds.            *)
(***************************************************************************)
EXTENDS Naturals, FiniteSets

CONSTANTS
  Jobs,         \* HTTP requests in flight
  MaxRequests,  \* bound on the number of requests
  MaxFaults,    \* bound on failed queries, lost answers and crashes
  None          \* no row, no call

ASSUME HandlersAssumption ==
  /\ MaxRequests \in Nat
  /\ MaxFaults \in Nat
  /\ IsFiniteSet(Jobs)

VARIABLES
  requests,  \* number of requests so far
  faults     \* number of faults so far, for the bound only

handlerVars == <<requests, faults>>

HandlersTypeOK ==
  /\ requests \in 0..MaxRequests
  /\ faults \in 0..MaxFaults

HandlersInit ==
  /\ requests = 0
  /\ faults = 0

Request ==
  /\ requests < MaxRequests
  /\ requests' = requests + 1
  /\ UNCHANGED faults

Fault ==
  /\ faults < MaxFaults
  /\ faults' = faults + 1
  /\ UNCHANGED requests

At(call, step) == call # None /\ call.step = step

\* The table of calls after job j goes on with call c, or ends with None.
Set(calls, j, c) == [calls EXCEPT ![j] = c]

Moved(calls, j, step) == Set(calls, j, [calls[j] EXCEPT !.step = step])
=============================================================================
