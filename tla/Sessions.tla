-------------------------------- MODULE Sessions --------------------------------
(***************************************************************************)
(* The session of one user in one browser: the axios interceptors of the   *)
(* client with their queue, AuthContext, and authService, which answers a  *)
(* refresh token by a new one and revokes the old one.  The tabs share the *)
(* local storage; each has its own isRefreshing and queue.                 *)
(*                                                                         *)
(* Refresh tokens are numbered as they are created.  Of access tokens only *)
(* matters whether they have expired.  auth_token and refresh_token are    *)
(* stored and cleared together, so stored stands for both.                 *)
(***************************************************************************)
EXTENDS Handlers

CONSTANTS
  Tabs,  \* the tabs of the browser
  Slots  \* requests of the tabs in flight

VARIABLES
  stored,      \* refresh_token of the local storage
  valid,       \* the stored access token has not expired
  refreshing,  \* the tabs with isRefreshing set
  live,        \* refresh tokens that are neither revoked nor expired
  issued,      \* the last refresh token created
  clientCall,  \* requests of the tabs that are not settled
  steady       \* there is a session and nothing that may end it has happened

sessionVars == <<stored, valid, refreshing, live, issued, clientCall, steady>>

Tokens == Nat \ {0}

(* tab is None once a reload has abandoned the request.  bearer: the       *)
(* access token sent with it has not expired; retry: _retry; token: the    *)
(* refresh token it has sent; next: the one it is answered with.           *)
ClientCalls ==
  [op: {"api", "me", "logout"}, tab: Tabs \cup {None},
   step: {"sent", "queued", "find", "revoke", "create", "granted", "refused", "revokeAll", "leave"},
   bearer: BOOLEAN, retry: BOOLEAN, token: Tokens \cup {None}, next: Tokens \cup {None}]

ASSUME SessionsAssumption ==
  /\ IsFiniteSet(Slots)
  /\ None \notin Tokens /\ None \notin Tabs /\ None \notin ClientCalls

SessionsTypeOK ==
  /\ stored \in Tokens \cup {None}
  /\ valid \in BOOLEAN
  /\ refreshing \in SUBSET Tabs
  /\ live \subseteq Tokens
  /\ issued \in Nat
  /\ clientCall \in [Slots -> ClientCalls \cup {None}]
  /\ steady \in BOOLEAN

SessionsInit ==
  /\ stored = None
  /\ valid = FALSE
  /\ refreshing = {}
  /\ live = {}
  /\ issued = 0
  /\ clientCall = [j \in Slots |-> None]
  /\ steady = FALSE

RefreshSteps == {"find", "revoke", "create", "granted", "refused"}

IsRefresh(c) == c # None /\ c.step \in RefreshSteps

Refreshes(t) == {j \in Slots : IsRefresh(clientCall[j]) /\ clientCall[j].tab = t}

Queued(t) == {j \in Slots : At(clientCall[j], "queued") /\ clientCall[j].tab = t}

-----------------------------------------------------------------------------
(* Requests. *)

Send(j, call) ==
  /\ clientCall[j] = None
  /\ Request
  /\ clientCall' = Set(clientCall, j, call)

ClientCall(op, t, token) ==
  [op |-> op, tab |-> t, step |-> "sent", bearer |-> valid, retry |-> FALSE,
   token |-> token, next |-> None]

CallApi(j, t) ==
  /\ Send(j, ClientCall("api", t, None))
  /\ UNCHANGED <<stored, valid, refreshing, live, issued, steady>>

\* The login page is shown without a session; login writes the storage when
\* it is answered.
Login ==
  /\ stored = None
  /\ Request
  /\ issued' = issued + 1
  /\ live' = live \cup {issued + 1}
  /\ stored' = issued + 1
  /\ valid' = TRUE
  /\ steady' = \A j \in Slots :
       clientCall[j] # None => clientCall[j].step \in {"sent", "queued"} /\ clientCall[j].op # "logout"
  /\ UNCHANGED <<refreshing, clientCall>>

Logout(j, t) ==
  /\ Send(j, ClientCall("logout", t, stored))
  /\ steady' = FALSE
  /\ UNCHANGED <<stored, valid, refreshing, live, issued>>

-----------------------------------------------------------------------------
(* The answers to a request. *)

Cleared == stored' = None /\ valid' = FALSE

Served(j) ==
  /\ At(clientCall[j], "sent")
  /\ clientCall[j].op # "logout"
  /\ clientCall[j].bearer
  /\ clientCall' = Set(clientCall, j, None)
  /\ UNCHANGED <<stored, valid, refreshing, live, issued, steady, handlerVars>>

Refused401(j) ==
  /\ At(clientCall[j], "sent")
  /\ clientCall[j].op # "logout"
  /\ ~clientCall[j].bearer

\* A request that was sent again, or that finds no refresh token, is
\* rejected; initAuth clears the storage when its own is.
GiveUp(j) ==
  /\ Refused401(j)
  /\ clientCall[j].retry \/ stored = None
  /\ IF clientCall[j].op = "me" \/ ~clientCall[j].retry THEN Cleared ELSE UNCHANGED <<stored, valid>>
  /\ steady' = (steady /\ ~(clientCall[j].op = "me" /\ clientCall[j].retry))
  /\ clientCall' = Set(clientCall, j, None)
  /\ UNCHANGED <<refreshing, live, issued, handlerVars>>

Enqueue(j) ==
  /\ Refused401(j)
  /\ ~clientCall[j].retry /\ stored # None
  /\ clientCall[j].tab \in refreshing
  /\ clientCall' = Moved(clientCall, j, "queued")
  /\ UNCHANGED <<stored, valid, refreshing, live, issued, steady, handlerVars>>

\* Another tab has sent the same refresh token and is not answered yet.
Shared(token) == \E j \in Slots : IsRefresh(clientCall[j]) /\ clientCall[j].token = token

Refresh(j) ==
  /\ Refused401(j)
  /\ ~clientCall[j].retry /\ stored # None
  /\ clientCall[j].tab \notin refreshing
  /\ refreshing' = refreshing \cup {clientCall[j].tab}
  /\ clientCall' = Set(clientCall, j,
       [clientCall[j] EXCEPT !.step = "find", !.retry = TRUE, !.token = stored])
  /\ steady' = (steady /\ ~Shared(stored))
  /\ UNCHANGED <<stored, valid, live, issued, handlerVars>>

-----------------------------------------------------------------------------
(* authService.refreshToken, and what the client does with its answer. *)

FindToken(j) ==
  /\ At(clientCall[j], "find")
  /\ clientCall' = Moved(clientCall, j, IF clientCall[j].token \in live THEN "revoke" ELSE "refused")
  /\ UNCHANGED <<stored, valid, refreshing, live, issued, steady, handlerVars>>

RevokeToken(j) ==
  /\ At(clientCall[j], "revoke")
  /\ live' = live \ {clientCall[j].token}
  /\ clientCall' = Moved(clientCall, j, "create")
  /\ UNCHANGED <<stored, valid, refreshing, issued, steady, handlerVars>>

CreateToken(j) ==
  /\ At(clientCall[j], "create")
  /\ issued' = issued + 1
  /\ live' = live \cup {issued + 1}
  /\ clientCall' = Set(clientCall, j, [clientCall[j] EXCEPT !.step = "granted", !.next = issued + 1])
  /\ UNCHANGED <<stored, valid, refreshing, steady, handlerVars>>

\* The calls after the refresh of job j is settled: its own and those of the
\* queue of its tab are sent again, or rejected.
Settled(j, again) ==
  [i \in Slots |->
     IF i \notin Queued(clientCall[j].tab) \cup {j} THEN clientCall[i]
     ELSE IF again THEN [clientCall[i] EXCEPT !.step = "sent", !.bearer = TRUE, !.next = None,
                                              !.token = None]
     ELSE None]

\* Mutation: the new refresh token is not stored.
GrantedAccessOnly(j) ==
  /\ At(clientCall[j], "granted")
  /\ clientCall[j].tab # None
  /\ valid' = TRUE
  /\ refreshing' = refreshing \ {clientCall[j].tab}
  /\ clientCall' = Settled(j, TRUE)
  /\ UNCHANGED <<stored, live, issued, steady, handlerVars>>

Granted(j) ==
  /\ At(clientCall[j], "granted")
  /\ clientCall[j].tab # None
  /\ stored' = clientCall[j].next
  /\ valid' = TRUE
  /\ refreshing' = refreshing \ {clientCall[j].tab}
  /\ clientCall' = Settled(j, TRUE)
  /\ UNCHANGED <<live, issued, steady, handlerVars>>

\* Mutation: the queue is not rejected.
RefusedAlone(j) ==
  /\ At(clientCall[j], "refused")
  /\ clientCall[j].tab # None
  /\ Cleared
  /\ refreshing' = refreshing \ {clientCall[j].tab}
  /\ clientCall' = Set(clientCall, j, None)
  /\ UNCHANGED <<live, issued, steady, handlerVars>>

\* The client clears the storage, whatever it holds by now.
Refused(j) ==
  /\ At(clientCall[j], "refused")
  /\ clientCall[j].tab # None
  /\ Cleared
  /\ refreshing' = refreshing \ {clientCall[j].tab}
  /\ clientCall' = Settled(j, FALSE)
  /\ UNCHANGED <<live, issued, steady, handlerVars>>

-----------------------------------------------------------------------------
(* authService.logout, which optionalAuth never refuses, and its client. *)

RevokeOwn(j) ==
  LET c == clientCall[j] IN
  /\ At(c, "sent")
  /\ c.op = "logout"
  /\ live' = live \ {c.token}
  /\ clientCall' = IF c.tab = None /\ ~c.bearer THEN Set(clientCall, j, None)
                   ELSE Moved(clientCall, j, IF c.bearer THEN "revokeAll" ELSE "leave")
  /\ UNCHANGED <<stored, valid, refreshing, issued, steady, handlerVars>>

RevokeAll(j) ==
  /\ At(clientCall[j], "revokeAll")
  /\ live' = {}
  /\ clientCall' = IF clientCall[j].tab = None THEN Set(clientCall, j, None)
                   ELSE Moved(clientCall, j, "leave")
  /\ UNCHANGED <<stored, valid, refreshing, issued, steady, handlerVars>>

\* Mutation: an empty token is stored where none should be.
LeaveEmptyToken(j) ==
  /\ At(clientCall[j], "leave")
  /\ stored' = 0
  /\ valid' = FALSE
  /\ clientCall' = Set(clientCall, j, None)
  /\ UNCHANGED <<refreshing, live, issued, steady, handlerVars>>

Leave(j) ==
  /\ At(clientCall[j], "leave")
  /\ Cleared
  /\ clientCall' = Set(clientCall, j, None)
  /\ UNCHANGED <<refreshing, live, issued, steady, handlerVars>>

-----------------------------------------------------------------------------
(* Time and faults. *)

\* The access tokens issued so far expire.
Expire ==
  /\ valid
  /\ valid' = FALSE
  /\ clientCall' = [j \in Slots |-> IF clientCall[j] = None THEN None
                                   ELSE [clientCall[j] EXCEPT !.bearer = FALSE]]
  /\ UNCHANGED <<stored, refreshing, live, issued, steady, handlerVars>>

\* The refresh tokens issued so far expire.
Lapse ==
  /\ Fault
  /\ live' = {}
  /\ steady' = FALSE
  /\ UNCHANGED <<stored, valid, refreshing, issued, clientCall>>

\* A request times out, or fails for another reason than its token.
FailCall(j) ==
  /\ Fault
  /\ At(clientCall[j], "sent") \/ At(clientCall[j], "revokeAll")
  /\ clientCall' = IF clientCall[j].op = "logout" /\ clientCall[j].tab # None
                   THEN Moved(clientCall, j, "leave") ELSE Set(clientCall, j, None)
  /\ IF clientCall[j].op = "me" THEN Cleared /\ steady' = FALSE ELSE UNCHANGED <<stored, valid, steady>>
  /\ UNCHANGED <<refreshing, live, issued>>

\* A query of the refresh fails, or its answer is lost.
FailRefresh(j) ==
  /\ Fault
  /\ IsRefresh(clientCall[j])
  /\ clientCall' = Moved(clientCall, j, "refused")
  /\ steady' = FALSE
  /\ UNCHANGED <<stored, valid, refreshing, live, issued>>

\* What the server goes on with when a tab is gone.
Abandoned(c) ==
  IF c.step \in {"find", "revoke", "create", "revokeAll"} \/ (c.op = "logout" /\ c.step = "sent")
  THEN [c EXCEPT !.tab = None] ELSE None

\* A tab is loaded anew, by the user or by the way to the login page; with a
\* session it asks for its user.  Its refresh may go on at the server.
Reload(j, t) ==
  LET Left(i) == IF clientCall[i] = None \/ clientCall[i].tab # t THEN clientCall[i]
                 ELSE Abandoned(clientCall[i])
  IN
  /\ Fault
  /\ Left(j) = None
  /\ clientCall' = [i \in Slots |-> IF i = j /\ stored # None THEN ClientCall("me", t, None)
                                   ELSE Left(i)]
  /\ refreshing' = refreshing \ {t}
  /\ steady' = (steady /\ Refreshes(t) = {})
  /\ UNCHANGED <<stored, valid, live, issued>>

\* Nobody reads the answer.
Drop(j) ==
  /\ At(clientCall[j], "granted") \/ At(clientCall[j], "refused")
  /\ clientCall[j].tab = None
  /\ clientCall' = Set(clientCall, j, None)
  /\ UNCHANGED <<stored, valid, refreshing, live, issued, steady, handlerVars>>

Answer(j) ==
  \/ Served(j) \/ GiveUp(j) \/ Enqueue(j) \/ Refresh(j)
  \/ FindToken(j) \/ RevokeToken(j) \/ CreateToken(j) \/ Granted(j) \/ Refused(j) \/ Drop(j)
  \/ RevokeOwn(j) \/ RevokeAll(j) \/ Leave(j)

SessionsNext ==
  \/ \E j \in Slots, t \in Tabs : CallApi(j, t) \/ Logout(j, t) \/ Reload(j, t)
  \/ \E j \in Slots : Answer(j) \/ FailCall(j) \/ FailRefresh(j)
  \/ Login \/ Expire \/ Lapse

SessionsSpec == HandlersInit /\ SessionsInit /\ [][SessionsNext]_<<sessionVars, handlerVars>>

-----------------------------------------------------------------------------
(* Properties. *)

(* A tab has one refresh in flight when isRefreshing is set and none       *)
(* otherwise, and no request waits in the queue without it: the answer to  *)
(* the refresh, whatever it is, empties the queue.                         *)
QueueIsServed ==
  \A t \in Tabs :
    /\ Cardinality(Refreshes(t)) = (IF t \in refreshing THEN 1 ELSE 0)
    /\ Queued(t) # {} => t \in refreshing

(* A session lasts: its stored refresh token is live, or its successor is  *)
(* on the way.  It ends by a logout, an expiry, a refresh or a page load   *)
(* that fails or is cut off, or two tabs that refresh with one token; not  *)
(* by requests of a tab that overlap, however their answers are ordered.   *)
SessionLasts ==
  steady =>
    \/ stored \in live
    \/ \E j \in Slots : clientCall[j] # None /\ clientCall[j].token = stored
                       /\ clientCall[j].step \in {"create", "granted"}
=============================================================================
