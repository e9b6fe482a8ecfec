----------------------------- MODULE Clients_proofs -----------------------------
(***************************************************************************)
(* What the clients of the API may rely on, for any number of tabs, of     *)
(* requests in flight and of entries: the queue of a tab is served, a      *)
(* session lasts, and who goes through the pages of a listing has seen     *)
(* what there was.                                                         *)
(***************************************************************************)
EXTENDS MCRequests, FiniteSetTheorems, FunctionTheorems, TLAPS

-----------------------------------------------------------------------------
(* Sessions: types. *)

ClientSteps ==
  {"sent", "queued", "find", "revoke", "create", "granted", "refused", "revokeAll", "leave"}

LEMMA CallFields ==
  ASSUME NEW c \in ClientCalls
  PROVE  /\ c.op \in {"api", "me", "logout"} /\ c.tab \in Tabs \cup {None}
         /\ c.step \in ClientSteps
         /\ c.bearer \in BOOLEAN /\ c.retry \in BOOLEAN
         /\ c.token \in Tokens \cup {None} /\ c.next \in Tokens \cup {None}
  BY Zenon DEF ClientCalls, ClientSteps

LEMMA CallInFlight ==
  ASSUME SessionsTypeOK, NEW j \in Slots, clientCall[j] # None
  PROVE  clientCall[j] \in ClientCalls
  BY DEF SessionsTypeOK

LEMMA CallAtStep ==
  ASSUME NEW c \in ClientCalls, NEW step \in ClientSteps
  PROVE  /\ [c EXCEPT !.step = step] \in ClientCalls
         /\ [c EXCEPT !.step = step].step = step
         /\ [c EXCEPT !.step = step].op = c.op
         /\ [c EXCEPT !.step = step].tab = c.tab
         /\ [c EXCEPT !.step = step].token = c.token
         /\ [c EXCEPT !.step = step].next = c.next
  BY DEF ClientCalls, ClientSteps

LEMMA CallBegins ==
  ASSUME NEW op \in {"api", "me", "logout"}, NEW t \in Tabs, NEW token \in Tokens \cup {None},
         valid \in BOOLEAN
  PROVE  /\ ClientCall(op, t, token) \in ClientCalls
         /\ ClientCall(op, t, token).step = "sent"
         /\ ClientCall(op, t, token).op = op
         /\ ClientCall(op, t, token).tab = t
  BY DEF ClientCall, ClientCalls

LEMMA CallRefreshes ==
  ASSUME NEW c \in ClientCalls, NEW token \in Tokens,
         NEW d \in {[c EXCEPT !.step = "find", !.retry = TRUE, !.token = token]}
  PROVE  d \in ClientCalls /\ d.step = "find" /\ d.op = c.op /\ d.tab = c.tab /\ d.token = token
  BY DEF ClientCalls

LEMMA CallIsGranted ==
  ASSUME NEW c \in ClientCalls, NEW token \in Tokens,
         NEW d \in {[c EXCEPT !.step = "granted", !.next = token]}
  PROVE  /\ d \in ClientCalls /\ d.step = "granted" /\ d.op = c.op /\ d.tab = c.tab
         /\ d.token = c.token /\ d.next = token
  BY DEF ClientCalls

LEMMA CallIsSentAgain ==
  ASSUME NEW c \in ClientCalls,
         NEW d, d = [c EXCEPT !.step = "sent", !.bearer = TRUE, !.next = None, !.token = None]
  PROVE  d \in ClientCalls /\ d.step = "sent" /\ d.op = c.op
  BY DEF ClientCalls

LEMMA CallIsLeft ==
  ASSUME NEW c \in ClientCalls, NEW b \in BOOLEAN
  PROVE  /\ [c EXCEPT !.tab = None] \in ClientCalls
         /\ [c EXCEPT !.bearer = b] \in ClientCalls
         /\ [c EXCEPT !.bearer = b].step = c.step
         /\ [c EXCEPT !.bearer = b].op = c.op
         /\ [c EXCEPT !.bearer = b].tab = c.tab
         /\ [c EXCEPT !.bearer = b].token = c.token
         /\ [c EXCEPT !.bearer = b].next = c.next
         /\ [c EXCEPT !.tab = None].step = c.step
         /\ [c EXCEPT !.tab = None].op = c.op
         /\ [c EXCEPT !.tab = None].tab = None
  BY DEF ClientCalls

\* A step that settles call j or goes on with it.
LEMMA OneCall ==
  ASSUME SessionsTypeOK, NEW j \in Slots, NEW c, clientCall' = Set(clientCall, j, c)
  PROVE  /\ clientCall'[j] = c
         /\ \A i \in Slots \ {j} : clientCall'[i] = clientCall[i]
         /\ c \in ClientCalls \cup {None} => clientCall' \in [Slots -> ClientCalls \cup {None}]
  BY DEF SessionsTypeOK, Set

LEMMA MovedCall ==
  ASSUME SessionsTypeOK, NEW j \in Slots, clientCall[j] # None, NEW step \in ClientSteps,
         clientCall' = Moved(clientCall, j, step)
  PROVE  /\ clientCall' \in [Slots -> ClientCalls \cup {None}]
         /\ \A i \in Slots \ {j} : clientCall'[i] = clientCall[i]
         /\ clientCall'[j] # None
         /\ clientCall'[j].step = step
         /\ clientCall'[j].op = clientCall[j].op
         /\ clientCall'[j].tab = clientCall[j].tab
         /\ clientCall'[j].token = clientCall[j].token
         /\ clientCall'[j].next = clientCall[j].next
  <1> PICK c : c = [clientCall[j] EXCEPT !.step = step]
    OBVIOUS
  <1>1. /\ c \in ClientCalls /\ c.step = step
        /\ c.op = clientCall[j].op /\ c.tab = clientCall[j].tab
        /\ c.token = clientCall[j].token /\ c.next = clientCall[j].next
    BY CallInFlight, CallAtStep
  <1>2. clientCall' = Set(clientCall, j, c)
    BY DEF Moved
  <1>3. c # None
    BY <1>1, SessionsAssumption
  <1> QED
    BY <1>1, <1>2, <1>3, OneCall

-----------------------------------------------------------------------------
(* Sessions: the inductive invariant. *)

RefreshOf(c, t) == IsRefresh(c) /\ c.tab = t

(* QueueIsServed by elements: the refresh of a tab is unique and there is  *)
(* one exactly while isRefreshing is set.                                  *)
InStep ==
  \A t \in Tabs :
    /\ t \in refreshing <=> \E j \in Slots : RefreshOf(clientCall[j], t)
    /\ \A i, j \in Slots : RefreshOf(clientCall[i], t) /\ RefreshOf(clientCall[j], t) => i = j
    /\ \A j \in Slots : At(clientCall[j], "queued") /\ clientCall[j].tab = t => t \in refreshing

EndSteps == {"refused", "revokeAll", "leave"}

\* A refresh that a steady session depends on.
Carries(c) ==
  /\ c.token = stored
  /\ c.tab # None
  /\ c.step = "granted" => c.next \in live
  /\ c.step \in {"find", "revoke"} => stored \in live

(* A steady session has no logout on its way and at most one refresh, with *)
(* the stored token, which nobody has abandoned and which is not refused;  *)
(* without a refresh its token is live.                                    *)
Lasting ==
  steady =>
    /\ stored # None
    /\ \A j \in Slots :
         clientCall[j] # None => clientCall[j].op # "logout" /\ clientCall[j].step \notin EndSteps
    /\ \A j \in Slots : IsRefresh(clientCall[j]) => Carries(clientCall[j])
    /\ \A i, j \in Slots : IsRefresh(clientCall[i]) /\ IsRefresh(clientCall[j]) => i = j
    /\ (\A j \in Slots : ~IsRefresh(clientCall[j])) => stored \in live

(* Only what a reload leaves to the server has no tab: no request that the *)
(* client may still send again or refresh for.                             *)
Homed(c) == c # None /\ c.op # "logout" /\ c.step \in {"sent", "queued"} => c.tab # None

SessionInv ==
  /\ SessionsTypeOK
  /\ InStep
  /\ Lasting
  /\ \A j \in Slots : Homed(clientCall[j])

LEMMA SessionTypes ==
  ASSUME SessionInv
  PROVE  /\ SessionsTypeOK /\ InStep /\ Lasting
         /\ \A j \in Slots : Homed(clientCall[j])
         /\ stored \in Tokens \cup {None} /\ valid \in BOOLEAN /\ refreshing \in SUBSET Tabs
         /\ live \subseteq Tokens /\ issued \in Nat /\ steady \in BOOLEAN
         /\ clientCall \in [Slots -> ClientCalls \cup {None}]
  BY DEF SessionInv, SessionsTypeOK

\* A call outside of the refresh begins, goes on or ends.
LEMMA CallOutsideRefresh ==
  ASSUME SessionInv, NEW j \in Slots, ~IsRefresh(clientCall[j]),
         NEW c \in ClientCalls \cup {None}, clientCall' = Set(clientCall, j, c),
         ~IsRefresh(c),
         c # None /\ c.step = "queued" => c.tab \in refreshing,
         Homed(c),
         UNCHANGED <<refreshing, issued>>,
         live' \subseteq Tokens, stored' \in Tokens \cup {None}, valid' \in BOOLEAN,
         steady' \in BOOLEAN,
         steady' => /\ steady /\ stored' = stored /\ live' = live
                    /\ c # None => c.op # "logout" /\ c.step \notin EndSteps
  PROVE  SessionInv'
  <1>1. /\ clientCall'[j] = c /\ \A i \in Slots \ {j} : clientCall'[i] = clientCall[i]
        /\ clientCall' \in [Slots -> ClientCalls \cup {None}]
    BY SessionTypes, OneCall
  <1>2. SessionsTypeOK'
    BY <1>1, SessionTypes DEF SessionsTypeOK
  <1>3. \A i \in Slots, t \in Tabs : RefreshOf(clientCall'[i], t) <=> RefreshOf(clientCall[i], t)
    BY <1>1 DEF RefreshOf
  <1>4. \A i \in Slots : IsRefresh(clientCall'[i]) <=> IsRefresh(clientCall[i])
    BY <1>1
  <1>5. \A i \in Slots : IsRefresh(clientCall'[i]) => clientCall'[i] = clientCall[i]
    BY <1>1
  <1>6. InStep'
    BY <1>1, <1>3, SessionTypes DEF InStep, At
  <1>7. Lasting'
    BY <1>1, <1>4, <1>5, SessionTypes DEF Lasting, Carries
  <1>8. \A i \in Slots : Homed(clientCall'[i])
    BY <1>1, SessionTypes DEF Homed, IsRefresh, RefreshSteps
  <1>9. (\A i \in Slots : Homed(clientCall[i]))'
    BY <1>8
  <1> QED
    BY <1>2, <1>6, <1>7, <1>9 DEF SessionInv

\* The refresh of a tab goes on: what it needs for a steady session is left to prove.
LEMMA RefreshGoesOn ==
  ASSUME SessionInv, NEW j \in Slots, IsRefresh(clientCall[j]),
         NEW c \in ClientCalls, clientCall' = Set(clientCall, j, c),
         c.step \in RefreshSteps, c.tab = clientCall[j].tab, c.token = clientCall[j].token,
         UNCHANGED <<refreshing, stored, valid>>,
         live' \subseteq Tokens, issued' \in Nat, steady' \in BOOLEAN,
         steady' => /\ steady /\ c.op = clientCall[j].op /\ c.step \notin EndSteps
                    /\ c.step = "granted" => c.next \in live'
                    /\ c.step \in {"find", "revoke"} => stored \in live'
  PROVE  SessionInv'
  <1>1. /\ clientCall'[j] = c /\ \A i \in Slots \ {j} : clientCall'[i] = clientCall[i]
        /\ clientCall' \in [Slots -> ClientCalls \cup {None}]
    BY SessionTypes, OneCall
  <1>2. SessionsTypeOK'
    BY <1>1, SessionTypes DEF SessionsTypeOK
  <1>3. c # None /\ IsRefresh(c)
    BY SessionsAssumption DEF IsRefresh
  <1>4. \A i \in Slots, t \in Tabs : RefreshOf(clientCall'[i], t) <=> RefreshOf(clientCall[i], t)
    BY <1>1, <1>3 DEF RefreshOf
  <1>5. c.step # "queued"
    BY DEF RefreshSteps
  <1>6. InStep'
    BY <1>1, <1>4, <1>5, SessionTypes DEF InStep, At
  <1>7. Lasting'
    <2> SUFFICES ASSUME steady'
                 PROVE  Lasting'
      BY DEF Lasting
    <2>1. \A i \in Slots : IsRefresh(clientCall[i]) => i = j
      BY SessionTypes DEF Lasting
    <2>2. \A i \in Slots : IsRefresh(clientCall'[i]) <=> i = j
      BY <1>1, <1>3, <2>1
    <2>3. /\ c.token = stored' /\ c.tab # None
          /\ c.step = "granted" => c.next \in live'
          /\ c.step \in {"find", "revoke"} => stored' \in live'
      BY SessionTypes DEF Lasting, Carries
    <2>4. stored' # None
      BY SessionTypes DEF Lasting
    <2>5. \A i \in Slots : clientCall'[i] # None =>
            clientCall'[i].op # "logout" /\ clientCall'[i].step \notin EndSteps
      BY <1>1, SessionTypes DEF Lasting, IsRefresh
    <2> QED
      BY <1>1, <2>2, <2>3, <2>4, <2>5 DEF Lasting, Carries
  <1>8. \A i \in Slots : Homed(clientCall'[i])
    BY <1>1, SessionTypes DEF Homed, IsRefresh, RefreshSteps
  <1>9. (\A i \in Slots : Homed(clientCall[i]))'
    BY <1>8
  <1> QED
    BY <1>2, <1>6, <1>7, <1>9 DEF SessionInv

-----------------------------------------------------------------------------
(* Sessions: every action keeps the invariant. *)

LEMMA NoneIsNoRefresh == ~IsRefresh(None)
  BY DEF IsRefresh

LEMMA NoneIsHomed == Homed(None)
  BY DEF Homed

LEMMA SentIsNoRefresh ==
  ASSUME NEW c \in ClientCalls, c.step \notin RefreshSteps
  PROVE  ~IsRefresh(c) /\ c # None
  BY SessionsAssumption DEF IsRefresh

LEMMA CallApiKeeps ==
  ASSUME SessionInv, NEW j \in Slots, NEW t \in Tabs, CallApi(j, t)
  PROVE  SessionInv'
  <1> PICK c : c = ClientCall("api", t, None)
    OBVIOUS
  <1>1. c \in ClientCalls /\ c.step = "sent" /\ c.op = "api" /\ Homed(c)
    BY SessionTypes, CallBegins, SessionsAssumption DEF Homed
  <1>2. ~IsRefresh(c) /\ ~IsRefresh(clientCall[j])
    BY <1>1, SentIsNoRefresh, NoneIsNoRefresh DEF RefreshSteps, CallApi, Send
  <1> QED
    BY <1>1, <1>2, CallOutsideRefresh, SessionTypes DEF CallApi, Send, EndSteps

LEMMA LogoutKeeps ==
  ASSUME SessionInv, NEW j \in Slots, NEW t \in Tabs, Logout(j, t)
  PROVE  SessionInv'
  <1> PICK c : c = ClientCall("logout", t, stored)
    OBVIOUS
  <1>1. c \in ClientCalls /\ c.step = "sent" /\ Homed(c)
    BY SessionTypes, CallBegins, SessionsAssumption DEF Homed
  <1>2. ~IsRefresh(c) /\ ~IsRefresh(clientCall[j])
    BY <1>1, SentIsNoRefresh, NoneIsNoRefresh DEF RefreshSteps, Logout, Send
  <1> QED
    BY <1>1, <1>2, CallOutsideRefresh, SessionTypes DEF Logout, Send

LEMMA SentCall ==
  ASSUME NEW c, NEW step, step \notin RefreshSteps, At(c, step)
  PROVE  ~IsRefresh(c)
  BY DEF At, IsRefresh

LEMMA ServedKeeps ==
  ASSUME SessionInv, NEW j \in Slots, Served(j)
  PROVE  SessionInv'
  <1>1. ~IsRefresh(clientCall[j])
    BY SentCall DEF Served, RefreshSteps
  <1> QED
    BY <1>1, NoneIsNoRefresh, NoneIsHomed, CallOutsideRefresh, SessionTypes DEF Served

LEMMA GiveUpKeeps ==
  ASSUME SessionInv, NEW j \in Slots, GiveUp(j)
  PROVE  SessionInv'
  <1>1. ~IsRefresh(clientCall[j])
    BY SentCall DEF GiveUp, Refused401, RefreshSteps
  <1>2. stored' \in Tokens \cup {None} /\ valid' \in BOOLEAN /\ steady' \in BOOLEAN
    BY SessionTypes DEF GiveUp, Cleared
  <1>3. steady' => steady /\ stored' = stored
    BY SessionTypes DEF GiveUp, Cleared, Lasting
  <1> QED
    BY <1>1, <1>2, <1>3, NoneIsNoRefresh, NoneIsHomed, CallOutsideRefresh, SessionTypes DEF GiveUp

LEMMA EnqueueKeeps ==
  ASSUME SessionInv, NEW j \in Slots, Enqueue(j)
  PROVE  SessionInv'
  <1> PICK c : c = [clientCall[j] EXCEPT !.step = "queued"]
    OBVIOUS
  <1>1. /\ c \in ClientCalls /\ c.step = "queued" /\ c.op = clientCall[j].op
        /\ c.tab = clientCall[j].tab
    BY SessionTypes, CallInFlight, CallAtStep DEF Enqueue, Refused401, At, ClientSteps
  <1>4. Homed(c)
    BY <1>1, SessionTypes DEF Homed, Enqueue, Refused401, At
  <1>2. ~IsRefresh(c) /\ ~IsRefresh(clientCall[j])
    BY <1>1, SentIsNoRefresh, SentCall DEF RefreshSteps, Enqueue, Refused401
  <1>3. clientCall' = Set(clientCall, j, c)
    BY DEF Enqueue, Moved
  <1> QED
    BY <1>1, <1>2, <1>3, <1>4, CallOutsideRefresh, SessionTypes DEF Enqueue, Refused401, EndSteps

LEMMA LeaveKeeps ==
  ASSUME SessionInv, NEW j \in Slots, Leave(j)
  PROVE  SessionInv'
  <1>1. ~IsRefresh(clientCall[j])
    BY SentCall DEF Leave, RefreshSteps
  <1>2. ~steady
    BY SessionTypes DEF Leave, Lasting, At, EndSteps
  <1> QED
    BY <1>1, <1>2, NoneIsNoRefresh, NoneIsHomed, CallOutsideRefresh, SessionTypes DEF Leave, Cleared

LEMMA RevokeOwnKeeps ==
  ASSUME SessionInv, NEW j \in Slots, RevokeOwn(j)
  PROVE  SessionInv'
  <1>1. ~IsRefresh(clientCall[j])
    BY SentCall DEF RevokeOwn, RefreshSteps
  <1>2. ~steady
    BY SessionTypes DEF RevokeOwn, Lasting, At
  <1>3. live' \subseteq Tokens /\ clientCall[j] # None
    BY SessionTypes DEF RevokeOwn, At
  <1>4. CASE clientCall' = Set(clientCall, j, None)
    BY <1>1, <1>2, <1>3, <1>4, NoneIsNoRefresh, NoneIsHomed, CallOutsideRefresh, SessionTypes DEF RevokeOwn
  <1>5. ASSUME NEW step \in {"revokeAll", "leave"}, clientCall' = Moved(clientCall, j, step)
        PROVE  SessionInv'
    <2> PICK c : c = [clientCall[j] EXCEPT !.step = step]
      OBVIOUS
    <2>1. c \in ClientCalls /\ c.step = step
      <3>1. step \in ClientSteps
        BY DEF ClientSteps
      <3> QED
        BY <1>3, <3>1, SessionTypes, CallInFlight, CallAtStep
    <2>2. ~IsRefresh(c) /\ c.step # "queued" /\ Homed(c)
      BY <2>1, SentIsNoRefresh DEF RefreshSteps, Homed
    <2> QED
      BY <1>1, <1>2, <1>3, <1>5, <2>1, <2>2, CallOutsideRefresh, SessionTypes DEF RevokeOwn, Moved
  <1> QED
    BY <1>4, <1>5 DEF RevokeOwn

LEMMA RevokeAllKeeps ==
  ASSUME SessionInv, NEW j \in Slots, RevokeAll(j)
  PROVE  SessionInv'
  <1>1. ~IsRefresh(clientCall[j])
    BY SentCall DEF RevokeAll, RefreshSteps
  <1>2. ~steady
    BY SessionTypes DEF RevokeAll, Lasting, At, EndSteps
  <1>3. live' \subseteq Tokens /\ clientCall[j] # None
    BY SessionTypes DEF RevokeAll, At
  <1>4. CASE clientCall' = Set(clientCall, j, None)
    BY <1>1, <1>2, <1>3, <1>4, NoneIsNoRefresh, NoneIsHomed, CallOutsideRefresh, SessionTypes DEF RevokeAll
  <1>5. CASE clientCall' = Moved(clientCall, j, "leave")
    <2> PICK c : c = [clientCall[j] EXCEPT !.step = "leave"]
      OBVIOUS
    <2>1. c \in ClientCalls /\ c.step = "leave"
      BY <1>3, SessionTypes, CallInFlight, CallAtStep DEF ClientSteps
    <2>2. ~IsRefresh(c) /\ Homed(c)
      BY <2>1, SentIsNoRefresh DEF RefreshSteps, Homed
    <2> QED
      BY <1>1, <1>2, <1>3, <1>5, <2>1, <2>2, CallOutsideRefresh, SessionTypes DEF RevokeAll, Moved
  <1> QED
    BY <1>4, <1>5 DEF RevokeAll

LEMMA FailCallKeeps ==
  ASSUME SessionInv, NEW j \in Slots, FailCall(j)
  PROVE  SessionInv'
  <1>1. ~IsRefresh(clientCall[j]) /\ clientCall[j] # None
    BY SentCall DEF FailCall, RefreshSteps, At
  <1>2. stored' \in Tokens \cup {None} /\ valid' \in BOOLEAN /\ steady' \in BOOLEAN
    BY SessionTypes DEF FailCall, Cleared
  <1>3. steady' => steady /\ stored' = stored /\ clientCall[j].op # "logout"
    BY <1>1, SessionTypes DEF FailCall, Cleared, Lasting
  <1>4. CASE clientCall' = Set(clientCall, j, None)
    BY <1>1, <1>2, <1>3, <1>4, NoneIsNoRefresh, NoneIsHomed, CallOutsideRefresh, SessionTypes DEF FailCall
  <1>5. CASE clientCall[j].op = "logout" /\ clientCall' = Moved(clientCall, j, "leave")
    <2> PICK c : c = [clientCall[j] EXCEPT !.step = "leave"]
      OBVIOUS
    <2>1. c \in ClientCalls /\ c.step = "leave"
      BY <1>1, SessionTypes, CallInFlight, CallAtStep DEF ClientSteps
    <2>2. ~IsRefresh(c) /\ Homed(c)
      BY <2>1, SentIsNoRefresh DEF RefreshSteps, Homed
    <2> QED
      BY <1>1, <1>2, <1>3, <1>5, <2>1, <2>2, CallOutsideRefresh, SessionTypes DEF FailCall, Moved
  <1> QED
    BY <1>4, <1>5 DEF FailCall

\* What a refresh at some step of the server is, and what it is at the next.
LEMMA RefreshAt ==
  ASSUME SessionInv, NEW j \in Slots, NEW step \in RefreshSteps, At(clientCall[j], step)
  PROVE  IsRefresh(clientCall[j]) /\ clientCall[j] \in ClientCalls
  BY SessionTypes, CallInFlight DEF At, IsRefresh

LEMMA FindTokenKeeps ==
  ASSUME SessionInv, NEW j \in Slots, FindToken(j)
  PROVE  SessionInv'
  <1>1. IsRefresh(clientCall[j]) /\ clientCall[j] \in ClientCalls
    BY RefreshAt DEF FindToken, RefreshSteps
  <1> PICK step : step = IF clientCall[j].token \in live THEN "revoke" ELSE "refused"
    OBVIOUS
  <1> PICK c : c = [clientCall[j] EXCEPT !.step = step]
    OBVIOUS
  <1>2. /\ c \in ClientCalls /\ c.step = step /\ c.tab = clientCall[j].tab
        /\ c.token = clientCall[j].token /\ c.op = clientCall[j].op
    <2>1. step \in ClientSteps
      BY DEF ClientSteps
    <2> QED
      BY <1>1, <2>1, CallAtStep
  <1>3. steady => clientCall[j].token = stored /\ stored \in live
    BY <1>1, SessionTypes DEF FindToken, At, Lasting, Carries
  <1>4. clientCall' = Set(clientCall, j, c)
    BY DEF FindToken, Moved
  <1>5. c.step \in RefreshSteps
    BY <1>2 DEF RefreshSteps
  <1>6. steady => c.step = "revoke" /\ stored \in live
    BY <1>2, <1>3
  <1> QED
    BY <1>1, <1>2, <1>4, <1>5, <1>6, RefreshGoesOn, SessionTypes DEF FindToken, EndSteps

LEMMA RevokeTokenKeeps ==
  ASSUME SessionInv, NEW j \in Slots, RevokeToken(j)
  PROVE  SessionInv'
  <1>1. IsRefresh(clientCall[j]) /\ clientCall[j] \in ClientCalls
    BY RefreshAt DEF RevokeToken, RefreshSteps
  <1> PICK c : c = [clientCall[j] EXCEPT !.step = "create"]
    OBVIOUS
  <1>2. /\ c \in ClientCalls /\ c.step = "create" /\ c.tab = clientCall[j].tab
        /\ c.token = clientCall[j].token /\ c.op = clientCall[j].op
    BY <1>1, CallAtStep DEF ClientSteps
  <1>3. clientCall' = Set(clientCall, j, c) /\ live' \subseteq Tokens
    BY SessionTypes DEF RevokeToken, Moved
  <1> QED
    BY <1>1, <1>2, <1>3, RefreshGoesOn, SessionTypes DEF RevokeToken, RefreshSteps, EndSteps

LEMMA CreateTokenKeeps ==
  ASSUME SessionInv, NEW j \in Slots, CreateToken(j)
  PROVE  SessionInv'
  <1>1. IsRefresh(clientCall[j]) /\ clientCall[j] \in ClientCalls
    BY RefreshAt DEF CreateToken, RefreshSteps
  <1> PICK c : c = [clientCall[j] EXCEPT !.step = "granted", !.next = issued + 1]
    OBVIOUS
  <1>2. issued + 1 \in Tokens
    BY SessionTypes DEF Tokens
  <1>3. /\ c \in ClientCalls /\ c.step = "granted" /\ c.tab = clientCall[j].tab
        /\ c.token = clientCall[j].token /\ c.op = clientCall[j].op /\ c.next = issued + 1
    BY <1>1, <1>2, CallIsGranted
  <1>4. /\ clientCall' = Set(clientCall, j, c) /\ live' \subseteq Tokens /\ issued' \in Nat
        /\ issued + 1 \in live'
    BY <1>2, SessionTypes DEF CreateToken
  <1> QED
    BY <1>1, <1>3, <1>4, RefreshGoesOn, SessionTypes DEF CreateToken, RefreshSteps, EndSteps

LEMMA FailRefreshKeeps ==
  ASSUME SessionInv, NEW j \in Slots, FailRefresh(j)
  PROVE  SessionInv'
  <1>1. IsRefresh(clientCall[j]) /\ clientCall[j] \in ClientCalls
    BY SessionTypes, CallInFlight DEF FailRefresh, IsRefresh
  <1> PICK c : c = [clientCall[j] EXCEPT !.step = "refused"]
    OBVIOUS
  <1>2. /\ c \in ClientCalls /\ c.step = "refused" /\ c.tab = clientCall[j].tab
        /\ c.token = clientCall[j].token
    BY <1>1, CallAtStep DEF ClientSteps
  <1>3. clientCall' = Set(clientCall, j, c)
    BY DEF FailRefresh, Moved
  <1> QED
    BY <1>1, <1>2, <1>3, RefreshGoesOn, SessionTypes DEF FailRefresh, RefreshSteps

LEMMA RefreshKeeps ==
  ASSUME SessionInv, NEW j \in Slots, Refresh(j)
  PROVE  SessionInv'
  <1> PICK t : t = clientCall[j].tab
    OBVIOUS
  <1> PICK c : c = [clientCall[j] EXCEPT !.step = "find", !.retry = TRUE, !.token = stored]
    OBVIOUS
  <1>1. clientCall[j] \in ClientCalls /\ ~IsRefresh(clientCall[j]) /\ stored \in Tokens
    BY SessionTypes, CallInFlight, SentCall DEF Refresh, Refused401, At, RefreshSteps
  <1>2. /\ c \in ClientCalls /\ c.step = "find" /\ c.op = clientCall[j].op
        /\ c.tab = t /\ c.token = stored
    BY <1>1, CallRefreshes
  <1>3. IsRefresh(c) /\ c.step # "queued"
    BY <1>2, SessionsAssumption DEF IsRefresh, RefreshSteps
  <1>4. clientCall' = Set(clientCall, j, c)
    BY DEF Refresh
  <1>5. /\ clientCall'[j] = c /\ \A i \in Slots \ {j} : clientCall'[i] = clientCall[i]
        /\ clientCall' \in [Slots -> ClientCalls \cup {None}]
    BY <1>2, <1>4, SessionTypes, OneCall
  <1>6. refreshing' = refreshing \cup {t} /\ t \notin refreshing
    BY DEF Refresh
  <1>7. t \in Tabs
    BY <1>1, CallFields, SessionTypes DEF Homed, Refresh, Refused401, At
  <1>8. SessionsTypeOK'
    BY <1>5, <1>6, <1>7, SessionTypes DEF Refresh, SessionsTypeOK
  <1>9. InStep'
    <2> SUFFICES ASSUME NEW u \in Tabs
                 PROVE  /\ u \in refreshing' <=> \E i \in Slots : RefreshOf(clientCall'[i], u)
                        /\ \A h, i \in Slots :
                             RefreshOf(clientCall'[h], u) /\ RefreshOf(clientCall'[i], u) => h = i
                        /\ \A i \in Slots :
                             At(clientCall'[i], "queued") /\ clientCall'[i].tab = u => u \in refreshing'
      BY DEF InStep
    <2>1. RefreshOf(clientCall'[j], u) <=> u = t
      BY <1>2, <1>3, <1>5 DEF RefreshOf
    <2>2. \A i \in Slots \ {j} : RefreshOf(clientCall'[i], u) <=> RefreshOf(clientCall[i], u)
      BY <1>5
    <2>3. ~RefreshOf(clientCall[j], u)
      BY <1>1 DEF RefreshOf
    <2>4. u = t => \A i \in Slots : ~RefreshOf(clientCall[i], u)
      BY <1>6, SessionTypes DEF InStep
    <2>5. \A i \in Slots : At(clientCall'[i], "queued") => clientCall'[i] = clientCall[i]
      BY <1>3, <1>5 DEF At
    <2>6. /\ u \in refreshing <=> \E i \in Slots : RefreshOf(clientCall[i], u)
          /\ \A h, i \in Slots : RefreshOf(clientCall[h], u) /\ RefreshOf(clientCall[i], u) => h = i
          /\ \A i \in Slots : At(clientCall[i], "queued") /\ clientCall[i].tab = u => u \in refreshing
      BY SessionTypes DEF InStep
    <2>7. CASE u = t
      BY <1>6, <2>1, <2>2, <2>4, <2>7
    <2>8. CASE u # t
      <3>1. u \in refreshing' <=> u \in refreshing
        BY <1>6, <2>8
      <3>2. \A i \in Slots : RefreshOf(clientCall'[i], u) <=> RefreshOf(clientCall[i], u)
        BY <2>1, <2>2, <2>3, <2>8
      <3> QED
        BY <2>5, <2>6, <3>1, <3>2
    <2> QED
      BY <2>7, <2>8
  <1>10. Lasting'
    <2> SUFFICES ASSUME steady'
                 PROVE  Lasting'
      BY DEF Lasting
    <2>1. steady /\ ~Shared(stored) /\ UNCHANGED <<stored, live>>
      BY SessionTypes DEF Refresh
    <2>2. \A i \in Slots : ~IsRefresh(clientCall[i])
      BY <2>1, SessionTypes DEF Lasting, Carries, Shared
    <2>3. stored \in live
      BY <2>1, <2>2, SessionTypes DEF Lasting
    <2>4. \A i \in Slots : IsRefresh(clientCall'[i]) <=> i = j
      BY <1>3, <1>5, <2>2
    <2>5. t # None
      BY <1>7, SessionsAssumption
    <2>6. \A i \in Slots : clientCall'[i] # None =>
            clientCall'[i].op # "logout" /\ clientCall'[i].step \notin EndSteps
      BY <1>2, <1>5, <2>1, SessionTypes DEF Lasting, Refresh, Refused401, EndSteps
    <2>7. Carries(clientCall[j])'
      BY <1>2, <1>5, <2>1, <2>3, <2>5 DEF Carries
    <2>8. stored' # None
      BY <2>1, SessionTypes DEF Lasting
    <2> QED
      BY <2>1, <2>3, <2>4, <2>6, <2>7, <2>8 DEF Lasting
  <1>11. \A i \in Slots : Homed(clientCall'[i])
    BY <1>2, <1>5, SessionTypes DEF Homed
  <1>12. (\A i \in Slots : Homed(clientCall[i]))'
    BY <1>11
  <1> QED
    BY <1>8, <1>9, <1>10, <1>12 DEF SessionInv

\* The answer to a refresh empties the queue of its tab and clears its flag.
LEMMA SettlingKeeps ==
  ASSUME SessionInv, NEW j \in Slots, IsRefresh(clientCall[j]), clientCall[j].tab # None,
         NEW again \in BOOLEAN, clientCall' = Settled(j, again),
         refreshing' = refreshing \ {clientCall[j].tab},
         stored' \in Tokens \cup {None}, valid' \in BOOLEAN, steady' \in BOOLEAN,
         UNCHANGED <<live, issued>>,
         steady' => steady /\ again /\ stored' # None /\ stored' \in live
  PROVE  SessionInv'
  <1> PICK t : t = clientCall[j].tab
    OBVIOUS
  <1> PICK waiting : waiting = Queued(t)
    OBVIOUS
  <1>1. clientCall[j] \in ClientCalls /\ t \in Tabs
    BY SessionTypes, CallInFlight, CallFields DEF IsRefresh
  <1>2. \A i \in Slots : i \in waiting <=> At(clientCall[i], "queued") /\ clientCall[i].tab = t
    BY DEF Queued
  <1>3. ASSUME NEW i \in Slots, i \notin waiting, i # j
        PROVE  clientCall'[i] = clientCall[i]
    BY <1>3 DEF Settled
  <1>4. ASSUME NEW i \in Slots, i \in waiting \/ i = j
        PROVE  /\ clientCall'[i] \in ClientCalls \cup {None}
               /\ ~IsRefresh(clientCall'[i]) /\ ~At(clientCall'[i], "queued")
               /\ clientCall'[i] # None =>
                    /\ clientCall[i] # None /\ clientCall'[i].op = clientCall[i].op
                    /\ clientCall'[i].step = "sent"
               /\ Homed(clientCall'[i])
    <2>1. clientCall[i] \in ClientCalls /\ clientCall[i].tab = t /\ clientCall[i] # None
      BY <1>1, <1>2, <1>4, SessionTypes, CallInFlight DEF At, IsRefresh
    <2>2. CASE again
      <3> PICK c : c = [clientCall[i] EXCEPT !.step = "sent", !.bearer = TRUE, !.next = None,
                                             !.token = None]
        OBVIOUS
      <3>1. clientCall'[i] = c
        BY <1>4, <2>2 DEF Settled
      <3>2. c \in ClientCalls /\ c.step = "sent" /\ c.op = clientCall[i].op /\ c.tab = t
        BY <2>1 DEF ClientCalls
      <3> QED
        BY <2>1, <3>1, <3>2, <1>1, SentIsNoRefresh, SessionsAssumption DEF RefreshSteps, At, Homed
    <2>3. CASE ~again
      <3>1. clientCall'[i] = None
        BY <1>4, <2>3 DEF Settled
      <3> QED
        BY <3>1, NoneIsNoRefresh, NoneIsHomed DEF At
    <2> QED
      BY <2>2, <2>3
  <1>5. clientCall' \in [Slots -> ClientCalls \cup {None}]
    <2>1. \A i \in Slots : clientCall'[i] \in ClientCalls \cup {None}
      BY <1>3, <1>4, SessionTypes
    <2>2. clientCall' = [i \in Slots |-> clientCall'[i]]
      BY DEF Settled
    <2> QED
      BY <2>1, <2>2
  <1>6. SessionsTypeOK'
    BY <1>5, SessionTypes DEF SessionsTypeOK
  <1>7. InStep'
    <2> SUFFICES ASSUME NEW u \in Tabs
                 PROVE  /\ u \in refreshing' <=> \E i \in Slots : RefreshOf(clientCall'[i], u)
                        /\ \A h, i \in Slots :
                             RefreshOf(clientCall'[h], u) /\ RefreshOf(clientCall'[i], u) => h = i
                        /\ \A i \in Slots :
                             At(clientCall'[i], "queued") /\ clientCall'[i].tab = u => u \in refreshing'
      BY DEF InStep
    <2>1. \A i \in Slots : i \in waiting => ~IsRefresh(clientCall[i])
      BY <1>2 DEF At, IsRefresh, RefreshSteps
    <2>2. /\ u \in refreshing <=> \E i \in Slots : RefreshOf(clientCall[i], u)
          /\ \A h, i \in Slots : RefreshOf(clientCall[h], u) /\ RefreshOf(clientCall[i], u) => h = i
          /\ \A i \in Slots : At(clientCall[i], "queued") /\ clientCall[i].tab = u => u \in refreshing
      BY SessionTypes DEF InStep
    <2>3. CASE u = t
      <3>1. \A i \in Slots : RefreshOf(clientCall[i], t) => i = j
        BY <2>2, <2>3 DEF RefreshOf
      <3>2. \A i \in Slots : ~RefreshOf(clientCall'[i], t)
        BY <1>3, <1>4, <3>1 DEF RefreshOf
      <3>3. \A i \in Slots : ~(At(clientCall'[i], "queued") /\ clientCall'[i].tab = t)
        BY <1>2, <1>3, <1>4
      <3> QED
        BY <2>3, <3>2, <3>3
    <2>4. CASE u # t
      <3>1. u \in refreshing' <=> u \in refreshing
        BY <2>4
      <3>2. \A i \in Slots : RefreshOf(clientCall'[i], u) <=> RefreshOf(clientCall[i], u)
        BY <1>3, <1>4, <2>1, <2>4 DEF RefreshOf
      <3>3. \A i \in Slots : At(clientCall'[i], "queued") => clientCall'[i] = clientCall[i]
        BY <1>3, <1>4
      <3> QED
        BY <2>2, <3>1, <3>2, <3>3
    <2> QED
      BY <2>3, <2>4
  <1>8. Lasting'
    <2> SUFFICES ASSUME steady'
                 PROVE  Lasting'
      BY DEF Lasting
    <2>1. \A i \in Slots : IsRefresh(clientCall[i]) => i = j
      BY SessionTypes DEF Lasting
    <2>2. \A i \in Slots : ~IsRefresh(clientCall'[i])
      BY <1>3, <1>4, <2>1
    <2>3. \A i \in Slots : clientCall'[i] # None =>
            clientCall'[i].op # "logout" /\ clientCall'[i].step \notin EndSteps
      BY <1>3, <1>4, SessionTypes DEF Lasting, EndSteps
    <2> QED
      BY <2>2, <2>3 DEF Lasting
  <1>9. \A i \in Slots : Homed(clientCall'[i])
    BY <1>3, <1>4, SessionTypes
  <1>10. (\A i \in Slots : Homed(clientCall[i]))'
    BY <1>9
  <1> QED
    BY <1>6, <1>7, <1>8, <1>10 DEF SessionInv

LEMMA GrantedKeeps ==
  ASSUME SessionInv, NEW j \in Slots, Granted(j)
  PROVE  SessionInv'
  <1>1. IsRefresh(clientCall[j]) /\ clientCall[j] \in ClientCalls /\ clientCall[j].step = "granted"
    BY RefreshAt DEF Granted, RefreshSteps, At
  <1>2. stored' \in Tokens \cup {None}
    BY <1>1, CallFields DEF Granted
  <1>3. steady => stored' \in live /\ stored' # None
    <2>1. steady => stored' \in live
      BY <1>1, SessionTypes DEF Lasting, Carries, Granted
    <2> QED
      BY <2>1, SessionTypes, SessionsAssumption
  <1> QED
    BY <1>1, <1>2, <1>3, SettlingKeeps, SessionTypes DEF Granted

LEMMA RefusedKeeps ==
  ASSUME SessionInv, NEW j \in Slots, Refused(j)
  PROVE  SessionInv'
  <1>1. IsRefresh(clientCall[j]) /\ clientCall[j] # None /\ clientCall[j].step = "refused"
    BY RefreshAt DEF Refused, RefreshSteps, At
  <1>2. ~steady
    BY <1>1, SessionTypes DEF Lasting, EndSteps
  <1> QED
    BY <1>1, <1>2, SettlingKeeps, SessionTypes DEF Refused, Cleared

LEMMA DropKeeps ==
  ASSUME SessionInv, NEW j \in Slots, Drop(j)
  PROVE  SessionInv'
  <1>1. IsRefresh(clientCall[j]) /\ clientCall[j].tab = None
    BY RefreshAt DEF Drop, RefreshSteps
  <1>2. ~steady
    BY <1>1, SessionTypes DEF Lasting, Carries
  <1>3. /\ clientCall'[j] = None /\ \A i \in Slots \ {j} : clientCall'[i] = clientCall[i]
        /\ clientCall' \in [Slots -> ClientCalls \cup {None}]
    BY SessionTypes, OneCall DEF Drop
  <1>4. SessionsTypeOK'
    BY <1>3, SessionTypes DEF Drop, SessionsTypeOK
  <1>5. \A i \in Slots, t \in Tabs : RefreshOf(clientCall'[i], t) <=> RefreshOf(clientCall[i], t)
    BY <1>1, <1>3, NoneIsNoRefresh, SessionsAssumption DEF RefreshOf
  <1>6. InStep'
    BY <1>3, <1>5, SessionTypes DEF Drop, InStep, At
  <1>7. Lasting'
    BY <1>2 DEF Drop, Lasting
  <1>8. \A i \in Slots : Homed(clientCall'[i])
    BY <1>3, SessionTypes, NoneIsHomed
  <1>9. (\A i \in Slots : Homed(clientCall[i]))'
    BY <1>8
  <1> QED
    BY <1>4, <1>6, <1>7, <1>9 DEF SessionInv

LEMMA LoginKeeps ==
  ASSUME SessionInv, Login
  PROVE  SessionInv'
  <1>1. issued + 1 \in Tokens /\ issued' = issued + 1 /\ stored' = issued + 1
    BY SessionTypes DEF Login, Tokens
  <1>2. SessionsTypeOK'
    BY <1>1, SessionTypes DEF Login, SessionsTypeOK
  <1>3. InStep' /\ (\A j \in Slots : Homed(clientCall[j]))'
    BY SessionTypes DEF Login, InStep
  <1>4. Lasting'
    <2> SUFFICES ASSUME steady'
                 PROVE  Lasting'
      BY DEF Lasting
    <2>1. \A j \in Slots :
            clientCall[j] # None => clientCall[j].step \in {"sent", "queued"} /\ clientCall[j].op # "logout"
      BY DEF Login
    <2>2. \A j \in Slots : ~IsRefresh(clientCall'[j])
      BY <2>1 DEF Login, IsRefresh, RefreshSteps
    <2>3. stored' \in live' /\ stored' # None
      BY <1>1, SessionsAssumption DEF Login
    <2>4. \A j \in Slots : clientCall'[j] # None =>
            clientCall'[j].op # "logout" /\ clientCall'[j].step \notin EndSteps
      BY <2>1 DEF Login, EndSteps
    <2> QED
      BY <2>2, <2>3, <2>4 DEF Lasting
  <1> QED
    BY <1>2, <1>3, <1>4 DEF SessionInv

LEMMA ExpireKeeps ==
  ASSUME SessionInv, Expire
  PROVE  SessionInv'
  <1>1. ASSUME NEW j \in Slots, clientCall[j] # None
        PROVE  /\ clientCall'[j] \in ClientCalls /\ clientCall'[j] # None
               /\ clientCall'[j].step = clientCall[j].step /\ clientCall'[j].op = clientCall[j].op
               /\ clientCall'[j].tab = clientCall[j].tab /\ clientCall'[j].token = clientCall[j].token
               /\ clientCall'[j].next = clientCall[j].next
    <2>1. clientCall[j] \in ClientCalls
      BY <1>1, SessionTypes, CallInFlight
    <2>2. clientCall'[j] = [clientCall[j] EXCEPT !.bearer = FALSE]
      BY <1>1 DEF Expire
    <2> PICK c : c = clientCall[j]
      OBVIOUS
    <2>3. /\ [c EXCEPT !.bearer = FALSE] \in ClientCalls
          /\ [c EXCEPT !.bearer = FALSE].step = c.step
          /\ [c EXCEPT !.bearer = FALSE].op = c.op
          /\ [c EXCEPT !.bearer = FALSE].tab = c.tab
          /\ [c EXCEPT !.bearer = FALSE].token = c.token
          /\ [c EXCEPT !.bearer = FALSE].next = c.next
      BY <2>1, CallIsLeft
    <2> QED
      BY <2>2, <2>3, SessionsAssumption
  <1>2. ASSUME NEW j \in Slots, clientCall[j] = None
        PROVE  clientCall'[j] = None
    BY <1>2 DEF Expire
  <1>3. clientCall' \in [Slots -> ClientCalls \cup {None}]
    <2>1. clientCall' = [j \in Slots |-> clientCall'[j]]
      BY DEF Expire
    <2> QED
      BY <1>1, <1>2, <2>1
  <1>4. SessionsTypeOK'
    BY <1>3, SessionTypes DEF Expire, SessionsTypeOK
  <1>5. \A j \in Slots : IsRefresh(clientCall'[j]) <=> IsRefresh(clientCall[j])
    BY <1>1, <1>2 DEF IsRefresh
  <1>11. \A j \in Slots, t \in Tabs :
           At(clientCall'[j], "queued") /\ clientCall'[j].tab = t
             => At(clientCall[j], "queued") /\ clientCall[j].tab = t
    BY <1>1, <1>2 DEF At
  <1>6. \A j \in Slots, t \in Tabs : RefreshOf(clientCall'[j], t) <=> RefreshOf(clientCall[j], t)
    BY <1>1, <1>2, <1>5 DEF RefreshOf, IsRefresh
  <1>7. InStep'
    <2>1. refreshing' = refreshing
      BY DEF Expire
    <2> QED
      BY <1>6, <1>11, <2>1, SessionTypes DEF InStep
  <1>8. Lasting'
    <2> SUFFICES ASSUME steady'
                 PROVE  Lasting'
      BY DEF Lasting
    <2>1. steady /\ UNCHANGED <<stored, live>>
      BY DEF Expire
    <2>2. \A j \in Slots : clientCall'[j] # None =>
            clientCall'[j].op # "logout" /\ clientCall'[j].step \notin EndSteps
      BY <1>1, <1>2, <2>1, SessionTypes DEF Lasting
    <2>3. \A j \in Slots : IsRefresh(clientCall'[j]) => Carries(clientCall[j])
      <3>1. \A j \in Slots : IsRefresh(clientCall[j]) => Carries(clientCall[j])
        BY <2>1, SessionTypes DEF Lasting
      <3> QED
        BY <1>5, <3>1
    <2>4. \A j \in Slots : IsRefresh(clientCall'[j]) => Carries(clientCall[j])'
      BY <1>1, <1>2, <2>1, <2>3, NoneIsNoRefresh DEF Carries
    <2>5. /\ stored' # None
          /\ \A i, j \in Slots : IsRefresh(clientCall'[i]) /\ IsRefresh(clientCall'[j]) => i = j
          /\ (\A j \in Slots : ~IsRefresh(clientCall'[j])) => stored' \in live'
      <3>1. /\ stored # None
            /\ \A i, j \in Slots : IsRefresh(clientCall[i]) /\ IsRefresh(clientCall[j]) => i = j
            /\ (\A j \in Slots : ~IsRefresh(clientCall[j])) => stored \in live
        BY <2>1, SessionTypes DEF Lasting
      <3> QED
        BY <1>5, <2>1, <3>1
    <2> QED
      BY <2>2, <2>4, <2>5 DEF Lasting
  <1>9. \A j \in Slots : Homed(clientCall'[j])
    BY <1>1, <1>2, SessionTypes, NoneIsHomed DEF Homed
  <1>10. (\A j \in Slots : Homed(clientCall[j]))'
    BY <1>9
  <1> QED
    BY <1>4, <1>7, <1>8, <1>10 DEF SessionInv

LEMMA LapseKeeps ==
  ASSUME SessionInv, Lapse
  PROVE  SessionInv'
  <1>1. SessionsTypeOK'
    BY SessionTypes DEF Lapse, SessionsTypeOK
  <1>2. InStep' /\ (\A j \in Slots : Homed(clientCall[j]))'
    BY SessionTypes DEF Lapse, InStep
  <1>3. Lasting'
    BY DEF Lapse, Lasting
  <1> QED
    BY <1>1, <1>2, <1>3 DEF SessionInv

\* What a reload leaves of a call of its tab.
LEMMA AbandonedCall ==
  ASSUME NEW c \in ClientCalls
  PROVE  \/ Abandoned(c) = None
         \/ /\ Abandoned(c) \in ClientCalls /\ Abandoned(c).tab = None
            /\ Abandoned(c).op = c.op /\ Abandoned(c).step = c.step
            /\ \/ c.step \in {"find", "revoke", "create", "revokeAll"}
               \/ c.op = "logout" /\ c.step = "sent"
  BY CallIsLeft DEF Abandoned

LEMMA ReloadKeeps ==
  ASSUME SessionInv, NEW j \in Slots, NEW t \in Tabs, Reload(j, t)
  PROVE  SessionInv'
  <1> PICK left : left = [i \in Slots |->
                            IF clientCall[i] = None \/ clientCall[i].tab # t THEN clientCall[i]
                            ELSE Abandoned(clientCall[i])]
    OBVIOUS
  <1> PICK new : new = ClientCall("me", t, None)
    OBVIOUS
  <1>1. /\ left[j] = None
        /\ clientCall' = [i \in Slots |-> IF i = j /\ stored # None THEN new ELSE left[i]]
        /\ refreshing' = refreshing \ {t}
        /\ steady' = (steady /\ Refreshes(t) = {})
        /\ UNCHANGED <<stored, valid, live, issued>>
    BY DEF Reload
  <1>2. /\ new \in ClientCalls /\ new.step = "sent" /\ new.op = "me" /\ new.tab = t
        /\ new # None /\ ~IsRefresh(new) /\ Homed(new)
    BY SessionTypes, CallBegins, SentIsNoRefresh, SessionsAssumption DEF RefreshSteps, Homed
  <1>3. ASSUME NEW i \in Slots, clientCall[i] = None \/ clientCall[i].tab # t
        PROVE  left[i] = clientCall[i]
    BY <1>3
  <1>4. ASSUME NEW i \in Slots, clientCall[i] # None, clientCall[i].tab = t, left[i] # None
        PROVE  /\ left[i] \in ClientCalls /\ left[i].tab = None
               /\ left[i].op = clientCall[i].op /\ left[i].step = clientCall[i].step
               /\ left[i].step # "queued" /\ Homed(left[i])
    <2>1. clientCall[i] \in ClientCalls /\ left[i] = Abandoned(clientCall[i])
      BY <1>4, SessionTypes, CallInFlight
    <2> QED
      BY <1>4, <2>1, AbandonedCall DEF Homed
  <1>5. \A i \in Slots : left[i] \in ClientCalls \cup {None}
    BY <1>3, <1>4, SessionTypes
  <1>6. clientCall' \in [Slots -> ClientCalls \cup {None}]
    BY <1>1, <1>2, <1>5
  <1>7. SessionsTypeOK'
    BY <1>1, <1>6, SessionTypes DEF SessionsTypeOK
  <1>8. \A i \in Slots : clientCall'[i] \in {new, left[i]}
    BY <1>1
  <1>9. InStep'
    <2> SUFFICES ASSUME NEW u \in Tabs
                 PROVE  /\ u \in refreshing' <=> \E i \in Slots : RefreshOf(clientCall'[i], u)
                        /\ \A h, i \in Slots :
                             RefreshOf(clientCall'[h], u) /\ RefreshOf(clientCall'[i], u) => h = i
                        /\ \A i \in Slots :
                             At(clientCall'[i], "queued") /\ clientCall'[i].tab = u => u \in refreshing'
      BY DEF InStep
    <2>1. u # None
      BY SessionsAssumption
    <2>2. /\ u \in refreshing <=> \E i \in Slots : RefreshOf(clientCall[i], u)
          /\ \A h, i \in Slots : RefreshOf(clientCall[h], u) /\ RefreshOf(clientCall[i], u) => h = i
          /\ \A i \in Slots : At(clientCall[i], "queued") /\ clientCall[i].tab = u => u \in refreshing
      BY SessionTypes DEF InStep
    <2>3. \A i \in Slots : At(clientCall'[i], "queued") /\ clientCall'[i].tab = u
                            => u # t /\ At(clientCall[i], "queued") /\ clientCall[i].tab = u
      BY <1>2, <1>3, <1>4, <1>8 DEF At
    <2>4. CASE u = t
      <3>1. \A i \in Slots : ~RefreshOf(clientCall'[i], t)
        BY <1>2, <1>3, <1>4, <1>8, <2>1, <2>4, NoneIsNoRefresh DEF RefreshOf
      <3> QED
        BY <1>1, <2>3, <2>4, <3>1
    <2>5. CASE u # t
      <3>1. ASSUME NEW i \in Slots
            PROVE  RefreshOf(clientCall'[i], u) <=> RefreshOf(clientCall[i], u)
        <4>1. CASE clientCall[i] = None \/ clientCall[i].tab # t
          <5>1. CASE clientCall'[i] = left[i]
            BY <1>3, <4>1, <5>1
          <5>2. CASE clientCall'[i] # left[i]
            <6>1. i = j /\ clientCall'[i] = new
              BY <1>1, <5>2
            <6>2. clientCall[i] = None
              BY <1>1, <1>3, <4>1, <6>1
            <6> QED
              BY <1>2, <6>1, <6>2, NoneIsNoRefresh DEF RefreshOf
          <5> QED
            BY <5>1, <5>2
        <4>2. CASE clientCall[i] # None /\ clientCall[i].tab = t
          <5>1. ~RefreshOf(clientCall[i], u)
            BY <2>5, <4>2 DEF RefreshOf
          <5>2. ~RefreshOf(clientCall'[i], u)
            BY <1>2, <1>4, <1>8, <2>1, <4>2, NoneIsNoRefresh DEF RefreshOf
          <5> QED
            BY <5>1, <5>2
        <4> QED
          BY <4>1, <4>2
      <3>2. u \in refreshing' <=> u \in refreshing
        BY <1>1, <2>5
      <3> QED
        BY <2>2, <2>3, <3>1, <3>2
    <2> QED
      BY <2>4, <2>5
  <1>10. Lasting'
    <2> SUFFICES ASSUME steady'
                 PROVE  Lasting'
      BY DEF Lasting
    <2>1. steady /\ \A i \in Slots : ~(IsRefresh(clientCall[i]) /\ clientCall[i].tab = t)
      BY <1>1 DEF Refreshes
    <2>2. /\ stored # None
          /\ \A i \in Slots :
               clientCall[i] # None => clientCall[i].op # "logout" /\ clientCall[i].step \notin EndSteps
          /\ \A i \in Slots : IsRefresh(clientCall[i]) => Carries(clientCall[i])
          /\ \A h, i \in Slots : IsRefresh(clientCall[h]) /\ IsRefresh(clientCall[i]) => h = i
          /\ (\A i \in Slots : ~IsRefresh(clientCall[i])) => stored \in live
      BY <2>1, SessionTypes DEF Lasting
    <2>3. ASSUME NEW i \in Slots, IsRefresh(clientCall'[i])
          PROVE  IsRefresh(clientCall[i]) /\ clientCall'[i] = clientCall[i]
      <3>1. clientCall'[i] = left[i] /\ left[i] # None
        BY <1>2, <1>8, <2>3, NoneIsNoRefresh
      <3>2. ~(clientCall[i] # None /\ clientCall[i].tab = t)
        BY <1>4, <2>1, <2>3, <3>1 DEF IsRefresh
      <3> QED
        BY <1>3, <2>3, <3>1, <3>2
    <2>4. ASSUME NEW i \in Slots, IsRefresh(clientCall[i])
          PROVE  IsRefresh(clientCall'[i])
      <3>1. clientCall[i] # None /\ clientCall[i].tab # t
        BY <2>1, <2>4 DEF IsRefresh
      <3>2. left[i] = clientCall[i] /\ i # j
        BY <1>1, <1>3, <3>1
      <3> QED
        BY <1>1, <2>4, <3>2
    <2>5. ASSUME NEW i \in Slots, clientCall'[i] # None
          PROVE  clientCall'[i].op # "logout" /\ clientCall'[i].step \notin EndSteps
      <3>1. CASE clientCall'[i] = new
        BY <1>2, <3>1 DEF EndSteps
      <3>2. CASE clientCall'[i] = left[i] /\ (clientCall[i] = None \/ clientCall[i].tab # t)
        BY <1>3, <2>2, <2>5, <3>2
      <3>3. CASE clientCall'[i] = left[i] /\ clientCall[i] # None /\ clientCall[i].tab = t
        BY <1>4, <2>2, <2>5, <3>3
      <3> QED
        BY <1>8, <3>1, <3>2, <3>3
    <2>6. \A i \in Slots : IsRefresh(clientCall'[i]) => Carries(clientCall[i])'
      BY <1>1, <2>2, <2>3 DEF Carries
    <2>7. /\ \A h, i \in Slots : IsRefresh(clientCall'[h]) /\ IsRefresh(clientCall'[i]) => h = i
          /\ (\A i \in Slots : ~IsRefresh(clientCall'[i])) => stored' \in live'
      BY <1>1, <2>2, <2>3, <2>4
    <2> QED
      BY <1>1, <2>2, <2>5, <2>6, <2>7 DEF Lasting
  <1>11. \A i \in Slots : Homed(clientCall'[i])
    BY <1>2, <1>3, <1>4, <1>8, SessionTypes, NoneIsHomed
  <1>12. (\A i \in Slots : Homed(clientCall[i]))'
    BY <1>11
  <1> QED
    BY <1>7, <1>9, <1>10, <1>12 DEF SessionInv

LEMMA SessionStepKeeps ==
  ASSUME SessionInv, SessionsNext
  PROVE  SessionInv'
  <1>1. ASSUME NEW j \in Slots, Answer(j)
        PROVE  SessionInv'
    BY <1>1, ServedKeeps, GiveUpKeeps, EnqueueKeeps, RefreshKeeps, FindTokenKeeps,
       RevokeTokenKeeps, CreateTokenKeeps, GrantedKeeps, RefusedKeeps, DropKeeps,
       RevokeOwnKeeps, RevokeAllKeeps, LeaveKeeps DEF Answer
  <1>2. ASSUME NEW j \in Slots, NEW t \in Tabs, CallApi(j, t) \/ Logout(j, t) \/ Reload(j, t)
        PROVE  SessionInv'
    BY <1>2, CallApiKeeps, LogoutKeeps, ReloadKeeps
  <1> QED
    BY <1>1, <1>2, FailCallKeeps, FailRefreshKeeps, LoginKeeps, ExpireKeeps, LapseKeeps
    DEF SessionsNext

LEMMA SessionIdles ==
  ASSUME SessionInv, UNCHANGED sessionVars
  PROVE  SessionInv'
  BY DEF SessionInv, sessionVars, SessionsTypeOK, InStep, Lasting, Carries

LEMMA SessionBegins ==
  ASSUME SessionsInit
  PROVE  SessionInv
  BY NoneIsHomed DEF SessionsInit, SessionInv, SessionsTypeOK, InStep, Lasting, RefreshOf, IsRefresh, At

LEMMA QueueServed ==
  ASSUME SessionInv
  PROVE  QueueIsServed
  <1> SUFFICES ASSUME NEW t \in Tabs
               PROVE  /\ Cardinality(Refreshes(t)) = (IF t \in refreshing THEN 1 ELSE 0)
                      /\ Queued(t) # {} => t \in refreshing
    BY DEF QueueIsServed
  <1>1. /\ t \in refreshing <=> \E j \in Slots : RefreshOf(clientCall[j], t)
        /\ \A i, j \in Slots : RefreshOf(clientCall[i], t) /\ RefreshOf(clientCall[j], t) => i = j
        /\ \A j \in Slots : At(clientCall[j], "queued") /\ clientCall[j].tab = t => t \in refreshing
    BY SessionTypes DEF InStep
  <1>2. Refreshes(t) = {j \in Slots : RefreshOf(clientCall[j], t)}
    BY DEF Refreshes, RefreshOf
  <1>3. CASE t \in refreshing
    <2>1. \E j : Refreshes(t) = {j}
      BY <1>1, <1>2, <1>3
    <2> QED
      BY <1>3, <2>1, FS_Singleton
  <1>4. CASE t \notin refreshing
    <2>1. Refreshes(t) = {}
      BY <1>1, <1>2, <1>4
    <2>2. Queued(t) = {}
      BY <1>1, <1>4 DEF Queued
    <2> QED
      BY <1>4, <2>1, <2>2, FS_EmptySet
  <1> QED
    BY <1>1, <1>3, <1>4 DEF Queued

LEMMA SessionHeld ==
  ASSUME SessionInv
  PROVE  SessionLasts
  <1> SUFFICES ASSUME steady, stored \notin live
               PROVE  \E j \in Slots : /\ clientCall[j] # None /\ clientCall[j].token = stored
                                       /\ clientCall[j].step \in {"create", "granted"}
    BY DEF SessionLasts
  <1>1. PICK j \in Slots : IsRefresh(clientCall[j])
    BY SessionTypes DEF Lasting
  <1>2. Carries(clientCall[j]) /\ clientCall[j].step \notin EndSteps
    BY <1>1, SessionTypes DEF Lasting, IsRefresh
  <1> QED
    BY <1>1, <1>2 DEF Carries, IsRefresh, RefreshSteps, EndSteps

\* Of refreshes, logouts, reloads and closed tabs in any order: a tab refreshes
\* at most once at a time, and a steady session holds a token that is good for
\* the next refresh.
THEOREM SessionsInvariant == SessionsSpec => []SessionInv
  <1>1. SessionInv /\ [SessionsNext]_<<sessionVars, handlerVars>> => SessionInv'
    BY SessionStepKeeps, SessionIdles
  <1> QED
    BY <1>1, SessionBegins, PTL DEF SessionsSpec

\* A tab has one refresh in flight while isRefreshing is set and none otherwise,
\* and nothing waits in its queue without one, for any number of tabs.
THEOREM QueuesServed == SessionsSpec => []QueueIsServed
  BY SessionsInvariant, QueueServed, PTL

\* Overlapping requests of a tab never end a session, however they are answered.
THEOREM SessionsLast == SessionsSpec => []SessionLasts
  BY SessionsInvariant, SessionHeld, PTL

-----------------------------------------------------------------------------
(* Listings: counting the younger entries. *)

Above(t, S) == {u \in S : u > t}

LEMMA YoungerCounts ==
  ASSUME NEW S \in SUBSET Times, NEW t
  PROVE  /\ Younger(t, S) = Cardinality(Above(t, S))
         /\ Above(t, S) \in SUBSET Times /\ IsFiniteSet(Above(t, S)) /\ IsFiniteSet(S)
         /\ Younger(t, S) \in Nat
  <1>1. Above(t, S) \in SUBSET Times
    BY DEF Above
  <1>2. IsFiniteSet(Above(t, S)) /\ IsFiniteSet(S)
    BY <1>1, FS_Subset, ListingsAssumption
  <1> QED
    BY <1>1, <1>2, FS_CardinalityType DEF Younger, Above

LEMMA MoreYounger ==
  ASSUME NEW S \in SUBSET Times, NEW T \in SUBSET Times, NEW t, Above(t, S) \subseteq Above(t, T)
  PROVE  Younger(t, S) <= Younger(t, T)
  BY YoungerCounts, FS_Subset

LEMMA NewestIs ==
  ASSUME NEW S \in SUBSET Times, NEW n
  PROVE  /\ Newest(n, S) \in SUBSET Times /\ Newest(n, S) \subseteq S
         /\ \A u \in S : u \in Newest(n, S) <=> Younger(u, S) < n
  BY DEF Newest

\* Between two entries the older one has more that are younger.
LEMMA OlderHasMore ==
  ASSUME NEW S \in SUBSET Times, NEW u \in Times, NEW v \in S, u < v
  PROVE  Younger(v, S) + 1 <= Younger(u, S)
  <1>1. /\ u \in Nat /\ v \in Nat /\ \A w \in S : w \in Nat
    BY ListingsAssumption
  <1>2. Above(v, S) \cup {v} \in SUBSET Above(u, S) /\ v \notin Above(v, S)
    <2>1. \A w \in S : w > v => w > u
      BY <1>1
    <2>2. v > u /\ ~(v > v)
      BY <1>1
    <2> QED
      BY <2>1, <2>2 DEF Above
  <1>3. Cardinality(Above(v, S) \cup {v}) = Younger(v, S) + 1
    BY <1>2, YoungerCounts, FS_AddElement
  <1>4. Cardinality(Above(v, S) \cup {v}) <= Cardinality(Above(u, S))
    BY <1>2, YoungerCounts, FS_Subset
  <1> QED
    BY <1>3, <1>4, YoungerCounts

\* An entry among the newest n of S leaves them only because the new entry x
\* does: then it is the last of them, and x is younger.
LEMMA NewestGrow ==
  ASSUME NEW S \in SUBSET Times, NEW x \in Times \ S, NEW t \in Times, NEW n \in Nat
  PROVE  Younger(t, Newest(n, S)) <= Younger(t, Newest(n, S \cup {x}))
  <1> DEFINE T == S \cup {x}
             A == Above(t, Newest(n, S))
             B == Above(t, Newest(n, T))
  <1>1. /\ T \in SUBSET Times /\ x \in Nat /\ t \in Nat /\ \A w \in T : w \in Nat
    BY ListingsAssumption
  <1>2. ASSUME NEW u \in S
        PROVE  /\ Younger(u, S) \in Nat
               /\ Younger(u, T) = IF x > u THEN Younger(u, S) + 1 ELSE Younger(u, S)
    <2>1. Above(u, T) = IF x > u THEN Above(u, S) \cup {x} ELSE Above(u, S)
      BY DEF Above
    <2>2. x \notin Above(u, S)
      BY DEF Above
    <2>3. /\ IsFiniteSet(Above(u, S)) /\ Younger(u, S) = Cardinality(Above(u, S))
          /\ Younger(u, T) = Cardinality(Above(u, T)) /\ Younger(u, S) \in Nat
      BY <1>1, YoungerCounts
    <2>4. CASE x > u
      <3>1. Cardinality(Above(u, S) \cup {x}) = Cardinality(Above(u, S)) + 1
        BY <2>2, <2>3, FS_AddElement
      <3> QED
        BY <2>1, <2>3, <2>4, <3>1
    <2>5. CASE ~(x > u)
      BY <2>1, <2>3, <2>5
    <2> QED
      BY <2>3, <2>4, <2>5
  <1>3. /\ A \in SUBSET S /\ B \in SUBSET T
        /\ \A u \in S : u \in A <=> Younger(u, S) < n /\ u > t
        /\ \A u \in T : u \in B <=> Younger(u, T) < n /\ u > t
    BY <1>1, NewestIs DEF Above
  <1>4. /\ Younger(t, Newest(n, S)) = Cardinality(A) /\ IsFiniteSet(A)
        /\ Younger(t, Newest(n, T)) = Cardinality(B) /\ IsFiniteSet(B)
    BY <1>1, NewestIs, YoungerCounts
  <1> HIDE DEF A, B
  <1>5. CASE A \subseteq B
    BY <1>4, <1>5, FS_Subset
  <1>6. CASE ~(A \subseteq B)
    <2>1. PICK d \in A : d \notin B
      BY <1>6
    <2>2. d \in S /\ d > t /\ x > d /\ Younger(d, S) < n /\ ~(Younger(d, S) + 1 < n)
      BY <1>2, <1>3, <2>1
    <2>3. \A u \in A \ {d} : u \in B
      <3> SUFFICES ASSUME NEW u \in A \ {d}, u \notin B
                   PROVE  FALSE
        OBVIOUS
      <3>1. u \in S /\ u > t /\ x > u /\ Younger(u, S) < n /\ ~(Younger(u, S) + 1 < n)
        BY <1>2, <1>3
      <3>2. u < d => Younger(d, S) + 1 <= Younger(u, S)
        BY <2>2, <3>1, OlderHasMore
      <3>3. d < u => Younger(u, S) + 1 <= Younger(d, S)
        BY <2>2, <3>1, OlderHasMore
      <3> QED
        BY <1>1, <1>2, <2>2, <3>1, <3>2, <3>3
    <2>4. x \in B
      <3>1. Above(x, T) \subseteq Above(d, S)
        <4>1. ~(x > x) /\ \A w \in S : w > x => w > d
          BY <1>1, <2>2
        <4> QED
          BY <4>1 DEF Above
      <3>2. Younger(x, T) <= Younger(d, S)
        <4>1. Cardinality(Above(x, T)) <= Cardinality(Above(d, S))
          BY <3>1, YoungerCounts, FS_Subset
        <4> QED
          BY <1>1, <4>1, YoungerCounts
      <3>3. Younger(x, T) \in Nat /\ Younger(d, S) \in Nat
        BY <1>1, YoungerCounts
      <3>4. x > t
        BY <1>1, <2>2
      <3> QED
        BY <1>3, <2>2, <3>2, <3>3, <3>4
    <2>5. (A \ {d}) \cup {x} \in SUBSET B /\ x \notin A \ {d}
      BY <1>3, <2>3, <2>4
    <2>6. Cardinality((A \ {d}) \cup {x}) = Cardinality(A)
      <3>1. IsFiniteSet(A \ {d}) /\ Cardinality(A \ {d}) = Cardinality(A) - 1
        BY <1>4, <2>1, FS_RemoveElement
      <3>2. Cardinality((A \ {d}) \cup {x}) = Cardinality(A \ {d}) + 1
        BY <2>5, <3>1, FS_AddElement
      <3> QED
        BY <1>4, <3>1, <3>2, FS_CardinalityType
    <2> QED
      BY <1>4, <2>5, <2>6, FS_Subset
  <1> QED
    BY <1>5, <1>6

\* Without an entry that is older than t nothing changes above t.
LEMMA NewestShrink ==
  ASSUME NEW S \in SUBSET Times, NEW x \in Times, NEW t \in Times, x < t, NEW n
  PROVE  Above(t, Newest(n, S \ {x})) = Above(t, Newest(n, S))
  <1>1. /\ x \in Nat /\ t \in Nat /\ \A w \in S : w \in Nat
    BY ListingsAssumption
  <1>2. ASSUME NEW u \in S, u > t
        PROVE  Younger(u, S \ {x}) = Younger(u, S)
    <2>1. {v \in S \ {x} : v > u} = {v \in S : v > u}
      BY <1>1, <1>2
    <2> QED
      BY <2>1 DEF Younger
  <1>3. \A u : u \in S /\ u > t <=> u \in S \ {x} /\ u > t
    BY <1>1
  <1> QED
    BY <1>2, <1>3 DEF Above, Newest

LEMMA FewerMeansInjection ==
  ASSUME NEW S, NEW T, IsFiniteSet(S), IsFiniteSet(T), Cardinality(S) <= Cardinality(T)
  PROVE  \E f : f \in [S -> T] /\ \A x, y \in S : f[x] = f[y] => x = y
  <1> DEFINE m == Cardinality(S)
             n == Cardinality(T)
  <1>1. m \in Nat /\ n \in Nat /\ ExistsBijection(1..m, S) /\ ExistsBijection(1..n, T)
    BY FS_CardinalityType
  <1>2. ExistsBijection(S, 1..m)
    BY <1>1, Fun_ExistsBijSymmetric
  <1> HIDE DEF m, n
  <1>3. PICK g : g \in Bijection(S, 1..m)
    BY <1>2 DEF ExistsBijection
  <1>4. PICK h : h \in Bijection(1..n, T)
    BY <1>1 DEF ExistsBijection
  <1>5. g \in [S -> 1..m] /\ \A x, y \in S : g[x] = g[y] => x = y
    BY <1>3, Fun_BijectionProperties
  <1>6. h \in [1..n -> T] /\ \A x, y \in 1..n : h[x] = h[y] => x = y
    BY <1>4, Fun_BijectionProperties
  <1>7. \A x \in S : g[x] \in 1..n
    BY <1>1, <1>5 DEF m, n
  <1> WITNESS [x \in S |-> h[g[x]]]
  <1> QED
    BY <1>5, <1>6, <1>7

\* With at most as many of each source above t there are at most as many above
\* t in the union: the entries of different sources are different.
LEMMA FewerMerged ==
  ASSUME NEW t, NEW e, NEW V \in [Sources -> SUBSET Times], NEW W \in [Sources -> SUBSET Times],
         \A s \in Sources : \A u \in V[s] : e[u] = s,
         \A s \in Sources : \A u \in W[s] : e[u] = s,
         \A s \in Sources : Younger(t, V[s]) <= Younger(t, W[s])
  PROVE  Younger(t, UNION {V[s] : s \in Sources}) <= Younger(t, UNION {W[s] : s \in Sources})
  <1> DEFINE A(s) == Above(t, V[s])
             B(s) == Above(t, W[s])
             Into(s, f) == f \in [A(s) -> B(s)] /\ \A x, y \in A(s) : f[x] = f[y] => x = y
             inj(s) == CHOOSE f : Into(s, f)
             X == Above(t, UNION {V[s] : s \in Sources})
             Y == Above(t, UNION {W[s] : s \in Sources})
  <1>1. /\ X \in SUBSET Times /\ IsFiniteSet(X)
        /\ Younger(t, UNION {V[s] : s \in Sources}) = Cardinality(X)
        /\ Y \in SUBSET Times /\ IsFiniteSet(Y)
        /\ Younger(t, UNION {W[s] : s \in Sources}) = Cardinality(Y)
    <2>1. /\ UNION {V[s] : s \in Sources} \in SUBSET Times
          /\ UNION {W[s] : s \in Sources} \in SUBSET Times
      OBVIOUS
    <2> QED
      BY <2>1, YoungerCounts
  <1>2. \A u \in X : e[u] \in Sources /\ u \in A(e[u])
    BY DEF Above
  <1>3. \A s \in Sources : \A u \in B(s) : u \in Y /\ e[u] = s
    BY DEF Above
  <1>4. ASSUME NEW s \in Sources
        PROVE  Into(s, inj(s))
    <2>1. /\ IsFiniteSet(A(s)) /\ IsFiniteSet(B(s))
          /\ Cardinality(A(s)) <= Cardinality(B(s))
      BY YoungerCounts
    <2>2. \E f : Into(s, f)
      BY <2>1, FewerMeansInjection
    <2> QED
      BY <2>2
  <1> DEFINE g == [u \in X |-> inj(e[u])[u]]
  <1> HIDE DEF inj, A, B, X, Y
  <1>5. \A u \in X : g[u] \in B(e[u])
    BY <1>2, <1>4
  <1>6. g \in [X -> Y]
    BY <1>2, <1>3, <1>5
  <1>7. \A u, v \in X : g[u] = g[v] => u = v
    <2> SUFFICES ASSUME NEW u \in X, NEW v \in X, g[u] = g[v]
                 PROVE  u = v
      OBVIOUS
    <2>1. e[u] = e[v]
      BY <1>2, <1>3, <1>5
    <2>2. inj(e[u])[u] = inj(e[u])[v]
      BY <2>1
    <2> QED
      BY <1>2, <1>4, <2>1, <2>2
  <1>8. g \in Injection(X, Y)
    BY <1>6, <1>7 DEF Injection, IsInjective
  <1>9. Cardinality(X) <= Cardinality(Y)
    BY <1>1, <1>8, FS_Injection DEF ExistsInjection
  <1> QED
    BY <1>1, <1>9

-----------------------------------------------------------------------------
(* Listings: the inductive invariant. *)

\* What the page is cut from: the answer of the query, or what it would answer.
Latest(s) == IF reader.view[s] # None THEN reader.view[s] ELSE Fetched(s)

AllLatest == UNION {Latest(s) : s \in Sources}

SameSource(t) == {u \in Times : entry[u] = entry[t]}

\* Nothing excuses the reader from seeing t.
Due(t) ==
  /\ \A u \in reader.gone : ~(u >= t)
  /\ entry[t] \in Limited => ~(Younger(t, SameSource(t)) >= Take)

\* Entries on the pages that were shown.
Passed == (IF reader.step = "loading" THEN reader.page - 1 ELSE reader.page) * PageSize

(* An answer has no more entries above t than the query would answer now,  *)
(* so that t never moves to an earlier page: until it is seen, there are   *)
(* as many above it as the pages passed have shown.                        *)
Standing(t) ==
  /\ \A s \in Sources : reader.view[s] # None => Younger(t, reader.view[s]) <= Younger(t, Fetched(s))
  /\ t \in Latest(entry[t])
  /\ reader.step # "end" /\ t \notin reader.seen => Younger(t, AllLatest) >= Passed
  /\ reader.step = "end" => t \in reader.seen

Reading ==
  /\ reader.step = "loading" => reader.page > 0
  /\ \A s \in Sources : reader.view[s] # None => \A u \in reader.view[s] : entry[u] = s
  /\ \A t \in reader.start : entry[t] \in Sources /\ (t \in superseded => t \in reader.gone)
  /\ \A t \in reader.start : Due(t) => Standing(t)

ListInv == ListingsTypeOK /\ (reader # None => Reading)

FetchedOf(s, S) == IF s \in Limited THEN Newest(Take, S) ELSE S

LEMMA FetchedIs ==
  ASSUME NEW s, NEW S \in SUBSET Times
  PROVE  FetchedOf(s, S) \in SUBSET Times /\ FetchedOf(s, S) \subseteq S
  BY NewestIs DEF FetchedOf

\* The limit of its source does not cut off an entry that is due.
LEMMA DueIsFetched ==
  ASSUME NEW s, NEW S \in SUBSET Times, NEW T \in SUBSET Times, S \subseteq T, NEW t \in S,
         s \in Limited => ~(Younger(t, T) >= Take)
  PROVE  t \in FetchedOf(s, S)
  <1>1. /\ Younger(t, S) \in Nat /\ Younger(t, T) \in Nat /\ Take \in Nat
        /\ Younger(t, S) <= Younger(t, T)
    BY YoungerCounts, MoreYounger, ListingsAssumption DEF Above
  <1> QED
    BY <1>1, NewestIs DEF FetchedOf

LEMMA ListTypes ==
  ASSUME ListInv
  PROVE  /\ ListingsTypeOK
         /\ entry \in [Times -> Sources \cup {None}] /\ superseded \in SUBSET Times
         /\ \A s \in Sources : /\ Shown(s) \in SUBSET Times
                               /\ Shown(s) \subseteq {u \in Times : entry[u] = s}
                               /\ Fetched(s) = FetchedOf(s, Shown(s))
                               /\ Fetched(s) \in SUBSET Times /\ Fetched(s) \subseteq Shown(s)
  <1>1. \A s \in Sources : /\ Shown(s) \in SUBSET Times
                           /\ Shown(s) \subseteq {u \in Times : entry[u] = s}
                           /\ Fetched(s) = FetchedOf(s, Shown(s))
    BY DEF Shown, Fetched, FetchedOf
  <1> QED
    BY <1>1, FetchedIs DEF ListInv, ListingsTypeOK

LEMMA ReaderTypes ==
  ASSUME ListInv, reader # None
  PROVE  /\ Reading /\ reader \in Readers
         /\ reader.page \in Nat /\ reader.step \in {"loading", "shown", "end"}
         /\ reader.view \in [Sources -> {None} \cup SUBSET Times]
         /\ reader.start \in SUBSET Times /\ reader.seen \in SUBSET Times
         /\ reader.gone \in SUBSET Times
         /\ \A s \in Sources : /\ Latest(s) \in SUBSET Times
                               /\ \A u \in Latest(s) : entry[u] = s
         /\ AllLatest \in SUBSET Times
         /\ Passed \in Int
  <1>1. Reading /\ reader \in Readers
    BY DEF ListInv, ListingsTypeOK
  <1>2. /\ reader.page \in Nat /\ reader.step \in {"loading", "shown", "end"}
        /\ reader.view \in [Sources -> {None} \cup SUBSET Times]
        /\ reader.start \in SUBSET Times /\ reader.seen \in SUBSET Times
        /\ reader.gone \in SUBSET Times
    BY <1>1 DEF Readers
  <1>3. \A s \in Sources : /\ Latest(s) \in SUBSET Times
                           /\ \A u \in Latest(s) : entry[u] = s
    BY <1>1, <1>2, ListTypes DEF Reading, Latest
  <1>4. AllLatest \in SUBSET Times
    BY <1>3 DEF AllLatest
  <1>5. Passed \in Int
    BY <1>2, ListingsAssumption DEF Passed
  <1> QED
    BY <1>1, <1>2, <1>3, <1>4, <1>5

\* With what each source has above t, what is merged has as much above t.
LEMMA AllLatestGrows ==
  ASSUME NEW t, NEW e,
         \A s \in Sources : Latest(s) \in SUBSET Times /\ \A u \in Latest(s) : e[u] = s,
         \A s \in Sources : Latest(s)' \in SUBSET Times /\ \A u \in Latest(s)' : e[u] = s,
         \A s \in Sources : Younger(t, Latest(s)) <= Younger(t, Latest(s)')
  PROVE  Younger(t, AllLatest) <= Younger(t, AllLatest')
  <1> PICK V : V = [s \in Sources |-> Latest(s)]
    OBVIOUS
  <1> PICK W : W = [s \in Sources |-> Latest(s)']
    OBVIOUS
  <1>1. V \in [Sources -> SUBSET Times] /\ W \in [Sources -> SUBSET Times]
    OBVIOUS
  <1>2. /\ \A s \in Sources : \A u \in V[s] : e[u] = s
        /\ \A s \in Sources : \A u \in W[s] : e[u] = s
        /\ \A s \in Sources : Younger(t, V[s]) <= Younger(t, W[s])
    OBVIOUS
  <1>3. /\ UNION {V[s] : s \in Sources} = AllLatest
        /\ UNION {W[s] : s \in Sources} = AllLatest'
    BY DEF AllLatest
  <1> QED
    BY <1>1, <1>2, <1>3, FewerMerged

\* A step that neither shows a page nor takes entries above t away leaves t standing.
LEMMA StandsOn ==
  ASSUME ListInv, reader # None, NEW t \in Times, Standing(t),
         reader'.seen = reader.seen, Passed' = Passed,
         reader'.step = "end" <=> reader.step = "end",
         \A s \in Sources : /\ Latest(s)' \in SUBSET Times
                            /\ \A u \in Latest(s) : entry'[u] = s
                            /\ \A u \in Latest(s)' : entry'[u] = s
                            /\ Younger(t, Latest(s)) <= Younger(t, Latest(s)'),
         \A s \in Sources :
           reader'.view[s] # None => Younger(t, reader'.view[s]) <= Younger(t, Fetched(s)'),
         t \in Latest(entry[t])'
  PROVE  Standing(t)'
  <1> PICK e : e = entry'
    OBVIOUS
  <1>1. Younger(t, AllLatest) <= Younger(t, AllLatest')
    BY AllLatestGrows, ReaderTypes
  <1>2. AllLatest' \in SUBSET Times
    BY DEF AllLatest
  <1>3. /\ Younger(t, AllLatest) \in Nat /\ Younger(t, AllLatest') \in Nat /\ Passed \in Int
    BY <1>2, YoungerCounts, ReaderTypes
  <1>4. reader'.step # "end" /\ t \notin reader'.seen => Younger(t, AllLatest') >= Passed'
    BY <1>1, <1>3 DEF Standing
  <1>5. reader'.step = "end" => t \in reader'.seen
    BY DEF Standing
  <1> QED
    BY <1>4, <1>5 DEF Standing

LEMMA SameShown ==
  ASSUME UNCHANGED <<entry, superseded>>
  PROVE  /\ \A s \in Sources : Shown(s)' = Shown(s) /\ Fetched(s)' = Fetched(s)
         /\ \A t : SameSource(t)' = SameSource(t)
  BY DEF Shown, Fetched, SameSource

LEMMA OpenListingKeeps ==
  ASSUME ListInv, OpenListing
  PROVE  ListInv'
  <1> PICK r : r = [page |-> 1, step |-> "loading", view |-> [s \in Sources |-> None],
                    start |-> UNION {Shown(s) : s \in Sources}, seen |-> {}, gone |-> {}]
    OBVIOUS
  <1>1. reader' = r /\ UNCHANGED <<entry, superseded>>
    BY DEF OpenListing
  <1>2. r.start \in SUBSET Times
    BY ListTypes
  <1>3. r \in Readers
    BY <1>2 DEF Readers
  <1>4. /\ r.page = 1 /\ r.step = "loading" /\ r.start = UNION {Shown(s) : s \in Sources}
        /\ r.gone = {} /\ \A s \in Sources : r.view[s] = None
    OBVIOUS
  <1>5. ListingsTypeOK'
    BY <1>1, <1>3, ListTypes DEF ListingsTypeOK
  <1>6. \A t \in r.start : entry[t] \in Sources /\ t \in Shown(entry[t]) /\ t \notin superseded
    BY <1>4 DEF Shown
  <1>7. ASSUME NEW t \in r.start, Due(t)'
        PROVE  Standing(t)'
    <2>1. t \in Times
      BY <1>2
    <2>2. \A s \in Sources : Latest(s)' = Fetched(s)
      BY <1>1, <1>4, SameShown DEF Latest
    <2>3. entry[t] \in Limited => ~(Younger(t, SameSource(t)) >= Take)
      BY <1>1, <1>7, SameShown DEF Due
    <2>4. Shown(entry[t]) \subseteq SameSource(t) /\ SameSource(t) \in SUBSET Times
      BY DEF Shown, SameSource
    <2>5. t \in Fetched(entry[t])
      BY <1>6, <2>3, <2>4, DueIsFetched, ListTypes
    <2>6. t \in Latest(entry[t])'
      BY <1>1, <1>6, <2>2, <2>5
    <2>7. AllLatest' \in SUBSET Times
      BY <2>2, ListTypes DEF AllLatest
    <2>8. Passed' = 0 /\ Younger(t, AllLatest') \in Nat
      <3>1. Passed' = (1 - 1) * PageSize
        BY <1>1, <1>4 DEF Passed
      <3>2. Younger(t, AllLatest') \in Nat
        BY <2>7, YoungerCounts
      <3> QED
        BY <3>1, <3>2, ListingsAssumption
    <2> QED
      BY <1>1, <1>4, <2>6, <2>8 DEF Standing
  <1>8. Reading'
    BY <1>1, <1>4, <1>6, <1>7 DEF Reading
  <1> QED
    BY <1>5, <1>8 DEF ListInv

\* An entry of the beginning that is due is in the answer of its source.
LEMMA StillFetched ==
  ASSUME ListInv, reader # None, NEW t \in reader.start, Due(t)
  PROVE  t \in Times /\ entry[t] \in Sources /\ t \in Fetched(entry[t])
  <1>1. /\ t \in Times /\ entry[t] \in Sources /\ (t \in superseded => t \in reader.gone)
    BY ReaderTypes DEF Reading
  <1>2. t \notin superseded
    <2>1. t \in Nat /\ t >= t
      BY <1>1, ListingsAssumption
    <2> QED
      BY <1>1, <2>1 DEF Due
  <1>3. t \in Shown(entry[t]) /\ Shown(entry[t]) \subseteq SameSource(t)
        /\ SameSource(t) \in SUBSET Times
    BY <1>1, <1>2 DEF Shown, SameSource
  <1>4. entry[t] \in Limited => ~(Younger(t, SameSource(t)) >= Take)
    BY DEF Due
  <1> QED
    BY <1>1, <1>3, <1>4, DueIsFetched, ListTypes

LEMMA AnswerIsLess ==
  ASSUME ListInv, reader # None, NEW t \in Times, Standing(t), NEW s \in Sources
  PROVE  Younger(t, Latest(s)) <= Younger(t, Fetched(s))
  <1>1. Younger(t, Fetched(s)) \in Nat
    BY ListTypes, YoungerCounts
  <1> QED
    BY <1>1 DEF Standing, Latest

LEMMA NextPageKeeps ==
  ASSUME ListInv, NextPage
  PROVE  ListInv'
  <1> PICK r : r = [reader EXCEPT !.page = @ + 1, !.step = "loading",
                                  !.view = [s \in Sources |-> None]]
    OBVIOUS
  <1>1. /\ reader # None /\ reader.step = "shown" /\ reader' = r
        /\ UNCHANGED <<entry, superseded>>
    BY DEF NextPage, At
  <1>2. /\ r \in Readers /\ r.page = reader.page + 1 /\ r.step = "loading"
        /\ r.view = [s \in Sources |-> None]
        /\ r.start = reader.start /\ r.seen = reader.seen /\ r.gone = reader.gone
    <2>1. [s \in Sources |-> None] \in [Sources -> {None} \cup SUBSET Times]
      OBVIOUS
    <2>2. reader.page + 1 \in Nat
      BY <1>1, ReaderTypes
    <2>3. r = [page |-> reader.page + 1, step |-> "loading", view |-> [s \in Sources |-> None],
               start |-> reader.start, seen |-> reader.seen, gone |-> reader.gone]
      BY <1>1, ReaderTypes DEF Readers
    <2> QED
      BY <1>1, <2>1, <2>2, <2>3, ReaderTypes DEF Readers
  <1>3. ListingsTypeOK'
    BY <1>1, <1>2, ListTypes DEF ListingsTypeOK
  <1>4. \A s \in Sources : Latest(s)' = Fetched(s) /\ Fetched(s)' = Fetched(s)
    BY <1>1, <1>2, SameShown DEF Latest
  <1>5. Passed' = Passed
    BY <1>1, <1>2, ReaderTypes, ListingsAssumption DEF Passed
  <1>6. ASSUME NEW t \in r.start, Due(t)'
        PROVE  Standing(t)'
    <2>1. Due(t)
      BY <1>1, <1>2, <1>6, SameShown DEF Due
    <2>2. t \in Times /\ entry[t] \in Sources /\ t \in Fetched(entry[t]) /\ Standing(t)
      BY <1>1, <1>2, <2>1, StillFetched, ReaderTypes DEF Reading
    <2>3. \A s \in Sources : Younger(t, Latest(s)) <= Younger(t, Latest(s)')
      BY <1>1, <1>4, <2>2, AnswerIsLess
    <2>4. \A s \in Sources : /\ Latest(s)' \in SUBSET Times
                             /\ \A u \in Latest(s) : entry'[u] = s
                             /\ \A u \in Latest(s)' : entry'[u] = s
      BY <1>1, <1>4, ListTypes, ReaderTypes
    <2>5. t \in Latest(entry[t])'
      BY <1>1, <1>4, <2>2
    <2> QED
      BY <1>1, <1>2, <1>5, <2>2, <2>3, <2>4, <2>5, StandsOn
  <1>7. Reading'
    BY <1>1, <1>2, <1>6, ReaderTypes DEF Reading
  <1> QED
    BY <1>3, <1>7 DEF ListInv

LEMMA LoadKeeps ==
  ASSUME ListInv, NEW q \in Sources, Load(q)
  PROVE  ListInv'
  <1> PICK r : r = [reader EXCEPT !.view[q] = Fetched(q)]
    OBVIOUS
  <1>1. /\ reader # None /\ reader.step = "loading" /\ reader' = r /\ reader.view[q] = None
        /\ UNCHANGED <<entry, superseded>>
    BY DEF Load, At
  <1>2. /\ r \in Readers /\ r.page = reader.page /\ r.step = "loading"
        /\ r.view = [reader.view EXCEPT ![q] = Fetched(q)]
        /\ r.start = reader.start /\ r.seen = reader.seen /\ r.gone = reader.gone
    <2>1. [reader.view EXCEPT ![q] = Fetched(q)] \in [Sources -> {None} \cup SUBSET Times]
      BY <1>1, ReaderTypes, ListTypes
    <2> QED
      BY <1>1, <2>1, ReaderTypes DEF Readers
  <1>3. ListingsTypeOK'
    BY <1>1, <1>2, ListTypes DEF ListingsTypeOK
  <1>4. \A s \in Sources : r.view[s] = IF s = q THEN Fetched(q) ELSE reader.view[s]
    BY <1>1, <1>2, ReaderTypes
  <1>5. Fetched(q) # None
    BY ListTypes, ListingsNoneAssumption
  <1>6. \A s \in Sources : Latest(s)' = Latest(s) /\ Fetched(s)' = Fetched(s)
    BY <1>1, <1>4, <1>5, SameShown DEF Latest
  <1>7. Passed' = Passed
    BY <1>1, <1>2 DEF Passed
  <1>8. ASSUME NEW t \in r.start, Due(t)'
        PROVE  Standing(t)'
    <2>1. Due(t)
      BY <1>1, <1>2, <1>8, SameShown DEF Due
    <2>2. t \in Times /\ entry[t] \in Sources /\ Standing(t)
      BY <1>1, <1>2, <2>1, StillFetched, ReaderTypes DEF Reading
    <2>3. \A s \in Sources : Younger(t, Latest(s)) \in Nat /\ Younger(t, Fetched(s)) \in Nat
      BY <1>1, <2>2, YoungerCounts, ReaderTypes, ListTypes
    <2>4. \A s \in Sources : /\ Latest(s)' \in SUBSET Times
                             /\ \A u \in Latest(s) : entry'[u] = s
                             /\ \A u \in Latest(s)' : entry'[u] = s
                             /\ Younger(t, Latest(s)) <= Younger(t, Latest(s)')
      BY <1>1, <1>6, <2>3, ReaderTypes
    <2>5. t \in Latest(entry[t])'
      BY <1>1, <1>6, <2>2 DEF Standing
    <2>6. \A s \in Sources :
            reader'.view[s] # None => Younger(t, reader'.view[s]) <= Younger(t, Fetched(s)')
      BY <1>1, <1>4, <1>6, <2>2, <2>3 DEF Standing
    <2> QED
      BY <1>1, <1>2, <1>7, <2>2, <2>4, <2>5, <2>6, StandsOn
  <1>9. \A s \in Sources : r.view[s] # None => \A u \in r.view[s] : entry[u] = s
    BY <1>1, <1>4, ListTypes, ReaderTypes DEF Reading
  <1>10. Reading'
    BY <1>1, <1>2, <1>8, <1>9, ReaderTypes DEF Reading
  <1> QED
    BY <1>3, <1>10 DEF ListInv

LEMMA ShowPageKeeps ==
  ASSUME ListInv, ShowPage
  PROVE  ListInv'
  <1> PICK E : E = UNION {reader.view[s] : s \in Sources}
    OBVIOUS
  <1> PICK m : m = (reader.page - 1) * PageSize
    OBVIOUS
  <1> PICK n : n = reader.page * PageSize
    OBVIOUS
  <1> PICK r : r = [reader EXCEPT
                      !.seen = @ \cup (Newest(n, E) \ Newest(m, E)),
                      !.step = IF Cardinality(E) <= n THEN "end" ELSE "shown"]
    OBVIOUS
  <1>1. /\ reader # None /\ reader.step = "loading" /\ reader' = r
        /\ \A s \in Sources : reader.view[s] # None
        /\ UNCHANGED <<entry, superseded>>
    BY DEF ShowPage, At
  <1>2. \A s \in Sources : Latest(s) = reader.view[s]
    BY <1>1 DEF Latest
  <1>3. E = AllLatest /\ E \in SUBSET Times
    BY <1>1, <1>2, ReaderTypes DEF AllLatest
  <1>4. /\ r \in Readers /\ r.page = reader.page
        /\ r.step = (IF Cardinality(E) <= n THEN "end" ELSE "shown")
        /\ r.seen = reader.seen \cup (Newest(n, E) \ Newest(m, E))
        /\ r.view = reader.view /\ r.start = reader.start /\ r.gone = reader.gone
    <2>1. Newest(n, E) \in SUBSET Times
      BY <1>3, NewestIs
    <2> QED
      BY <1>1, <2>1, ReaderTypes DEF Readers
  <1>5. ListingsTypeOK'
    BY <1>1, <1>4, ListTypes DEF ListingsTypeOK
  <1>6. m \in Int /\ n \in Int /\ Passed = m
    BY <1>1, ReaderTypes, ListingsAssumption DEF Passed
  <1>7. \A s \in Sources : Latest(s)' = Latest(s) /\ Fetched(s)' = Fetched(s)
    BY <1>1, <1>4, SameShown DEF Latest
  <1>8. AllLatest' = E
    BY <1>3, <1>7 DEF AllLatest
  <1>9. ASSUME NEW t \in r.start, Due(t)'
        PROVE  Standing(t)'
    <2>1. Due(t)
      BY <1>1, <1>4, <1>9, SameShown DEF Due
    <2>2. t \in Times /\ entry[t] \in Sources /\ Standing(t)
      BY <1>1, <1>4, <2>1, StillFetched, ReaderTypes DEF Reading
    <2>3. t \in Latest(entry[t]) /\ t \in E
      BY <1>3, <2>2 DEF Standing, AllLatest
    <2>4. Younger(t, E) \in Nat /\ Cardinality(E) \in Nat /\ Younger(t, E) + 1 <= Cardinality(E)
      <3>1. Above(t, E) \in SUBSET (E \ {t})
        <4>1. t \in Nat /\ ~(t > t)
          BY <2>2, ListingsAssumption
        <4> QED
          BY <4>1 DEF Above
      <3>2. IsFiniteSet(E) /\ Younger(t, E) = Cardinality(Above(t, E)) /\ Younger(t, E) \in Nat
        BY <1>3, YoungerCounts
      <3>3. IsFiniteSet(E \ {t}) /\ Cardinality(E \ {t}) = Cardinality(E) - 1
        BY <2>3, <3>2, FS_RemoveElement
      <3>4. Cardinality(Above(t, E)) <= Cardinality(E \ {t})
        BY <3>1, <3>3, FS_Subset
      <3> QED
        BY <3>2, <3>3, <3>4, FS_CardinalityType
    <2>5. t \notin r.seen => Younger(t, E) >= n
      <3> SUFFICES ASSUME t \notin r.seen
                   PROVE  Younger(t, E) >= n
        OBVIOUS
      <3>1. Younger(t, E) >= m
        BY <1>1, <1>3, <1>4, <1>6, <2>2 DEF Standing
      <3>2. t \notin Newest(m, E)
        BY <1>3, <1>6, <2>3, <2>4, <3>1, NewestIs
      <3>3. t \notin Newest(n, E)
        BY <1>4, <3>2
      <3> QED
        BY <1>3, <1>6, <2>3, <2>4, <3>3, NewestIs
    <2>6. r.step = "end" => t \in r.seen
      BY <1>4, <1>6, <2>4, <2>5
    <2>7. r.step # "end" => Passed' = n
      BY <1>1, <1>4 DEF Passed
    <2>8. t \in Latest(entry[t])'
      BY <1>1, <1>7, <2>2, <2>3
    <2>9. \A s \in Sources :
            reader'.view[s] # None => Younger(t, reader'.view[s]) <= Younger(t, Fetched(s)')
      BY <1>1, <1>4, <1>7, <2>2 DEF Standing
    <2>10. reader'.step # "end" /\ t \notin reader'.seen => Younger(t, AllLatest') >= Passed'
      BY <1>1, <1>8, <2>5, <2>7
    <2> QED
      BY <1>1, <2>6, <2>8, <2>9, <2>10 DEF Standing
  <1>10. Reading'
    BY <1>1, <1>4, <1>9, ReaderTypes DEF Reading
  <1> QED
    BY <1>5, <1>10 DEF ListInv

LEMMA FailPageKeeps ==
  ASSUME ListInv, FailPage
  PROVE  ListInv'
  <1> PICK r : r = [reader EXCEPT !.page = @ - 1, !.step = "shown"]
    OBVIOUS
  <1>1. /\ reader # None /\ reader.step = "loading" /\ reader' = r
        /\ UNCHANGED <<entry, superseded>>
    BY DEF FailPage, At
  <1>2. reader.page - 1 \in Nat
    BY <1>1, ReaderTypes DEF Reading
  <1>3. /\ r \in Readers /\ r.page = reader.page - 1 /\ r.step = "shown"
        /\ r.view = reader.view
        /\ r.start = reader.start /\ r.seen = reader.seen /\ r.gone = reader.gone
    BY <1>1, <1>2, ReaderTypes DEF Readers
  <1>4. ListingsTypeOK'
    BY <1>1, <1>3, ListTypes DEF ListingsTypeOK
  <1>5. \A s \in Sources : Latest(s)' = Latest(s) /\ Fetched(s)' = Fetched(s)
    BY <1>1, <1>3, SameShown DEF Latest
  <1>6. Passed' = Passed
    BY <1>1, <1>3 DEF Passed
  <1>7. ASSUME NEW t \in r.start, Due(t)'
        PROVE  Standing(t)'
    <2>1. Due(t)
      BY <1>1, <1>3, <1>7, SameShown DEF Due
    <2>2. t \in Times /\ entry[t] \in Sources /\ Standing(t)
      BY <1>1, <1>3, <2>1, StillFetched, ReaderTypes DEF Reading
    <2>3. \A s \in Sources : Younger(t, Latest(s)) \in Nat
      BY <1>1, <2>2, YoungerCounts, ReaderTypes
    <2>4. \A s \in Sources : /\ Latest(s)' \in SUBSET Times
                             /\ \A u \in Latest(s) : entry'[u] = s
                             /\ \A u \in Latest(s)' : entry'[u] = s
                             /\ Younger(t, Latest(s)) <= Younger(t, Latest(s)')
      BY <1>1, <1>5, <2>3, ReaderTypes
    <2>5. t \in Latest(entry[t])'
      BY <1>1, <1>5, <2>2 DEF Standing
    <2>6. \A s \in Sources :
            reader'.view[s] # None => Younger(t, reader'.view[s]) <= Younger(t, Fetched(s)')
      BY <1>1, <1>3, <1>5, <2>2 DEF Standing
    <2> QED
      BY <1>1, <1>3, <1>6, <2>2, <2>4, <2>5, <2>6, StandsOn
  <1>8. Reading'
    BY <1>1, <1>3, <1>7, ReaderTypes DEF Reading
  <1> QED
    BY <1>4, <1>8 DEF ListInv

-----------------------------------------------------------------------------
(* Listings: what the other requests do. *)

LEMMA AddKeeps ==
  ASSUME ListInv, NEW x \in Times, NEW q \in Sources, Add(x, q)
  PROVE  ListInv'
  <1>1. /\ entry[x] = None /\ entry' = [entry EXCEPT ![x] = q]
        /\ UNCHANGED <<superseded, reader>>
    BY DEF Add
  <1>2. /\ \A u \in Times : entry'[u] = IF u = x THEN q ELSE entry[u]
        /\ \A u \in Times : entry[u] \in Sources => u # x
    BY <1>1, ListTypes, ListingsNoneAssumption
  <1>3. ListingsTypeOK'
    BY <1>1, ListTypes DEF ListingsTypeOK, ListInv
  <1>4. CASE reader = None
    BY <1>1, <1>3, <1>4 DEF ListInv
  <1>5. CASE reader # None
    <2>1. ASSUME NEW s \in Sources
          PROVE  /\ Shown(s) \in SUBSET Times /\ x \notin Shown(s)
                 /\ Shown(s)' = Shown(s) \/ Shown(s)' = Shown(s) \cup {x}
      <3>1. Shown(s) \in SUBSET Times /\ x \notin Shown(s)
        BY <1>2 DEF Shown
      <3>2. \A u \in Times \ {x} : u \in Shown(s)' <=> u \in Shown(s)
        BY <1>1, <1>2 DEF Shown
      <3>3. Shown(s)' \in SUBSET Times
        BY DEF Shown
      <3> QED
        BY <3>1, <3>2, <3>3
    <2>2. \A s \in Sources : Fetched(s)' = FetchedOf(s, Shown(s)')
      BY DEF Fetched, FetchedOf
    <2>3. \A s \in Sources : /\ Fetched(s)' \in SUBSET Times
                             /\ \A u \in Fetched(s)' : entry'[u] = s
      <3>1. \A s \in Sources : /\ Shown(s)' \in SUBSET Times
                               /\ \A u \in Shown(s)' : entry'[u] = s
        BY DEF Shown
      <3> QED
        BY <2>2, <3>1, FetchedIs
    <2>4. ASSUME NEW s \in Sources, NEW t \in Times
          PROVE  Younger(t, Fetched(s)) <= Younger(t, Fetched(s)')
      <3>1. Fetched(s) = FetchedOf(s, Shown(s))
        BY ListTypes
      <3>2. Fetched(s) \in SUBSET Times /\ Younger(t, Fetched(s)) \in Nat
        BY ListTypes, YoungerCounts
      <3>3. CASE Shown(s)' = Shown(s)
        BY <2>2, <3>1, <3>2, <3>3
      <3>4. CASE Shown(s)' = Shown(s) \cup {x} /\ s \in Limited
        <4>1. Younger(t, Newest(Take, Shown(s))) <= Younger(t, Newest(Take, Shown(s) \cup {x}))
          BY <2>1, NewestGrow, ListingsAssumption
        <4> QED
          BY <2>2, <3>1, <3>4, <4>1 DEF FetchedOf
      <3>5. CASE Shown(s)' = Shown(s) \cup {x} /\ s \notin Limited
        <4>1. Fetched(s)' = Fetched(s) \cup {x}
          BY <2>2, <3>1, <3>5 DEF FetchedOf
        <4> QED
          BY <2>3, <3>2, <4>1, MoreYounger DEF Above
      <3> QED
        BY <2>1, <3>3, <3>4, <3>5
    <2>5. ASSUME NEW s \in Sources
          PROVE  /\ Latest(s)' = IF reader.view[s] # None THEN Latest(s) ELSE Fetched(s)'
                 /\ reader.view[s] = None => Latest(s) = Fetched(s)
      BY <1>1 DEF Latest
    <2>6. ASSUME NEW t \in reader.start, Due(t)'
          PROVE  Standing(t)'
      <3>1. t \in Times /\ entry[t] \in Sources /\ entry'[t] = entry[t]
        BY <1>2, <1>5, ReaderTypes DEF Reading
      <3>2. /\ SameSource(t) \subseteq SameSource(t)'
            /\ SameSource(t) \in SUBSET Times /\ SameSource(t)' \in SUBSET Times
        BY <1>2, <3>1 DEF SameSource
      <3>3. Younger(t, SameSource(t)) <= Younger(t, SameSource(t)')
        BY <3>2, MoreYounger DEF Above
      <3>4. /\ Younger(t, SameSource(t)) \in Nat /\ Younger(t, SameSource(t)') \in Nat
            /\ Take \in Nat
        BY <3>2, YoungerCounts, ListingsAssumption
      <3>5. Due(t)
        BY <1>1, <2>6, <3>1, <3>3, <3>4 DEF Due
      <3>6. Standing(t)
        BY <1>5, <3>5, ReaderTypes DEF Reading
      <3>7. ASSUME NEW s \in Sources
            PROVE  /\ Latest(s)' \in SUBSET Times
                   /\ \A u \in Latest(s) : entry'[u] = s
                   /\ \A u \in Latest(s)' : entry'[u] = s
                   /\ Younger(t, Latest(s)) <= Younger(t, Latest(s)')
        <4>1. Latest(s) \in SUBSET Times /\ \A u \in Latest(s) : entry[u] = s
          BY <1>5, ReaderTypes
        <4>2. \A u \in Latest(s) : entry'[u] = s
          BY <1>2, <4>1
        <4>3. Younger(t, Latest(s)) \in Nat
          BY <4>1, YoungerCounts
        <4> QED
          BY <2>3, <2>4, <2>5, <3>1, <4>1, <4>2, <4>3
      <3>8. ASSUME NEW s \in Sources, reader'.view[s] # None
            PROVE  Younger(t, reader'.view[s]) <= Younger(t, Fetched(s)')
        <4>1. reader'.view[s] = reader.view[s] /\ reader.view[s] \in SUBSET Times
          BY <1>1, <1>5, <3>8, ReaderTypes
        <4>2. Younger(t, reader.view[s]) <= Younger(t, Fetched(s))
          BY <3>6, <3>8, <4>1 DEF Standing
        <4>3. /\ Younger(t, reader.view[s]) \in Nat /\ Younger(t, Fetched(s)) \in Nat
              /\ Younger(t, Fetched(s)') \in Nat
          BY <2>3, <4>1, ListTypes, YoungerCounts
        <4>4. Younger(t, Fetched(s)) <= Younger(t, Fetched(s)')
          BY <2>4, <3>1
        <4> QED
          BY <4>1, <4>2, <4>3, <4>4
      <3>9. t \in Latest(entry[t])'
        <4>1. CASE reader.view[entry[t]] # None
          BY <2>5, <3>1, <3>6, <4>1 DEF Standing, Latest
        <4>2. CASE reader.view[entry[t]] = None
          <5>1. t \in Shown(entry[t])
            BY <1>5, <3>1, <3>5, StillFetched, ListTypes
          <5>2. t \in Shown(entry[t])' /\ Shown(entry[t])' \subseteq SameSource(t)'
            BY <1>1, <3>1, <5>1 DEF Shown, SameSource
          <5>3. entry[t] \in Limited => ~(Younger(t, SameSource(t)') >= Take)
            BY <2>6, <3>1 DEF Due
          <5>4. t \in FetchedOf(entry[t], Shown(entry[t])')
            <6>1. Shown(entry[t])' \in SUBSET Times
              BY DEF Shown
            <6> QED
              BY <3>2, <5>2, <5>3, <6>1, DueIsFetched
          <5> QED
            BY <1>1, <2>2, <2>5, <3>1, <4>2, <5>4 DEF Latest
        <4> QED
          BY <4>1, <4>2
      <3>10. Passed' = Passed /\ reader' = reader
        BY <1>1 DEF Passed
      <3> QED
        BY <1>5, <3>1, <3>6, <3>7, <3>8, <3>9, <3>10, StandsOn
    <2>7. \A s \in Sources : reader.view[s] # None => \A u \in reader.view[s] : entry'[u] = s
      <3>1. \A s \in Sources : reader.view[s] # None =>
              reader.view[s] \in SUBSET Times /\ \A u \in reader.view[s] : entry[u] = s
        BY <1>5, ReaderTypes DEF Reading
      <3> QED
        BY <1>2, <3>1
    <2>8. \A t \in reader.start : entry'[t] \in Sources /\ (t \in superseded => t \in reader.gone)
      BY <1>2, <1>5, ReaderTypes DEF Reading
    <2>9. Reading'
      BY <1>1, <1>5, <2>6, <2>7, <2>8, ReaderTypes DEF Reading
    <2> QED
      BY <1>3, <2>9 DEF ListInv
  <1> QED
    BY <1>4, <1>5

LEMMA SupersedeKeeps ==
  ASSUME ListInv, NEW x \in Times, Supersede(x)
  PROVE  ListInv'
  <1>1. /\ x \in Shown("records") /\ superseded' = superseded \cup {x} /\ entry' = entry
        /\ "records" \in Sources
    BY ListingsAssumption DEF Supersede, Sources
  <1>2. entry[x] = "records" /\ superseded' \in SUBSET Times
    BY <1>1, ListTypes DEF Shown
  <1>3. CASE reader = None
    BY <1>1, <1>2, <1>3, ListTypes DEF Supersede, ListInv, ListingsTypeOK
  <1>4. CASE reader # None
    <2> PICK r : r = [reader EXCEPT !.gone = @ \cup {x}]
      OBVIOUS
    <2>1. reader' = r
      BY <1>4 DEF Supersede
    <2>2. /\ r \in Readers /\ r.page = reader.page /\ r.step = reader.step
          /\ r.view = reader.view /\ r.start = reader.start /\ r.seen = reader.seen
          /\ r.gone = reader.gone \cup {x}
      BY <1>4, ReaderTypes DEF Readers
    <2>3. ListingsTypeOK' /\ r # None
      BY <1>1, <1>2, <2>1, <2>2, ListTypes, ListingsNoneAssumption DEF ListingsTypeOK
    <2>4. \A s \in Sources : Shown(s)' = Shown(s) \ {x} /\ Shown(s) \in SUBSET Times
      BY <1>1 DEF Shown
    <2>5. ASSUME NEW s \in Sources
          PROVE  /\ Fetched(s)' = FetchedOf(s, Shown(s) \ {x})
                 /\ Fetched(s)' \in SUBSET Times /\ Fetched(s)' \subseteq Shown(s) \ {x}
      <3>1. Fetched(s)' = FetchedOf(s, Shown(s)')
        BY DEF Fetched, FetchedOf
      <3> QED
        BY <2>4, <3>1, FetchedIs
    <2>6. ASSUME NEW s \in Sources, NEW t \in Times, x < t
          PROVE  Younger(t, Fetched(s)') = Younger(t, Fetched(s))
      <3>1. Fetched(s) = FetchedOf(s, Shown(s)) /\ Fetched(s) \in SUBSET Times
        BY ListTypes
      <3>2. Above(t, Fetched(s)') = Above(t, Fetched(s))
        <4>1. CASE s \in Limited
          <5>1. Fetched(s)' = Newest(Take, Shown(s) \ {x}) /\ Fetched(s) = Newest(Take, Shown(s))
            BY <2>5, <3>1, <4>1 DEF FetchedOf
          <5>2. Above(t, Newest(Take, Shown(s) \ {x})) = Above(t, Newest(Take, Shown(s)))
            BY <2>4, <2>6, NewestShrink
          <5> QED
            BY <5>1, <5>2
        <4>2. CASE s \notin Limited
          <5>1. ~(x > t)
            BY <2>6, ListingsAssumption
          <5>2. Fetched(s)' = Shown(s) \ {x} /\ Fetched(s) = Shown(s)
            BY <2>5, <3>1, <4>2 DEF FetchedOf
          <5> QED
            BY <5>1, <5>2 DEF Above
        <4> QED
          BY <4>1, <4>2
      <3> QED
        BY <2>5, <3>1, <3>2, YoungerCounts
    <2>7. \A s \in Sources :
            Latest(s)' = IF reader.view[s] # None THEN reader.view[s] ELSE Fetched(s)'
      BY <2>1, <2>2 DEF Latest
    <2>8. ASSUME NEW t \in r.start, Due(t)'
          PROVE  Standing(t)'
      <3>1. t \in Times /\ entry[t] \in Sources
        BY <1>4, <2>2, ReaderTypes DEF Reading
      <3>2. SameSource(t)' = SameSource(t)
        BY <1>1 DEF SameSource
      <3>3. Due(t) /\ ~(x >= t)
        BY <1>1, <2>1, <2>2, <2>8, <3>2 DEF Due
      <3>4. x < t /\ x # t
        BY <3>1, <3>3, ListingsAssumption
      <3>5. Standing(t)
        BY <1>4, <2>2, <3>3, ReaderTypes DEF Reading
      <3>6. ASSUME NEW s \in Sources
            PROVE  /\ Latest(s)' \in SUBSET Times
                   /\ \A u \in Latest(s) : entry'[u] = s
                   /\ \A u \in Latest(s)' : entry'[u] = s
                   /\ Younger(t, Latest(s)) <= Younger(t, Latest(s)')
        <4>1. Latest(s) \in SUBSET Times /\ \A u \in Latest(s) : entry[u] = s
          BY <1>4, ReaderTypes
        <4>2. Younger(t, Latest(s)) \in Nat
          BY <4>1, YoungerCounts
        <4>3. CASE reader.view[s] # None
          BY <1>1, <2>7, <4>1, <4>2, <4>3 DEF Latest
        <4>4. CASE reader.view[s] = None
          <5>1. Latest(s) = Fetched(s) /\ Latest(s)' = Fetched(s)'
            BY <2>7, <4>4 DEF Latest
          <5>2. \A u \in Fetched(s)' : entry[u] = s
            BY <2>5, ListTypes
          <5>3. Younger(t, Latest(s)') = Younger(t, Latest(s))
            BY <2>6, <3>1, <3>4, <5>1
          <5>4. \A u \in Latest(s) : entry'[u] = s
            BY <1>1, <4>1
          <5>5. Fetched(s)' \in SUBSET Times /\ \A u \in Fetched(s)' : entry'[u] = s
            BY <1>1, <2>5, <5>2
          <5>6. Younger(t, Latest(s)) <= Younger(t, Latest(s)')
            BY <4>2, <5>3
          <5> QED
            BY <5>1, <5>4, <5>5, <5>6, Zenon
        <4> QED
          BY <4>3, <4>4
      <3>7. \A s \in Sources :
              reader'.view[s] # None => Younger(t, reader'.view[s]) <= Younger(t, Fetched(s)')
        BY <2>1, <2>2, <2>6, <3>1, <3>4, <3>5 DEF Standing
      <3>8. t \in Latest(entry[t])'
        <4>1. CASE reader.view[entry[t]] # None
          BY <1>1, <2>7, <3>1, <3>5, <4>1 DEF Standing, Latest
        <4>2. CASE reader.view[entry[t]] = None
          <5>1. t \in Shown(entry[t]) /\ t \in Shown(entry[t]) \ {x}
            BY <1>4, <2>2, <3>1, <3>3, <3>4, StillFetched, ListTypes
          <5>2. /\ Shown(entry[t]) \ {x} \subseteq SameSource(t)
                /\ SameSource(t) \in SUBSET Times
                /\ Shown(entry[t]) \ {x} \in SUBSET Times
            BY DEF Shown, SameSource
          <5>3. entry[t] \in Limited => ~(Younger(t, SameSource(t)) >= Take)
            BY <3>3 DEF Due
          <5>4. t \in Fetched(entry[t])'
            <6>1. t \in FetchedOf(entry[t], Shown(entry[t]) \ {x})
              BY <5>1, <5>2, <5>3, DueIsFetched
            <6>2. PICK s \in Sources : s = entry[t]
              BY <3>1
            <6> QED
              BY <1>1, <2>5, <6>1, <6>2
          <5>5. \A s \in Sources : s = entry[t] => Latest(s)' = Fetched(s)'
            BY <2>7, <4>2
          <5> QED
            BY <1>1, <3>1, <5>4, <5>5
        <4> QED
          BY <4>1, <4>2
      <3>9. Passed' = Passed
        BY <2>1, <2>2 DEF Passed
      <3>10. reader'.seen = reader.seen /\ (reader'.step = "end" <=> reader.step = "end")
        BY <2>1, <2>2
      <3> QED
        BY <1>4, <3>1, <3>5, <3>6, <3>7, <3>8, <3>9, <3>10, StandsOn
    <2>9. /\ r.step = "loading" => r.page > 0
          /\ \A s \in Sources : r.view[s] # None => \A u \in r.view[s] : entry[u] = s
          /\ \A t \in r.start :
               entry[t] \in Sources /\ (t \in superseded \cup {x} => t \in r.gone)
      BY <1>4, <2>2, ReaderTypes DEF Reading
    <2>10. Reading'
      BY <1>1, <2>1, <2>8, <2>9 DEF Reading
    <2> QED
      BY <2>3, <2>10 DEF ListInv
  <1> QED
    BY <1>3, <1>4

LEMMA ListingStepKeeps ==
  ASSUME ListInv, ListingsNext
  PROVE  ListInv'
  BY OpenListingKeeps, NextPageKeeps, LoadKeeps, ShowPageKeeps, FailPageKeeps, AddKeeps,
     SupersedeKeeps DEF ListingsNext

LEMMA ListingIdles ==
  ASSUME ListInv, UNCHANGED listingVars
  PROVE  ListInv'
  <1>1. UNCHANGED <<entry, superseded, reader>>
    BY DEF listingVars
  <1>2. \A s : Fetched(s)' = Fetched(s) /\ Latest(s)' = Latest(s)
    BY <1>1 DEF Fetched, Shown, Latest
  <1>3. AllLatest' = AllLatest /\ Passed' = Passed
    BY <1>1, <1>2 DEF AllLatest, Passed
  <1>4. \A t : (Due(t)' <=> Due(t)) /\ (Standing(t)' <=> Standing(t))
    BY <1>1, <1>2, <1>3 DEF Due, SameSource, Standing
  <1>5. ListingsTypeOK' <=> ListingsTypeOK
    BY <1>1 DEF ListingsTypeOK
  <1>6. Reading' <=> Reading
    BY <1>1, <1>4 DEF Reading
  <1> QED
    BY <1>1, <1>5, <1>6 DEF ListInv

LEMMA ListingBegins ==
  ASSUME ListingsInit
  PROVE  ListInv
  BY DEF ListingsInit, ListInv, ListingsTypeOK

LEMMA StartIsCovered ==
  ASSUME ListInv
  PROVE  PagesCoverTheStart
  <1> SUFFICES ASSUME At(reader, "end"), NEW t \in reader.start \ reader.seen,
                      \A u \in reader.gone : ~(u >= t)
               PROVE  /\ entry[t] \in Limited
                      /\ Younger(t, {u \in Times : entry[u] = entry[t]}) >= Take
    BY DEF PagesCoverTheStart
  <1>1. reader # None /\ reader.step = "end"
    BY DEF At
  <1>2. ~Standing(t)
    BY <1>1 DEF Standing
  <1>3. ~Due(t)
    BY <1>1, <1>2, ReaderTypes DEF Reading
  <1> QED
    BY <1>3 DEF Due, SameSource

\* While a reader goes through the pages of a union, an entry he is owed never
\* moves to a page he has passed, whatever is added and superseded meanwhile.
THEOREM ListingsInvariant == ListingsSpec => []ListInv
  <1>1. ListInv /\ [ListingsNext]_<<listingVars, handlerVars>> => ListInv'
    BY ListingStepKeeps, ListingIdles
  <1> QED
    BY <1>1, ListingBegins, PTL DEF ListingsSpec

\* Whoever went through all the pages of a listing has seen every entry there
\* was at the first, for any number of sources, entries and pages; missing are
\* only what a default limit cuts off and what a superseded record let move up.
THEOREM PagesCover == ListingsSpec => []PagesCoverTheStart
  BY ListingsInvariant, StartIsCovered, PTL

-----------------------------------------------------------------------------
(* Both together, as MCRequests runs them. *)

\* What the clients keep has its type, whichever component a behaviour follows.
THEOREM ClientsTyped == Spec => []ClientTypeOK
  <1> DEFINE Both == SessionInv /\ ListInv
  <1>1. Init => Both
    BY SessionBegins, ListingBegins DEF Init
  <1>2. Both /\ [Next]_vars => Both'
    <2> SUFFICES ASSUME Both, [Next]_vars
                 PROVE  Both'
      OBVIOUS
    <2>1. \/ SessionsNext /\ UNCHANGED listingVars
          \/ ListingsNext /\ UNCHANGED sessionVars
          \/ UNCHANGED <<sessionVars, listingVars>>
      BY DEF Next, vars
    <2>2. CASE SessionsNext /\ UNCHANGED listingVars
      BY <2>2, SessionStepKeeps, ListingIdles
    <2>3. CASE ListingsNext /\ UNCHANGED sessionVars
      BY <2>3, ListingStepKeeps, SessionIdles
    <2>4. CASE UNCHANGED <<sessionVars, listingVars>>
      BY <2>4, SessionIdles, ListingIdles
    <2> QED
      BY <2>1, <2>2, <2>3, <2>4
  <1>3. Both => ClientTypeOK
    BY DEF SessionInv, ListInv, ClientTypeOK
  <1> QED
    BY <1>1, <1>2, <1>3, PTL DEF Spec
=============================================================================
