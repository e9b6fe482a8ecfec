----------------------------- MODULE Users_proofs -----------------------------
(***************************************************************************)
(* For any number of users and of requests in flight: the tables keep      *)
(* their types, and the count of active administrators keeps the last one. *)
(*                                                                         *)
(* LastAdministratorStays is not inductive: that a removal may go ahead    *)
(* was decided when its handler counted.  CallSound says what the count is *)
(* worth as long as no row has changed since.  Every action but the write  *)
(* moves one handler and leaves the table alone, which MoveKeeps proves    *)
(* once and for all.                                                       *)
(***************************************************************************)
EXTENDS Users, FiniteSetTheorems, TLAPS

vars == <<userVars, handlerVars>>

Administrators(rows) == {u \in Users : rows[u] = Administrator}

(* A create names a role and a status and has nothing to look up.  A       *)
(* handler that removes an active administrator, on reads that are not out *)
(* of date, has counted another one.                                       *)
CallSound(c, rows) ==
  /\ c.op = "create" => c.step = "write" /\ c.role # None /\ c.status # None
  /\ c.step = "write" /\ c.fresh /\ Removes(c) /\ rows[c.user] = Administrator
       => \E u \in Administrators(rows) : u # c.user

Inv ==
  /\ UsersTypeOK
  /\ \A j \in Jobs : userCall[j] # None => CallSound(userCall[j], user)
  /\ raced \/ Administrators(user) # {}

-----------------------------------------------------------------------------
(* Counting, and calls. *)

\* Where there is more than one administrator, there is one besides u.
LEMMA AnotherAdministrator ==
  ASSUME NEW u, ~(Cardinality(ActiveAdministrators) <= 1)
  PROVE  \E v \in ActiveAdministrators : v # u
  <1>1. SUFFICES ASSUME \A v \in ActiveAdministrators : v = u
                 PROVE  Cardinality(ActiveAdministrators) <= 1
    OBVIOUS
  <1>2. CASE ActiveAdministrators = {}
    BY <1>2, FS_EmptySet
  <1>3. CASE ActiveAdministrators # {}
    <2>1. ActiveAdministrators = {u}
      BY <1>1, <1>3
    <2> QED
      BY <2>1, FS_Singleton
  <1> QED
    BY <1>2, <1>3

LEMMA Typed ==
  ASSUME Inv
  PROVE  /\ user \in [Users -> UserRows \cup {None}]
         /\ userCall \in [Jobs -> UserCalls \cup {None}]
         /\ raced \in BOOLEAN
  BY DEF Inv, UsersTypeOK

LEMMA InFlight ==
  ASSUME Inv, NEW j \in Jobs, userCall[j] # None
  PROVE  userCall[j] \in UserCalls /\ CallSound(userCall[j], user)
  BY Typed DEF Inv

\* A call at another step, with what it read up to date or not, is a call.
LEMMA CallAtStep ==
  ASSUME NEW c \in UserCalls, NEW step \in {"find", "count", "write"}, NEW b \in BOOLEAN
  PROVE  /\ [c EXCEPT !.step = step] \in UserCalls
         /\ [c EXCEPT !.fresh = b] \in UserCalls
         /\ [c EXCEPT !.fresh = b, !.step = step] \in UserCalls
  BY Zenon DEF UserCalls

LEMMA MoveKeeps ==
  ASSUME Inv, UNCHANGED <<user, raced>>, NEW j \in Jobs, NEW x \in UserCalls \cup {None},
         x # None => CallSound(x, user),
         userCall' = [userCall EXCEPT ![j] = x]
  PROVE  Inv'
  <1>1. UsersTypeOK'
    BY Typed DEF UsersTypeOK
  <1>2. ASSUME NEW i \in Jobs, userCall'[i] # None
        PROVE  CallSound(userCall'[i], user')
    <2>1. CASE i = j
      BY <1>2, <2>1, Typed
    <2>2. CASE i # j
      BY <1>2, <2>2, Typed, InFlight
    <2> QED
      BY <2>1, <2>2
  <1>3. raced' \/ Administrators(user') # {}
    BY DEF Inv
  <1> QED
    BY <1>1, <1>2, <1>3 DEF Inv

LEMMA EndKeeps ==
  ASSUME Inv, UNCHANGED <<user, raced>>, NEW j \in Jobs,
         userCall' = [userCall EXCEPT ![j] = None]
  PROVE  Inv'
  BY MoveKeeps

-----------------------------------------------------------------------------
(* One lemma per action. *)

LEMMA InitInv ==
  ASSUME UsersInit
  PROVE  Inv
  <1>1. UsersTypeOK
    BY DEF UsersInit, UsersTypeOK
  <1>2. \A j \in Jobs : userCall[j] = None
    BY DEF UsersInit
  <1>3. Administrators(user) # {}
    BY DEF UsersInit, ActiveAdministrators, Administrators
  <1> QED
    BY <1>1, <1>2, <1>3 DEF Inv

LEMMA CallTyped ==
  ASSUME NEW op \in {"create", "update", "delete"}, NEW step \in {"find", "count", "write"},
         NEW a \in Users, NEW u \in Users, NEW r \in Roles \cup {None},
         NEW s \in UserStatuses \cup {None}
  PROVE  UserCall(op, step, a, u, r, s) \in UserCalls
  BY Zenon DEF UserCalls, UserCall

LEMMA CreateKeeps ==
  ASSUME Inv, NEW j \in Jobs, NEW a \in Users, NEW u \in Users, NEW r \in Roles \cup {None},
         NEW s \in UserStatuses \cup {None}, CreateUser(j, a, u, r, s)
  PROVE  Inv'
  <1> DEFINE role == Given(r, "Other")
             status == Given(s, "Active")
             x == UserCall("create", "write", a, u, role, status)
  <1>1. role \in Roles /\ status \in UserStatuses
    BY DEF Given, Roles, UserStatuses
  <1>2. x \in UserCalls
    BY <1>1, CallTyped
  <1>3. CallSound(x, user)
    <2>1. role # None /\ status # None
      BY <1>1, UsersNoneAssumption
    <2>2. user[u] # Administrator
      BY UsersNoneAssumption DEF CreateUser, Administrator, UserRows, Roles, UserStatuses
    <2> QED
      BY <2>1, <2>2 DEF CallSound, UserCall
  <1>4. userCall' = [userCall EXCEPT ![j] = x] /\ UNCHANGED <<user, raced>>
    BY DEF CreateUser, BeginUser, Set
  <1> QED
    BY <1>2, <1>3, <1>4, MoveKeeps

LEMMA BeginKeeps ==
  ASSUME Inv, NEW j \in Jobs, NEW a \in Users, NEW u \in Users, NEW r \in Roles \cup {None},
         NEW s \in UserStatuses \cup {None}, NEW op \in {"update", "delete"},
         BeginUser(j, UserCall(op, "find", a, u, r, s))
  PROVE  Inv'
  <1> DEFINE x == UserCall(op, "find", a, u, r, s)
  <1>1. x \in UserCalls
    BY CallTyped
  <1>2. CallSound(x, user)
    BY DEF CallSound, UserCall
  <1>3. userCall' = [userCall EXCEPT ![j] = x] /\ UNCHANGED <<user, raced>>
    BY DEF BeginUser, Set
  <1> QED
    BY <1>1, <1>2, <1>3, MoveKeeps

LEMMA FindKeeps ==
  ASSUME Inv, NEW j \in Jobs, FindUser(j)
  PROVE  Inv'
  <1> DEFINE c == userCall[j]
             step == IF user[c.user] = Administrator /\ Removes(c) THEN "count" ELSE "write"
             x == [c EXCEPT !.fresh = TRUE, !.step = step]
  <1>1. c # None /\ c.step = "find" /\ UNCHANGED <<user, raced>>
    BY DEF FindUser, At
  <1>2. c \in UserCalls /\ CallSound(c, user)
    BY <1>1, InFlight
  <1>3. userCall' = [userCall EXCEPT ![j] = None] \/ userCall' = [userCall EXCEPT ![j] = x]
    BY DEF FindUser, Set
  <1>4. x \in UserCalls
    BY <1>2, CallAtStep
  <1>5. CallSound(x, user)
    <2>1. /\ x.op = c.op /\ x.role = c.role /\ x.status = c.status /\ x.user = c.user
          /\ x.step = step
      BY <1>2 DEF UserCalls
    <2>2. c.op # "create"
      BY <1>1, <1>2 DEF CallSound
    <2>3. Removes(x) <=> Removes(c)
      BY <2>1 DEF Removes, Demotes, Suspends
    <2> HIDE DEF x
    <2>4. step = "write" => ~(Removes(c) /\ user[c.user] = Administrator)
      OBVIOUS
    <2> QED
      BY <2>1, <2>2, <2>3, <2>4 DEF CallSound
  <1> QED
    BY <1>1, <1>3, <1>4, <1>5, MoveKeeps, EndKeeps

LEMMA CountKeeps ==
  ASSUME Inv, NEW j \in Jobs, CountAdministrators(j)
  PROVE  Inv'
  <1> DEFINE c == userCall[j]
             x == [c EXCEPT !.step = "write"]
  <1>1. c # None /\ c.step = "count" /\ UNCHANGED <<user, raced>>
    BY DEF CountAdministrators, At
  <1>2. c \in UserCalls /\ CallSound(c, user)
    BY <1>1, InFlight
  <1>3. CASE Cardinality(ActiveAdministrators) <= 1
    BY <1>1, <1>3, EndKeeps DEF CountAdministrators, Set
  <1>4. CASE ~(Cardinality(ActiveAdministrators) <= 1)
    <2>1. userCall' = [userCall EXCEPT ![j] = x]
      BY <1>4 DEF CountAdministrators, Moved, Set
    <2>2. x \in UserCalls
      BY <1>2, CallAtStep
    <2>3. \E u \in Administrators(user) : u # c.user
      <3>1. \E u \in ActiveAdministrators : u # c.user
        BY <1>4, AnotherAdministrator
      <3> QED
        BY <3>1 DEF ActiveAdministrators, Administrators
    <2>4. CallSound(x, user)
      <3>1. x.op = c.op /\ x.user = c.user
        BY <1>2 DEF UserCalls
      <3>2. c.op # "create"
        BY <1>1, <1>2 DEF CallSound
      <3> QED
        BY <2>3, <3>1, <3>2 DEF CallSound
    <2> QED
      BY <1>1, <2>1, <2>2, <2>4, MoveKeeps
  <1> QED
    BY <1>3, <1>4

\* The write leaves an administrator: the one it concerns, or another one.
LEMMA WriteLeavesOne ==
  ASSUME Inv, NEW j \in Jobs, userCall[j] # None, userCall[j].step = "write",
         user' = [user EXCEPT ![userCall[j].user] = Written(userCall[j])],
         raced' = (raced \/ (user[userCall[j].user] = Administrator /\ Removes(userCall[j])
                             /\ ~userCall[j].fresh)),
         userCall[j].op = "create" \/ user[userCall[j].user] # None
  PROVE  raced' \/ Administrators(user') # {}
  <1> DEFINE c == userCall[j]
  <1>1. c \in UserCalls /\ CallSound(c, user)
    BY InFlight
  <1>2. c.user \in Users
    BY <1>1 DEF UserCalls
  <1>3. SUFFICES ASSUME ~raced, ~(user[c.user] = Administrator /\ Removes(c) /\ ~c.fresh)
                 PROVE  Administrators(user') # {}
    BY Typed
  <1>4. \A u \in Users : u # c.user => user'[u] = user[u]
    BY <1>2, Typed
  <1>5. \A u \in Administrators(user) : u # c.user => u \in Administrators(user')
    BY <1>4 DEF Administrators
  <1>6. Administrators(user) # {}
    BY <1>3 DEF Inv
  <1>7. CASE user[c.user] # Administrator
    BY <1>5, <1>6, <1>7 DEF Administrators
  <1>8. CASE user[c.user] = Administrator /\ Removes(c)
    <2>1. c.fresh
      BY <1>1, <1>3, <1>8 DEF UserCalls
    <2>2. \E u \in Administrators(user) : u # c.user
      BY <1>1, <1>8, <2>1 DEF CallSound
    <2> QED
      BY <1>5, <2>2
  <1>9. CASE user[c.user] = Administrator /\ ~Removes(c)
    <2>1. c.op # "delete" /\ c.role \in {None, "Administrator"} /\ c.status \in {None, "Active"}
      BY <1>9 DEF Removes, Demotes, Suspends
    <2>2. Written(c) = Administrator
      BY <1>1, <1>9, <2>1 DEF Written, Given, Administrator, CallSound
    <2>3. user'[c.user] = Administrator
      BY <1>2, <2>2, Typed
    <2> QED
      BY <1>2, <2>3 DEF Administrators
  <1> QED
    BY <1>7, <1>8, <1>9

LEMMA WriteKeeps ==
  ASSUME Inv, NEW j \in Jobs, WriteUser(j)
  PROVE  Inv'
  <1> DEFINE c == userCall[j]
  <1>1. c # None /\ c.step = "write"
    BY DEF WriteUser, At
  <1>2. c \in UserCalls /\ CallSound(c, user)
    BY <1>1, InFlight
  <1>3. CASE c.op # "create" /\ user[c.user] = None
    BY <1>3, EndKeeps DEF WriteUser, Set
  <1>4. CASE c.op = "create" \/ user[c.user] # None
    <2>1. /\ user' = [user EXCEPT ![c.user] = Written(c)]
          /\ userCall' = Outdated(Set(userCall, j, None), j)
          /\ raced' = (raced \/ (user[c.user] = Administrator /\ Removes(c) /\ ~c.fresh))
      BY <1>4 DEF WriteUser
    <2>2. Written(c) \in UserRows \cup {None}
      <3>1. CASE c.op = "delete"
        BY <3>1 DEF Written
      <3>2. CASE c.op = "create"
        <4>1. c.role \in Roles /\ c.status \in UserStatuses
          BY <1>2, <3>2 DEF CallSound, UserCalls
        <4> QED
          BY <3>2, <4>1 DEF Written, UserRows
      <3>3. CASE c.op = "update"
        <4>1. user[c.user] \in UserRows
          BY <1>2, <1>4, <3>3, Typed DEF UserCalls
        <4>2. /\ Given(c.role, user[c.user].role) \in Roles
              /\ Given(c.status, user[c.user].status) \in UserStatuses
          BY <1>2, <4>1 DEF Given, UserCalls, UserRows
        <4> QED
          BY <3>3, <4>2 DEF Written, UserRows
      <3> QED
        BY <1>2, <3>1, <3>2, <3>3 DEF UserCalls
    <2>3. user' \in [Users -> UserRows \cup {None}]
      BY <1>2, <2>1, <2>2, Typed
    <2>4. ASSUME NEW i \in Jobs
          PROVE  userCall'[i] = IF i = j \/ userCall[i] = None THEN None
                                ELSE [userCall[i] EXCEPT !.fresh = FALSE]
      BY <2>1, Typed DEF Outdated, Set
    <2>5. ASSUME NEW i \in Jobs
          PROVE  userCall'[i] \in UserCalls \cup {None}
      BY <2>4, InFlight, CallAtStep
    <2>6. userCall' \in [Jobs -> UserCalls \cup {None}]
      <3>1. userCall' = [i \in Jobs |-> userCall'[i]]
        BY <2>1 DEF Outdated
      <3> QED
        BY <2>5, <3>1
    <2>7. ASSUME NEW i \in Jobs, userCall'[i] # None
          PROVE  CallSound(userCall'[i], user')
      <3>1. userCall[i] # None /\ userCall'[i] = [userCall[i] EXCEPT !.fresh = FALSE]
        BY <2>4, <2>7
      <3>2. userCall[i] \in UserCalls /\ CallSound(userCall[i], user)
        BY <3>1, InFlight
      <3>3. /\ ~userCall'[i].fresh
            /\ userCall'[i].op = userCall[i].op
            /\ userCall'[i].step = userCall[i].step
            /\ userCall'[i].role = userCall[i].role
            /\ userCall'[i].status = userCall[i].status
        BY <3>1, <3>2 DEF UserCalls
      <3> QED
        BY <3>2, <3>3 DEF CallSound
    <2>8. raced' \in BOOLEAN
      BY <2>1
    <2>9. raced' \/ Administrators(user') # {}
      BY <1>1, <1>4, <2>1, WriteLeavesOne
    <2> QED
      BY <2>3, <2>6, <2>7, <2>8, <2>9 DEF Inv, UsersTypeOK
  <1> QED
    BY <1>3, <1>4

LEMMA FailKeeps ==
  ASSUME Inv, NEW j \in Jobs, FailUser(j)
  PROVE  Inv'
  BY EndKeeps DEF FailUser, Set

LEMMA StutterKeeps ==
  ASSUME Inv, UNCHANGED userVars
  PROVE  Inv'
  BY DEF Inv, userVars, UsersTypeOK, CallSound, Administrators, Removes, Demotes, Suspends

LEMMA NextKeeps ==
  ASSUME Inv, [UsersNext]_vars
  PROVE  Inv'
  <1>1. CASE UsersNext
    <2>1. ASSUME NEW j \in Jobs, NEW a \in Users, NEW u \in Users, NEW r \in Roles \cup {None},
                 NEW s \in UserStatuses \cup {None}, CreateUser(j, a, u, r, s)
          PROVE  Inv'
      BY <2>1, CreateKeeps
    <2>2. ASSUME NEW j \in Jobs, NEW a \in Users, NEW u \in Users, NEW r \in Roles \cup {None},
                 NEW s \in UserStatuses \cup {None}, UpdateUser(j, a, u, r, s)
          PROVE  Inv'
      BY <2>2, BeginKeeps DEF UpdateUser
    <2>3. ASSUME NEW j \in Jobs, NEW a \in Users, NEW u \in Users, DeleteUser(j, a, u)
          PROVE  Inv'
      BY <2>3, BeginKeeps DEF DeleteUser
    <2>4. ASSUME NEW j \in Jobs, HandleUser(j)
          PROVE  Inv'
      BY <2>4, FindKeeps, CountKeeps, WriteKeeps DEF HandleUser
    <2>5. ASSUME NEW j \in Jobs, FailUser(j)
          PROVE  Inv'
      BY <2>5, FailKeeps
    <2> QED
      BY <1>1, <2>1, <2>2, <2>3, <2>4, <2>5 DEF UsersNext
  <1>2. CASE UNCHANGED vars
    BY <1>2, StutterKeeps DEF vars
  <1> QED
    BY <1>1, <1>2

-----------------------------------------------------------------------------
(* Theorems. *)

(* The inductive invariant of user administration: types, what a handler   *)
(* relies on when it removes an administrator, and somebody who remains.   *)
THEOREM UsersInvariant == UsersSpec => []Inv
  <1>1. UsersInit => Inv
    BY InitInv
  <1>2. Inv /\ [UsersNext]_vars => Inv'
    BY NextKeeps
  <1> QED
    BY <1>1, <1>2, PTL DEF UsersSpec, vars

\* The users and the handlers of userService keep their types.
THEOREM UsersTyped == UsersSpec => []UsersTypeOK
  <1>1. Inv => UsersTypeOK
    BY DEF Inv
  <1> QED
    BY <1>1, UsersInvariant, PTL

(* The count in updateUser and deleteUser keeps the last administrator, for *)
(* any number of requests, unless one of them acts on outdated reads.       *)
THEOREM AdministratorRemains == UsersSpec => []LastAdministratorStays
  <1>1. Inv => LastAdministratorStays
    BY DEF Inv, LastAdministratorStays, ActiveAdministrators, Administrators
  <1> QED
    BY <1>1, UsersInvariant, PTL
=============================================================================
