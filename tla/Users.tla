--------------------------------- MODULE Users ---------------------------------
(***************************************************************************)
(* User administration: userService behind authenticate and authorize.     *)
(* Names, e-mail addresses and passwords are left out: a request refused   *)
(* for one of them changes nothing.                                        *)
(***************************************************************************)
EXTENDS Handlers

CONSTANT Users  \* identities of users

ASSUME UsersAssumption == IsFiniteSet(Users)

VARIABLES
  user,      \* users
  userCall,  \* the handlers in flight
  raced      \* an administrator was removed on reads that were out of date

userVars == <<user, userCall, raced>>

\* The treasurer, the budget officer and the auditor have the same rights here.
Roles == {"Administrator", "Other"}

UserStatuses == {"Active", "Inactive"}

UserRows == [role: Roles, status: UserStatuses]

(* role and status are those the body names; fresh: no row has changed     *)
(* since the handler read the user.                                        *)
UserCalls ==
  [op: {"create", "update", "delete"}, step: {"find", "count", "write"},
   actor: Users, user: Users, role: Roles \cup {None}, status: UserStatuses \cup {None},
   fresh: BOOLEAN]

ASSUME UsersNoneAssumption ==
  None \notin UserRows /\ None \notin UserCalls /\ None \notin Roles \cup UserStatuses

UsersTypeOK ==
  /\ user \in [Users -> UserRows \cup {None}]
  /\ userCall \in [Jobs -> UserCalls \cup {None}]
  /\ raced \in BOOLEAN

Administrator == [role |-> "Administrator", status |-> "Active"]

ActiveAdministrators == {u \in Users : user[u] = Administrator}

\* The users that the seed and later requests have left.
UsersInit ==
  /\ user \in [Users -> UserRows \cup {None}]
  /\ ActiveAdministrators # {}
  /\ userCall = [j \in Jobs |-> None]
  /\ raced = FALSE

-----------------------------------------------------------------------------
(* Requests.  authenticate reads the actor anew for every request, and     *)
(* authorize lets administrators pass.                                     *)

Given(value, default) == IF value = None THEN default ELSE value

UserCall(op, step, actor, u, role, status) ==
  [op |-> op, step |-> step, actor |-> actor, user |-> u, role |-> role, status |-> status,
   fresh |-> TRUE]

BeginUser(j, call) ==
  /\ userCall[j] = None
  /\ call.actor \in ActiveAdministrators
  /\ Request
  /\ userCall' = Set(userCall, j, call)
  /\ UNCHANGED <<user, raced>>

\* u is the identity the user will get; a budget officer unless the body says so.
CreateUser(j, actor, u, role, status) ==
  /\ user[u] = None
  /\ \A i \in Jobs : userCall[i] # None => userCall[i].user # u
  /\ BeginUser(j, UserCall("create", "write", actor, u, Given(role, "Other"), Given(status, "Active")))

\* changeUserRole and changeUserStatus name one of the two fields.
UpdateUser(j, actor, u, role, status) ==
  BeginUser(j, UserCall("update", "find", actor, u, role, status))

DeleteUser(j, actor, u) ==
  BeginUser(j, UserCall("delete", "find", actor, u, None, None))

-----------------------------------------------------------------------------
(* The awaits of a handler. *)

Demotes(c) == c.role # None /\ c.role # "Administrator"

Suspends(c) == c.status # None /\ c.status # "Active"

Removes(c) == c.op = "delete" \/ Demotes(c) \/ Suspends(c)

FindUser(j) ==
  LET c == userCall[j] IN
  /\ At(c, "find")
  /\ userCall' = Set(userCall, j,
       IF user[c.user] = None \/ (c.op = "delete" /\ c.user = c.actor) THEN None
       ELSE [c EXCEPT !.fresh = TRUE,
                      !.step = IF user[c.user] = Administrator /\ Removes(c)
                               THEN "count" ELSE "write"])
  /\ UNCHANGED <<user, raced, handlerVars>>

\* Mutation: the count is taken for that of the others.
CountAdministratorsOthers(j) ==
  /\ At(userCall[j], "count")
  /\ userCall' = IF Cardinality(ActiveAdministrators) < 1
                 THEN Set(userCall, j, None) ELSE Moved(userCall, j, "write")
  /\ UNCHANGED <<user, raced, handlerVars>>

CountAdministrators(j) ==
  /\ At(userCall[j], "count")
  /\ userCall' = IF Cardinality(ActiveAdministrators) <= 1
                 THEN Set(userCall, j, None) ELSE Moved(userCall, j, "write")
  /\ UNCHANGED <<user, raced, handlerVars>>

\* A write makes what the other handlers read out of date.
Outdated(calls, j) ==
  [i \in Jobs |-> IF i = j \/ calls[i] = None THEN calls[i] ELSE [calls[i] EXCEPT !.fresh = FALSE]]

\* Mutation: the row is replaced by the body.
WrittenByBody(c) ==
  IF c.op = "delete" THEN None ELSE [role |-> c.role, status |-> c.status]

\* The row the call leaves: the fields of the body, the others as they are.
Written(c) ==
  IF c.op = "delete" THEN None
  ELSE IF c.op = "create" THEN [role |-> c.role, status |-> c.status]
  ELSE [role |-> Given(c.role, user[c.user].role), status |-> Given(c.status, user[c.user].status)]

\* The write, by id; it fails if the user is gone.
WriteUser(j) ==
  LET c == userCall[j] IN
  /\ At(c, "write")
  /\ IF c.op # "create" /\ user[c.user] = None
     THEN userCall' = Set(userCall, j, None) /\ UNCHANGED <<user, raced>>
     ELSE /\ user' = [user EXCEPT ![c.user] = Written(c)]
          /\ userCall' = Outdated(Set(userCall, j, None), j)
          /\ raced' = (raced \/ (user[c.user] = Administrator /\ Removes(c) /\ ~c.fresh))
  /\ UNCHANGED handlerVars

\* A query fails, such as the deletion of a user that allocations refer to.
FailUser(j) ==
  /\ Fault
  /\ userCall[j] # None
  /\ userCall' = Set(userCall, j, None)
  /\ UNCHANGED <<user, raced>>

HandleUser(j) == FindUser(j) \/ CountAdministrators(j) \/ WriteUser(j)

UsersNext ==
  \E j \in Jobs :
    \/ \E a, u \in Users :
         \/ \E r \in Roles \cup {None}, s \in UserStatuses \cup {None} :
              CreateUser(j, a, u, r, s) \/ UpdateUser(j, a, u, r, s)
         \/ DeleteUser(j, a, u)
    \/ HandleUser(j) \/ FailUser(j)

UsersSpec == HandlersInit /\ UsersInit /\ [][UsersNext]_<<userVars, handlerVars>>

-----------------------------------------------------------------------------
(* Properties. *)

(* There is an active administrator, unless one was demoted, deactivated   *)
(* or deleted by a request whose reads were out of date: the count by      *)
(* itself keeps the last one, whatever else is in flight.  The exception   *)
(* is real: "System prevents demoting or deactivating or deleting the last *)
(* remaining active Administrator" (docs/USER_MANAGEMENT.md:29) does not   *)
(* hold of two such requests at once.                                      *)
LastAdministratorStays == raced \/ ActiveAdministrators # {}
=============================================================================
