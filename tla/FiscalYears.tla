------------------------------ MODULE FiscalYears ------------------------------
(***************************************************************************)
(* Fiscal years: fiscalYearService and fiscalYearRepository.  A year has a *)
(* period, a status and an isActive flag that the service keeps in step    *)
(* with the status, except when it creates the row.                        *)
(*                                                                         *)
(* Codes, descriptions and amounts are left out.  An update names neither, *)
(* one or both ends of the period, and has one of three outcomes, which    *)
(* the service computes from the body and the row it read: the year        *)
(* becomes Active, Archived or Inactive.                                   *)
(*                                                                         *)
(* setActive is one step: its first UPDATE has no index to use on          *)
(* isActive, so InnoDB locks every row it reads until the transaction      *)
(* ends.                                                                   *)
(***************************************************************************)
EXTENDS Handlers

CONSTANTS
  Years,   \* identities of fiscal years
  Months   \* the calendar

ASSUME FiscalYearsAssumption == Months \subseteq Nat /\ IsFiniteSet(Years)

VARIABLES
  year,        \* fiscal_years
  yearCall,    \* the handlers in flight
  multiplied,  \* a cause of two active years has occurred, for the properties
  overlooked   \* a write of a period relied on reads that were out of date

yearVars == <<year, yearCall, multiplied, overlooked>>

Statuses == {"Active", "Inactive", "Archived"}

Periods == [first: Months, last: Months]

InOrder(p) == p.first <= p.last

YearRows == [period: Periods, status: Statuses, active: BOOLEAN]

(* names: the ends of the period the request names; period: with the other *)
(* ends as they were read.  goal: the status the handler is going to write *)
(* and active the flag.  fresh: no row has changed since the handler read  *)
(* what its checks rely on.  sole: no year has been activated since the    *)
(* handler deactivated the others.                                         *)
YearCalls ==
  [op: {"create", "update", "delete", "activate"},
   step: {"overlap", "insert", "deactivate", "write", "delete"},
   year: Years, names: SUBSET {"first", "last"}, period: Periods,
   goal: Statuses, active: BOOLEAN, fresh: BOOLEAN, sole: BOOLEAN]

ASSUME FiscalYearsNoneAssumption ==
  None \notin YearRows /\ None \notin YearCalls

YearsTypeOK ==
  /\ year \in [Years -> YearRows \cup {None}]
  /\ yearCall \in [Jobs -> YearCalls \cup {None}]
  /\ multiplied \in BOOLEAN
  /\ overlooked \in BOOLEAN

Overlap(p, q) == p.first <= q.last /\ q.first <= p.last

ActiveYears == {y \in Years : year[y] # None /\ year[y].active}

DisjointPeriods ==
  \A x, y \in Years :
    year[x] # None /\ year[y] # None =>
      IF x = y THEN InOrder(year[x].period) ELSE ~Overlap(year[x].period, year[y].period)

(* The years that requests have left one after the other: the flag in step *)
(* with the status, one active year at the most, disjoint periods.         *)
YearsInit ==
  /\ year \in [Years -> YearRows \cup {None}]
  /\ \A y \in Years : year[y] # None => (year[y].active <=> year[y].status = "Active")
  /\ Cardinality(ActiveYears) <= 1
  /\ DisjointPeriods
  /\ yearCall = [j \in Jobs |-> None]
  /\ multiplied = FALSE
  /\ overlooked = FALSE

-----------------------------------------------------------------------------
(* Queries. *)

\* Mutation: only a period that begins inside another one counts.
BeginsInsideAnother(p, y) ==
  \E x \in Years \ {y} :
    year[x] # None /\ year[x].period.first <= p.first /\ p.first <= year[x].period.last

\* isOverlapping, excluding the year that is updated.
IsOverlapping(p, y) == \E x \in Years \ {y} : year[x] # None /\ Overlap(p, year[x].period)

-----------------------------------------------------------------------------
(* Requests, up to their second query. *)

YearCall(op, step, y, names, p, goal, active) ==
  [op |-> op, step |-> step, year |-> y, names |-> names, period |-> p,
   goal |-> goal, active |-> active, fresh |-> TRUE, sole |-> TRUE]

BeginYear(j, call) ==
  /\ yearCall[j] = None
  /\ Request
  /\ yearCall' = Set(yearCall, j, call)
  /\ UNCHANGED <<year, multiplied, overlooked>>

\* The body gives status and isActive, which nothing compares.
CreateYear(j, y, p, status, active) ==
  /\ year[y] = None
  /\ \A i \in Jobs : yearCall[i] # None => yearCall[i].year # y
  /\ InOrder(p)
  /\ BeginYear(j, YearCall("create", "overlap", y, {"first", "last"}, p, status, active))

\* The named ends of p, the others from q.
Merged(names, p, q) ==
  [first |-> IF "first" \in names THEN p.first ELSE q.first,
   last |-> IF "last" \in names THEN p.last ELSE q.last]

(* wantsActive and wantsArchived, from the row as it is read now.  An      *)
(* update with neither a status nor a flag keeps an active year active.    *)
UpdateYear(j, y, names, p, goal) ==
  /\ year[y] # None
  /\ p = Merged(names, p, year[y].period)
  /\ InOrder(p)
  /\ goal = "Active" => year[y].status # "Archived"
  /\ goal = "Archived" => ~year[y].active
  /\ BeginYear(j, YearCall("update",
       IF names # {} THEN "overlap" ELSE IF goal = "Active" THEN "deactivate" ELSE "write",
       y, names, p, goal, goal = "Active"))

DeleteYear(j, y) ==
  /\ year[y] # None
  /\ BeginYear(j, YearCall("delete", "delete", y, {}, year[y].period, "Inactive", FALSE))

ActivateYear(j, y) ==
  /\ year[y] # None
  /\ year[y].status # "Archived"
  /\ ~year[y].active
  /\ BeginYear(j, YearCall("activate", "deactivate", y, {}, year[y].period, "Active", TRUE))

-----------------------------------------------------------------------------
(* The awaits of a handler. *)

\* A write makes what the other handlers read out of date; an activation
\* ends their claim to the only active year.
Outdate(calls, j, activation) ==
  [i \in Jobs |->
     IF i = j \/ calls[i] = None THEN calls[i]
     ELSE [calls[i] EXCEPT !.fresh = FALSE, !.sole = @ /\ ~activation]]

CheckOverlap(j) ==
  LET c == yearCall[j] IN
  /\ At(c, "overlap")
  /\ yearCall' = Set(yearCall, j,
       IF IsOverlapping(c.period, c.year) THEN None
       ELSE [c EXCEPT !.fresh = @ \/ c.op = "create",
                      !.step = IF c.op = "create" THEN "insert"
                               ELSE IF c.goal = "Active" THEN "deactivate" ELSE "write"])
  /\ UNCHANGED <<year, multiplied, overlooked, handlerVars>>

InsertYear(j) ==
  LET c == yearCall[j] IN
  /\ At(c, "insert")
  /\ year' = [year EXCEPT ![c.year] = [period |-> c.period, status |-> c.goal, active |-> c.active]]
  /\ yearCall' = Outdate(Set(yearCall, j, None), j, c.active)
  /\ multiplied' = (multiplied \/ c.active)
  /\ overlooked' = (overlooked \/ ~c.fresh)
  /\ UNCHANGED handlerVars

\* Mutation: the other years keep their flag.
SetActiveAlone(y) ==
  [x \in Years |->
     IF x = y THEN [year[x] EXCEPT !.status = "Active", !.active = TRUE] ELSE year[x]]

\* Mutation: the status has a name the schema does not know.
SetActiveAsOpen(y) ==
  [x \in Years |->
     IF x = y THEN [year[x] EXCEPT !.status = "Open", !.active = TRUE] ELSE year[x]]

\* setActive: all active years become Inactive, then this one is activated.
SetActive(y) ==
  [x \in Years |->
     IF x = y THEN [year[x] EXCEPT !.status = "Active", !.active = TRUE]
     ELSE IF x \in ActiveYears THEN [year[x] EXCEPT !.status = "Inactive", !.active = FALSE]
     ELSE year[x]]

\* The transaction fails if the year is gone.
Deactivate(j) ==
  LET c == yearCall[j] IN
  /\ At(c, "deactivate")
  /\ IF year[c.year] = None
     THEN yearCall' = Set(yearCall, j, None) /\ UNCHANGED year
     ELSE /\ year' = SetActive(c.year)
          /\ yearCall' = Outdate(
               Set(yearCall, j,
                   IF c.op = "activate" THEN None ELSE [c EXCEPT !.step = "write", !.sole = TRUE]),
               j, TRUE)
  /\ UNCHANGED <<multiplied, overlooked, handlerVars>>

\* The fields of the update, the status and the flag, by id.
WriteYear(j) ==
  LET c == yearCall[j] IN
  /\ At(c, "write")
  /\ IF year[c.year] = None
     THEN yearCall' = Set(yearCall, j, None) /\ UNCHANGED <<year, multiplied, overlooked>>
     ELSE /\ year' = [year EXCEPT ![c.year] =
               [period |-> Merged(c.names, c.period, year[c.year].period),
                status |-> c.goal, active |-> c.active]]
          /\ yearCall' = Outdate(Set(yearCall, j, None), j, c.active)
          /\ multiplied' = (multiplied \/ (c.active /\ ~c.sole))
          /\ overlooked' = (overlooked \/ (c.names # {} /\ ~c.fresh))
  /\ UNCHANGED handlerVars

DeleteRow(j) ==
  /\ At(yearCall[j], "delete")
  /\ year' = [year EXCEPT ![yearCall[j].year] = None]
  /\ yearCall' = Set(yearCall, j, None)
  /\ UNCHANGED <<multiplied, overlooked, handlerVars>>

\* A query fails, such as the deletion of a year that allocations refer to;
\* an update that fails after it activated the year leaves it active.
FailYear(j) ==
  /\ Fault
  /\ yearCall[j] # None
  /\ yearCall' = Set(yearCall, j, None)
  /\ UNCHANGED <<year, multiplied, overlooked>>

HandleYear(j) ==
  CheckOverlap(j) \/ InsertYear(j) \/ Deactivate(j) \/ WriteYear(j) \/ DeleteRow(j)

YearsNext ==
  \E j \in Jobs :
    \/ \E y \in Years :
         \/ \E p \in Periods, s \in Statuses, b \in BOOLEAN : CreateYear(j, y, p, s, b)
         \/ \E names \in SUBSET {"first", "last"}, p \in Periods, s \in Statuses :
              UpdateYear(j, y, names, p, s)
         \/ DeleteYear(j, y) \/ ActivateYear(j, y)
    \/ HandleYear(j) \/ FailYear(j)

YearsSpec == HandlersInit /\ YearsInit /\ [][YearsNext]_<<yearVars, handlerVars>>

-----------------------------------------------------------------------------
(* Properties. *)

(* There are two active years only if one was created active, or an update *)
(* wrote its activation after another year had been activated: setActive   *)
(* by itself, however it is interleaved, leaves one.                       *)
OneActiveYear == multiplied \/ Cardinality(ActiveYears) <= 1

(* A period ends before it begins, or two overlap, only if a write relied  *)
(* on reads made before another write.                                     *)
PeriodsAreDisjoint == overlooked \/ DisjointPeriods
=============================================================================
