-------------------------- MODULE FiscalYears_proofs --------------------------
(***************************************************************************)
(* For any number of fiscal years and of requests in flight: the table     *)
(* keeps its types, setActive leaves one active year, and the overlap      *)
(* check keeps the periods apart, with the exceptions the properties name. *)
(*                                                                         *)
(* Neither property is inductive: what a handler is about to write was     *)
(* checked some awaits ago.  CallSound says what such a check is worth as  *)
(* long as fresh and sole say that nothing intervened.                     *)
(***************************************************************************)
EXTENDS FiscalYears, FiniteSetTheorems, TLAPS

vars == <<yearVars, handlerVars>>

Active(rows) == {y \in Years : rows[y] # None /\ rows[y].active}

NoOverlap(p, y, rows) == \A x \in Years \ {y} : rows[x] # None => ~Overlap(p, rows[x].period)

Disjoint(rows) ==
  \A x \in Years :
    rows[x] # None => InOrder(rows[x].period) /\ NoOverlap(rows[x].period, x, rows)

(* The period a handler may write, unless a row has changed meanwhile, is  *)
(* the one it checked, and the only active year is the one it activated.   *)
CallSound(c, rows) ==
  /\ c.step = "overlap" => c.op \in {"create", "update"}
  /\ c.step = "insert" => c.op = "create"
  /\ c.op = "update" => (c.active <=> c.goal = "Active")
  /\ c.op \in {"create", "update"} => InOrder(c.period)
  /\ c.op = "update" /\ c.fresh /\ rows[c.year] # None
       => c.period = Merged(c.names, c.period, rows[c.year].period)
  /\ c.step \in {"insert", "deactivate", "write"} /\ c.names # {} /\ c.fresh
       => NoOverlap(c.period, c.year, rows)
  /\ c.op = "create" => c.names # {}
  /\ c.step = "deactivate" => c.op \in {"update", "activate"}
  /\ c.step = "write" => c.op = "update"
  /\ c.step = "write" /\ c.active /\ c.sole => Active(rows) \subseteq {c.year}

Inv ==
  /\ YearsTypeOK
  /\ multiplied \/ \A x, y \in Active(year) : x = y
  /\ overlooked \/ Disjoint(year)
  /\ \A j \in Jobs : yearCall[j] # None => CallSound(yearCall[j], year)

-----------------------------------------------------------------------------
(* Types. *)

LEMMA Typed ==
  ASSUME Inv
  PROVE  /\ year \in [Years -> YearRows \cup {None}]
         /\ yearCall \in [Jobs -> YearCalls \cup {None}]
         /\ multiplied \in BOOLEAN
         /\ overlooked \in BOOLEAN
  BY DEF Inv, YearsTypeOK

LEMMA InFlight ==
  ASSUME Inv, NEW j \in Jobs, yearCall[j] # None
  PROVE  yearCall[j] \in YearCalls /\ CallSound(yearCall[j], year)
  BY Typed DEF Inv

LEMMA Fields ==
  ASSUME NEW c \in YearCalls
  PROVE  /\ c.op \in {"create", "update", "delete", "activate"}
         /\ c.step \in {"overlap", "insert", "deactivate", "write", "delete"}
         /\ c.year \in Years
         /\ c.names \in SUBSET {"first", "last"}
         /\ c.period \in Periods
         /\ c.goal \in Statuses
         /\ c.active \in BOOLEAN
         /\ c.fresh \in BOOLEAN
         /\ c.sole \in BOOLEAN
  BY Zenon DEF YearCalls

\* A call at another step, with other marks, is a call.
LEMMA CallAtStep ==
  ASSUME NEW c \in YearCalls, NEW b \in BOOLEAN, NEW d \in BOOLEAN,
         NEW step \in {"overlap", "insert", "deactivate", "write", "delete"}
  PROVE  /\ [c EXCEPT !.fresh = b, !.step = step] \in YearCalls
         /\ [c EXCEPT !.step = step, !.sole = b] \in YearCalls
         /\ [c EXCEPT !.fresh = b, !.sole = d] \in YearCalls
  BY Zenon DEF YearCalls

LEMMA MergedTyped ==
  ASSUME NEW p \in Periods, NEW q \in Periods, NEW names
  PROVE  Merged(names, p, q) \in Periods
  BY DEF Periods, Merged

LEMMA RowTyped ==
  ASSUME NEW p \in Periods, NEW s \in Statuses, NEW b \in BOOLEAN
  PROVE  [period |-> p, status |-> s, active |-> b] \in YearRows
  BY Zenon DEF YearRows

LEMMA RowFields ==
  ASSUME NEW r \in YearRows
  PROVE  r.period \in Periods /\ r.status \in Statuses /\ r.active \in BOOLEAN
  BY Zenon DEF YearRows

-----------------------------------------------------------------------------
(* One handler moves and the table stays, or loses rows. *)

Fewer(new, old) ==
  \A x \in Years : new[x] # None => old[x] # None /\ new[x] = old[x]

LEMMA FewerSound ==
  ASSUME NEW new, NEW old, Fewer(new, old), NEW c \in YearCalls, CallSound(c, old)
  PROVE  CallSound(c, new)
  <1>1. c.year \in Years
    BY Fields
  <1>2. NoOverlap(c.period, c.year, old) => NoOverlap(c.period, c.year, new)
    BY DEF NoOverlap, Fewer
  <1>3. Active(new) \subseteq Active(old)
    BY DEF Active, Fewer
  <1>4. new[c.year] # None => old[c.year] # None /\ new[c.year] = old[c.year]
    BY <1>1 DEF Fewer
  <1> QED
    BY <1>2, <1>3, <1>4 DEF CallSound

LEMMA MoveKeeps ==
  ASSUME Inv, UNCHANGED <<multiplied, overlooked>>,
         year' \in [Years -> YearRows \cup {None}], Fewer(year', year),
         NEW j \in Jobs, NEW x \in YearCalls \cup {None},
         x # None => CallSound(x, year),
         yearCall' = [yearCall EXCEPT ![j] = x]
  PROVE  Inv'
  <1>1. YearsTypeOK'
    BY Typed DEF YearsTypeOK
  <1>2. ASSUME NEW i \in Jobs, yearCall'[i] # None
        PROVE  CallSound(yearCall'[i], year')
    <2>1. yearCall'[i] \in YearCalls /\ CallSound(yearCall'[i], year)
      <3>1. CASE i = j
        BY <1>2, <3>1, Typed
      <3>2. CASE i # j
        BY <1>2, <3>2, Typed, InFlight
      <3> QED
        BY <3>1, <3>2
    <2> QED
      BY <2>1, FewerSound
  <1>3. multiplied' \/ \A y, z \in Active(year') : y = z
    BY DEF Inv, Active, Fewer
  <1>4. overlooked' \/ Disjoint(year')
    BY DEF Inv, Disjoint, NoOverlap, Fewer
  <1> QED
    BY <1>1, <1>2, <1>3, <1>4 DEF Inv

LEMMA CallMoveKeeps ==
  ASSUME Inv, UNCHANGED <<year, multiplied, overlooked>>, NEW j \in Jobs,
         NEW x \in YearCalls \cup {None}, x # None => CallSound(x, year),
         yearCall' = [yearCall EXCEPT ![j] = x]
  PROVE  Inv'
  BY MoveKeeps, Typed DEF Fewer

LEMMA EndKeeps ==
  ASSUME Inv, UNCHANGED <<year, multiplied, overlooked>>, NEW j \in Jobs,
         yearCall' = [yearCall EXCEPT ![j] = None]
  PROVE  Inv'
  BY CallMoveKeeps

-----------------------------------------------------------------------------
(* Requests. *)

LEMMA InitInv ==
  ASSUME YearsInit
  PROVE  Inv
  <1>1. YearsTypeOK
    BY DEF YearsInit, YearsTypeOK
  <1>2. \A j \in Jobs : yearCall[j] = None
    BY DEF YearsInit
  <1>3. Disjoint(year)
    BY DEF YearsInit, DisjointPeriods, Disjoint, NoOverlap
  <1>4. ASSUME NEW x \in Active(year), NEW y \in Active(year), x # y
        PROVE  FALSE
    <2>1. IsFiniteSet(ActiveYears) /\ Cardinality(ActiveYears) <= 1
      BY FiscalYearsAssumption, FS_Subset DEF YearsInit, ActiveYears
    <2>2. {x, y} \subseteq ActiveYears
      BY DEF Active, ActiveYears
    <2>3. Cardinality({x, y}) <= Cardinality(ActiveYears)
      BY <2>1, <2>2, FS_Subset
    <2>4. Cardinality({x}) = 1 /\ IsFiniteSet({x})
      BY FS_Singleton
    <2>5. Cardinality({x} \cup {y}) = 2
      BY <1>4, <2>4, FS_AddElement
    <2>6. {x} \cup {y} = {x, y}
      OBVIOUS
    <2>7. Cardinality(ActiveYears) \in Nat
      BY <2>1, FS_CardinalityType
    <2> QED
      BY <2>1, <2>3, <2>5, <2>6, <2>7
  <1> QED
    BY <1>1, <1>2, <1>3, <1>4 DEF Inv

LEMMA CallTyped ==
  ASSUME NEW op \in {"create", "update", "delete", "activate"},
         NEW step \in {"overlap", "insert", "deactivate", "write", "delete"},
         NEW y \in Years, NEW names \in SUBSET {"first", "last"}, NEW p \in Periods,
         NEW goal \in Statuses, NEW b \in BOOLEAN
  PROVE  YearCall(op, step, y, names, p, goal, b) \in YearCalls
  BY Zenon DEF YearCalls, YearCall

LEMMA BeginKeeps ==
  ASSUME Inv, NEW j \in Jobs, NEW x \in YearCalls, CallSound(x, year), BeginYear(j, x)
  PROVE  Inv'
  BY CallMoveKeeps DEF BeginYear, Set

LEMMA CreateKeeps ==
  ASSUME Inv, NEW j \in Jobs, NEW y \in Years, NEW p \in Periods, NEW s \in Statuses,
         NEW b \in BOOLEAN, CreateYear(j, y, p, s, b)
  PROVE  Inv'
  <1> DEFINE x == YearCall("create", "overlap", y, {"first", "last"}, p, s, b)
  <1>1. x \in YearCalls
    BY CallTyped
  <1>2. CallSound(x, year)
    BY DEF CallSound, YearCall, CreateYear
  <1> QED
    BY <1>1, <1>2, BeginKeeps DEF CreateYear

LEMMA UpdateKeeps ==
  ASSUME Inv, NEW j \in Jobs, NEW y \in Years, NEW names \in SUBSET {"first", "last"},
         NEW p \in Periods, NEW s \in Statuses, UpdateYear(j, y, names, p, s)
  PROVE  Inv'
  <1> DEFINE step == IF names # {} THEN "overlap" ELSE IF s = "Active" THEN "deactivate" ELSE "write"
             x == YearCall("update", step, y, names, p, s, s = "Active")
  <1>1. x \in YearCalls
    BY CallTyped
  <1>2. CallSound(x, year)
    BY DEF CallSound, YearCall, UpdateYear
  <1> QED
    BY <1>1, <1>2, BeginKeeps DEF UpdateYear

LEMMA DeleteKeeps ==
  ASSUME Inv, NEW j \in Jobs, NEW y \in Years, DeleteYear(j, y)
  PROVE  Inv'
  <1> DEFINE x == YearCall("delete", "delete", y, {}, year[y].period, "Inactive", FALSE)
  <1>1. year[y].period \in Periods
    BY Typed, RowFields DEF DeleteYear
  <1>2. x \in YearCalls
    BY <1>1, CallTyped DEF Statuses
  <1>3. CallSound(x, year)
    BY DEF CallSound, YearCall
  <1> QED
    BY <1>2, <1>3, BeginKeeps DEF DeleteYear

LEMMA ActivateKeeps ==
  ASSUME Inv, NEW j \in Jobs, NEW y \in Years, ActivateYear(j, y)
  PROVE  Inv'
  <1> DEFINE x == YearCall("activate", "deactivate", y, {}, year[y].period, "Active", TRUE)
  <1>1. year[y].period \in Periods
    BY Typed, RowFields DEF ActivateYear
  <1>2. x \in YearCalls
    BY <1>1, CallTyped DEF Statuses
  <1>3. CallSound(x, year)
    BY DEF CallSound, YearCall
  <1> QED
    BY <1>2, <1>3, BeginKeeps DEF ActivateYear

-----------------------------------------------------------------------------
(* The awaits of a handler. *)

LEMMA CheckKeeps ==
  ASSUME Inv, NEW j \in Jobs, CheckOverlap(j)
  PROVE  Inv'
  <1> DEFINE c == yearCall[j]
             fresh == c.fresh \/ c.op = "create"
             step == IF c.op = "create" THEN "insert"
                     ELSE IF c.goal = "Active" THEN "deactivate" ELSE "write"
             x == [c EXCEPT !.fresh = fresh, !.step = step]
  <1>1. c # None /\ c.step = "overlap" /\ UNCHANGED <<year, multiplied, overlooked>>
    BY DEF CheckOverlap, At
  <1>2. c \in YearCalls /\ CallSound(c, year)
    BY <1>1, InFlight
  <1>3. CASE IsOverlapping(c.period, c.year)
    BY <1>1, <1>3, EndKeeps DEF CheckOverlap, Set
  <1>4. CASE ~IsOverlapping(c.period, c.year)
    <2>1. yearCall' = [yearCall EXCEPT ![j] = x]
      BY <1>4 DEF CheckOverlap, Set
    <2>2. fresh \in BOOLEAN
      BY <1>2, Fields
    <2>3. x \in YearCalls
      BY <1>2, <2>2, CallAtStep
    <2>4. NoOverlap(c.period, c.year, year)
      BY <1>4 DEF IsOverlapping, NoOverlap
    <2>5. /\ x.op = c.op /\ x.year = c.year /\ x.names = c.names /\ x.period = c.period
          /\ x.goal = c.goal /\ x.active = c.active /\ x.sole = c.sole
          /\ x.fresh = fresh /\ x.step = step
      BY <1>2 DEF YearCalls
    <2>6. c.op \in {"create", "update"}
      BY <1>1, <1>2 DEF CallSound
    <2> HIDE DEF x
    <2>7. CallSound(x, year)
      BY <1>2, <2>4, <2>5, <2>6 DEF CallSound
    <2> QED
      BY <1>1, <2>1, <2>3, <2>7, CallMoveKeeps
  <1> QED
    BY <1>3, <1>4

\* What an outdated call says of the period it checked does not count.
LEMMA OutdatedSound ==
  ASSUME NEW old, NEW new, NEW c \in YearCalls, CallSound(c, old), NEW activation \in BOOLEAN,
         activation \/ Active(new) \subseteq Active(old)
  PROVE  /\ [c EXCEPT !.fresh = FALSE, !.sole = c.sole /\ ~activation] \in YearCalls
         /\ CallSound([c EXCEPT !.fresh = FALSE, !.sole = c.sole /\ ~activation], new)
  <1> DEFINE sole == c.sole /\ ~activation
             x == [c EXCEPT !.fresh = FALSE, !.sole = sole]
  <1>1. sole \in BOOLEAN
    BY Fields
  <1>2. x \in YearCalls
    BY <1>1, CallAtStep
  <1>3. /\ x.op = c.op /\ x.step = c.step /\ x.year = c.year /\ x.names = c.names
        /\ x.period = c.period /\ x.goal = c.goal /\ x.active = c.active
        /\ x.fresh = FALSE /\ x.sole = sole
    BY DEF YearCalls
  <1>4. x.sole => c.sole /\ Active(new) \subseteq Active(old)
    BY <1>3
  <1> HIDE DEF x
  <1>5. CallSound(x, new)
    BY <1>3, <1>4 DEF CallSound
  <1> QED
    BY <1>2, <1>5 DEF x

\* The calls after handler j goes on with x and its write outdates the others.
LEMMA OutdateKeeps ==
  ASSUME Inv, NEW j \in Jobs, NEW x \in YearCalls \cup {None}, x # None => CallSound(x, year'),
         NEW activation \in BOOLEAN, activation \/ Active(year') \subseteq Active(year),
         yearCall' = Outdate(Set(yearCall, j, x), j, activation)
  PROVE  /\ yearCall' \in [Jobs -> YearCalls \cup {None}]
         /\ \A i \in Jobs : yearCall'[i] # None => CallSound(yearCall'[i], year')
  <1>1. ASSUME NEW i \in Jobs
        PROVE  yearCall'[i] = IF i = j THEN x ELSE IF yearCall[i] = None THEN None
                 ELSE [yearCall[i] EXCEPT !.fresh = FALSE, !.sole = yearCall[i].sole /\ ~activation]
    BY Typed DEF Outdate, Set
  <1>2. ASSUME NEW i \in Jobs
        PROVE  /\ yearCall'[i] \in YearCalls \cup {None}
               /\ yearCall'[i] # None => CallSound(yearCall'[i], year')
    <2>1. CASE i = j
      BY <1>1, <2>1
    <2>2. CASE i # j /\ yearCall[i] = None
      BY <1>1, <2>2
    <2>3. CASE i # j /\ yearCall[i] # None
      <3> DEFINE c == yearCall[i]
                 z == [c EXCEPT !.fresh = FALSE, !.sole = c.sole /\ ~activation]
      <3>1. c \in YearCalls /\ CallSound(c, year)
        BY <2>3, InFlight
      <3>2. z \in YearCalls /\ CallSound(z, year')
        BY <3>1, OutdatedSound
      <3>3. yearCall'[i] = z
        BY <1>1, <2>3
      <3> QED
        BY <3>2, <3>3
    <2> QED
      BY <2>1, <2>2, <2>3
  <1>3. yearCall' = [i \in Jobs |-> yearCall'[i]]
    BY DEF Outdate
  <1> QED
    BY <1>2, <1>3

LEMMA RewriteKeeps ==
  ASSUME Inv, NEW j \in Jobs, NEW y \in Years, NEW row \in YearRows,
         year' = [year EXCEPT ![y] = row],
         yearCall' = Outdate(Set(yearCall, j, None), j, row.active),
         multiplied' \in BOOLEAN, multiplied => multiplied',
         row.active => multiplied' \/ Active(year) \subseteq {y},
         overlooked' \in BOOLEAN, overlooked => overlooked',
         \/ overlooked'
         \/ InOrder(row.period) /\ NoOverlap(row.period, y, year)
         \/ year[y] # None /\ row.period = year[y].period
  PROVE  Inv'
  <1>1. /\ year' \in [Years -> YearRows \cup {None}]
        /\ year'[y] = row /\ row # None
        /\ \A x \in Years : x # y => year'[x] = year[x]
    BY Typed, FiscalYearsNoneAssumption
  <1>2. row.active \in BOOLEAN
    BY RowFields
  <1>3. ~row.active => Active(year') \subseteq Active(year)
    BY <1>1 DEF Active
  <1>4. /\ yearCall' \in [Jobs -> YearCalls \cup {None}]
        /\ \A i \in Jobs : yearCall'[i] # None => CallSound(yearCall'[i], year')
    BY <1>2, <1>3, OutdateKeeps
  <1>5. multiplied' \/ \A x, z \in Active(year') : x = z
    <2>1. CASE ~row.active
      BY <1>3, <2>1 DEF Inv
    <2>2. CASE row.active
      BY <1>1, <2>2 DEF Active
    <2> QED
      BY <2>1, <2>2
  <1>6. overlooked' \/ Disjoint(year')
    <2>1. SUFFICES ASSUME ~overlooked' PROVE Disjoint(year')
      OBVIOUS
    <2>2. Disjoint(year)
      BY <2>1 DEF Inv
    <2>3. InOrder(row.period) /\ NoOverlap(row.period, y, year)
      BY <2>1, <2>2 DEF Disjoint
    <2>4. ASSUME NEW x \in Years, year'[x] # None
          PROVE  InOrder(year'[x].period) /\ NoOverlap(year'[x].period, x, year')
      <3>1. CASE x = y
        BY <1>1, <2>3, <3>1 DEF NoOverlap
      <3>2. CASE x # y
        BY <1>1, <2>2, <2>3, <2>4, <3>2 DEF Disjoint, NoOverlap, Overlap
      <3> QED
        BY <3>1, <3>2
    <2> QED
      BY <2>4 DEF Disjoint
  <1> QED
    BY <1>1, <1>4, <1>5, <1>6 DEF Inv, YearsTypeOK

LEMMA InsertKeeps ==
  ASSUME Inv, NEW j \in Jobs, InsertYear(j)
  PROVE  Inv'
  <1> DEFINE c == yearCall[j]
             row == [period |-> c.period, status |-> c.goal, active |-> c.active]
  <1>1. c # None /\ c.step = "insert"
    BY DEF InsertYear, At
  <1>2. c \in YearCalls /\ CallSound(c, year)
    BY <1>1, InFlight
  <1>3. row \in YearRows /\ c.year \in Years
    BY <1>2, Fields, RowTyped
  <1>4. /\ year' = [year EXCEPT ![c.year] = row]
        /\ yearCall' = Outdate(Set(yearCall, j, None), j, row.active)
        /\ multiplied' = (multiplied \/ c.active)
        /\ overlooked' = (overlooked \/ ~c.fresh)
    BY DEF InsertYear
  <1>5. multiplied' \in BOOLEAN /\ overlooked' \in BOOLEAN
    BY <1>4
  <1>6. InOrder(c.period)
    BY <1>1, <1>2 DEF CallSound
  <1>7. c.fresh => NoOverlap(c.period, c.year, year)
    BY <1>1, <1>2 DEF CallSound
  <1> QED
    BY <1>3, <1>4, <1>5, <1>6, <1>7, RewriteKeeps

LEMMA WriteKeeps ==
  ASSUME Inv, NEW j \in Jobs, WriteYear(j)
  PROVE  Inv'
  <1> DEFINE c == yearCall[j]
             period == Merged(c.names, c.period, year[c.year].period)
             row == [period |-> period, status |-> c.goal, active |-> c.active]
  <1>1. c # None /\ c.step = "write"
    BY DEF WriteYear, At
  <1>2. c \in YearCalls /\ CallSound(c, year)
    BY <1>1, InFlight
  <1>3. c.op = "update" /\ c.year \in Years
    BY <1>1, <1>2, Fields DEF CallSound
  <1>4. CASE year[c.year] = None
    BY <1>4, EndKeeps DEF WriteYear, Set
  <1>5. CASE year[c.year] # None
    <2>1. year[c.year] \in YearRows
      BY <1>3, <1>5, Typed
    <2>2. row \in YearRows
      BY <1>2, <2>1, Fields, RowFields, MergedTyped, RowTyped
    <2>3. /\ year' = [year EXCEPT ![c.year] = row]
          /\ yearCall' = Outdate(Set(yearCall, j, None), j, row.active)
          /\ multiplied' = (multiplied \/ (c.active /\ ~c.sole))
          /\ overlooked' = (overlooked \/ (c.names # {} /\ ~c.fresh))
      BY <1>5 DEF WriteYear
    <2>4. multiplied' \in BOOLEAN /\ overlooked' \in BOOLEAN
      BY <2>3
    <2>5. row.active => multiplied' \/ Active(year) \subseteq {c.year}
      BY <1>1, <1>2, <2>3 DEF CallSound
    <2>6. \/ overlooked'
          \/ InOrder(row.period) /\ NoOverlap(row.period, c.year, year)
          \/ row.period = year[c.year].period
      <3>1. CASE c.names = {}
        <4>1. year[c.year].period \in Periods
          BY <2>1, RowFields
        <4>2. period = year[c.year].period
          BY <3>1, <4>1 DEF Merged, Periods
        <4> QED
          BY <4>2
      <3>2. CASE c.names # {} /\ c.fresh
        <4>1. period = c.period
          BY <1>2, <1>3, <1>5, <3>2 DEF CallSound
        <4>2. InOrder(c.period) /\ NoOverlap(c.period, c.year, year)
          BY <1>1, <1>2, <1>3, <3>2 DEF CallSound
        <4> QED
          BY <4>1, <4>2
      <3>3. CASE c.names # {} /\ ~c.fresh
        BY <2>3, <3>3
      <3> QED
        BY <3>1, <3>2, <3>3
    <2> HIDE DEF row
    <2> QED
      BY <1>3, <1>5, <2>2, <2>3, <2>4, <2>5, <2>6, RewriteKeeps
  <1> QED
    BY <1>4, <1>5

LEMMA Restatus ==
  ASSUME NEW r \in YearRows, NEW s \in Statuses, NEW b \in BOOLEAN
  PROVE  /\ [r EXCEPT !.status = s, !.active = b] \in YearRows
         /\ [r EXCEPT !.status = s, !.active = b].active = b
         /\ [r EXCEPT !.status = s, !.active = b].period = r.period
  <1>1. [r EXCEPT !.status = s, !.active = b] \in YearRows
    BY Zenon DEF YearRows
  <1> QED
    BY <1>1 DEF YearRows

\* setActive leaves one active year and no period changed.
LEMMA SetActiveSpec ==
  ASSUME Inv, NEW y \in Years, year[y] # None, year' = SetActive(y)
  PROVE  /\ year' \in [Years -> YearRows \cup {None}]
         /\ Active(year') \subseteq {y}
         /\ \A x \in Years : /\ year'[x] = None <=> year[x] = None
                             /\ year[x] # None => year'[x].period = year[x].period
  <1>1. ASSUME NEW x \in Years
        PROVE  year'[x] = IF x = y THEN [year[x] EXCEPT !.status = "Active", !.active = TRUE]
                          ELSE IF x \in ActiveYears
                          THEN [year[x] EXCEPT !.status = "Inactive", !.active = FALSE]
                          ELSE year[x]
    BY DEF SetActive
  <1>3. "Active" \in Statuses /\ "Inactive" \in Statuses
    BY DEF Statuses
  <1>4. ASSUME NEW x \in Years
        PROVE  /\ year'[x] \in YearRows \cup {None}
               /\ year'[x] = None <=> year[x] = None
               /\ year[x] # None => year'[x].period = year[x].period
               /\ x # y /\ year'[x] # None => ~year'[x].active
    <2>1. CASE x = y
      <3> DEFINE z == [year[x] EXCEPT !.status = "Active", !.active = TRUE]
      <3>1. year[x] \in YearRows
        BY <2>1, Typed
      <3>2. z \in YearRows /\ z.period = year[x].period
        BY <1>3, <3>1, Restatus
      <3>3. year'[x] = z
        BY <1>1, <2>1
      <3> HIDE DEF z
      <3> QED
        BY <2>1, <3>1, <3>2, <3>3, FiscalYearsNoneAssumption
    <2>2. CASE x # y /\ x \in ActiveYears
      <3> DEFINE z == [year[x] EXCEPT !.status = "Inactive", !.active = FALSE]
      <3>1. year[x] \in YearRows
        BY <2>2, Typed DEF ActiveYears
      <3>2. z \in YearRows /\ z.period = year[x].period /\ z.active = FALSE
        BY <1>3, <3>1, Restatus
      <3>3. year'[x] = z
        BY <1>1, <2>2
      <3> HIDE DEF z
      <3> QED
        BY <3>1, <3>2, <3>3, FiscalYearsNoneAssumption
    <2>3. CASE x # y /\ x \notin ActiveYears
      BY <1>1, <2>3, Typed DEF ActiveYears
    <2> QED
      BY <2>1, <2>2, <2>3
  <1>5. year' = [x \in Years |-> year'[x]]
    BY DEF SetActive
  <1>6. year' \in [Years -> YearRows \cup {None}]
    BY <1>4, <1>5
  <1>7. Active(year') \subseteq {y}
    BY <1>4 DEF Active
  <1> QED
    BY <1>4, <1>6, <1>7

LEMMA DeactivateKeeps ==
  ASSUME Inv, NEW j \in Jobs, Deactivate(j)
  PROVE  Inv'
  <1> DEFINE c == yearCall[j]
             x == IF c.op = "activate" THEN None ELSE [c EXCEPT !.step = "write", !.sole = TRUE]
  <1>1. c # None /\ c.step = "deactivate" /\ UNCHANGED <<multiplied, overlooked>>
    BY DEF Deactivate, At
  <1>2. c \in YearCalls /\ CallSound(c, year) /\ c.year \in Years
    BY <1>1, InFlight, Fields
  <1>3. CASE year[c.year] = None
    BY <1>1, <1>3, EndKeeps DEF Deactivate, Set
  <1>4. CASE year[c.year] # None
    <2>1. year' = SetActive(c.year) /\ yearCall' = Outdate(Set(yearCall, j, x), j, TRUE)
      BY <1>4 DEF Deactivate
    <2>2. /\ year' \in [Years -> YearRows \cup {None}]
          /\ Active(year') \subseteq {c.year}
          /\ \A y \in Years : /\ year'[y] = None <=> year[y] = None
                              /\ year[y] # None => year'[y].period = year[y].period
      BY <1>2, <1>4, <2>1, SetActiveSpec
    <2>3. x \in YearCalls \cup {None}
      BY <1>2, CallAtStep
    <2>4. x # None => CallSound(x, year')
      <3>1. SUFFICES ASSUME c.op # "activate" PROVE CallSound(x, year')
        OBVIOUS
      <3>2. /\ x.op = c.op /\ x.year = c.year /\ x.names = c.names /\ x.period = c.period
            /\ x.goal = c.goal /\ x.active = c.active /\ x.fresh = c.fresh
            /\ x.step = "write"
        BY <1>2, <3>1 DEF YearCalls
      <3> HIDE DEF x
      <3>3. NoOverlap(c.period, c.year, year) => NoOverlap(c.period, c.year, year')
        BY <2>2 DEF NoOverlap
      <3>5. c.op = "update"
        BY <1>1, <1>2, <3>1 DEF CallSound
      <3> QED
        BY <1>1, <1>2, <2>2, <3>2, <3>3, <3>5 DEF CallSound
    <2>5. /\ yearCall' \in [Jobs -> YearCalls \cup {None}]
          /\ \A i \in Jobs : yearCall'[i] # None => CallSound(yearCall'[i], year')
      BY <2>1, <2>3, <2>4, OutdateKeeps
    <2>6. multiplied' \/ \A y, z \in Active(year') : y = z
      BY <2>2
    <2>7. overlooked' \/ Disjoint(year')
      BY <1>1, <2>2 DEF Inv, Disjoint, NoOverlap
    <2>8. YearsTypeOK'
      BY <1>1, <2>2, <2>5, Typed DEF YearsTypeOK
    <2> QED
      BY <2>5, <2>6, <2>7, <2>8 DEF Inv
  <1> QED
    BY <1>3, <1>4

LEMMA DeleteRowKeeps ==
  ASSUME Inv, NEW j \in Jobs, DeleteRow(j)
  PROVE  Inv'
  <1> DEFINE c == yearCall[j]
  <1>1. c # None /\ UNCHANGED <<multiplied, overlooked>>
    BY DEF DeleteRow, At
  <1>2. c.year \in Years
    BY <1>1, InFlight, Fields
  <1>3. year' = [year EXCEPT ![c.year] = None] /\ yearCall' = [yearCall EXCEPT ![j] = None]
    BY DEF DeleteRow, Set
  <1>4. year' \in [Years -> YearRows \cup {None}] /\ Fewer(year', year)
    BY <1>2, <1>3, Typed DEF Fewer
  <1> QED
    BY <1>1, <1>3, <1>4, MoveKeeps

LEMMA FailKeeps ==
  ASSUME Inv, NEW j \in Jobs, FailYear(j)
  PROVE  Inv'
  BY EndKeeps DEF FailYear, Set

LEMMA StutterKeeps ==
  ASSUME Inv, UNCHANGED yearVars
  PROVE  Inv'
  <1>1. UNCHANGED <<year, yearCall, multiplied, overlooked>>
    BY DEF yearVars
  <1>2. YearsTypeOK'
    BY <1>1, Typed DEF YearsTypeOK
  <1> QED
    BY <1>1, <1>2 DEF Inv

LEMMA NextKeeps ==
  ASSUME Inv, [YearsNext]_vars
  PROVE  Inv'
  <1>1. CASE YearsNext
    <2>1. ASSUME NEW j \in Jobs, NEW y \in Years, NEW p \in Periods, NEW s \in Statuses,
                 NEW b \in BOOLEAN, CreateYear(j, y, p, s, b)
          PROVE  Inv'
      BY <2>1, CreateKeeps
    <2>2. ASSUME NEW j \in Jobs, NEW y \in Years, NEW names \in SUBSET {"first", "last"},
                 NEW p \in Periods, NEW s \in Statuses, UpdateYear(j, y, names, p, s)
          PROVE  Inv'
      BY <2>2, UpdateKeeps
    <2>3. ASSUME NEW j \in Jobs, NEW y \in Years, DeleteYear(j, y) \/ ActivateYear(j, y)
          PROVE  Inv'
      BY <2>3, DeleteKeeps, ActivateKeeps
    <2>4. ASSUME NEW j \in Jobs, HandleYear(j)
          PROVE  Inv'
      BY <2>4, CheckKeeps, InsertKeeps, DeactivateKeeps, WriteKeeps, DeleteRowKeeps DEF HandleYear
    <2>5. ASSUME NEW j \in Jobs, FailYear(j)
          PROVE  Inv'
      BY <2>5, FailKeeps
    <2> QED
      BY <1>1, <2>1, <2>2, <2>3, <2>4, <2>5 DEF YearsNext
  <1>2. CASE UNCHANGED vars
    BY <1>2, StutterKeeps DEF vars
  <1> QED
    BY <1>1, <1>2

-----------------------------------------------------------------------------
(* Theorems. *)

(* The inductive invariant of fiscal years: types, what handlers rely on,  *)
(* one active year and disjoint periods, with their exceptions.            *)
THEOREM YearsInvariant == YearsSpec => []Inv
  <1>1. YearsInit => Inv
    BY InitInv
  <1>2. Inv /\ [YearsNext]_vars => Inv'
    BY NextKeeps
  <1> QED
    BY <1>1, <1>2, PTL DEF YearsSpec, vars

\* The fiscal years and the handlers of fiscalYearService keep their types.
THEOREM YearsTyped == YearsSpec => []YearsTypeOK
  <1>1. Inv => YearsTypeOK
    BY DEF Inv
  <1> QED
    BY <1>1, YearsInvariant, PTL

(* setActive leaves one active year however it is interleaved, for any     *)
(* number of years; a create with isActive and the late second write of an *)
(* update are the only causes of a second one.                             *)
THEOREM ActiveYearUnique == YearsSpec => []OneActiveYear
  <1>1. Inv => OneActiveYear
    <2> SUFFICES ASSUME Inv, ~multiplied PROVE Cardinality(ActiveYears) <= 1
      BY DEF OneActiveYear
    <2>1. \A x, y \in ActiveYears : x = y
      BY DEF Inv, Active, ActiveYears
    <2>2. CASE ActiveYears = {}
      BY <2>2, FS_EmptySet
    <2>3. CASE ActiveYears # {}
      <3>1. PICK x : x \in ActiveYears
        BY <2>3
      <3>2. ActiveYears = {x}
        BY <2>1, <3>1
      <3> QED
        BY <3>2, FS_Singleton
    <2> QED
      BY <2>2, <2>3
  <1> QED
    BY <1>1, YearsInvariant, PTL

(* The check of isOverlapping keeps periods in order and apart, for any    *)
(* number of requests, unless a write relies on reads that another write   *)
(* has made out of date.                                                   *)
THEOREM PeriodsApart == YearsSpec => []PeriodsAreDisjoint
  <1>1. Inv => PeriodsAreDisjoint
    BY DEF Inv, PeriodsAreDisjoint, DisjointPeriods, Disjoint, NoOverlap
  <1> QED
    BY <1>1, YearsInvariant, PTL
=============================================================================
