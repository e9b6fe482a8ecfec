---------------------- MODULE AllocationLifecycle_proofs ----------------------
(***************************************************************************)
(* The promises of the allocation API, for any number of allocations,      *)
(* users, fiscal years and amounts.                                        *)
(*                                                                         *)
(* The budget is a sum over a set of rows, which FiniteSetsExt computes by *)
(* recursion over subsets: the first part shows that the recursion has a   *)
(* solution and what the sum does when a row joins or leaves.              *)
(***************************************************************************)
EXTENDS AllocationLifecycle, FiniteSetTheorems, TLAPS

-----------------------------------------------------------------------------
(* Sums of amounts. *)

Total(table, S) == MapThenSumSet(LAMBDA a : table[a].amount, S)

AnyOf(s) == CHOOSE x \in s : TRUE

\* One step of the recursion that computes a sum.
SumAt(g, table, s) ==
  IF s = {} THEN 0 ELSE table[AnyOf(s)].amount + g[s \ {AnyOf(s)}]

\* g gives the sum over every subset of S.
Sums(g, table, S) == g = [s \in SUBSET S |-> SumAt(g, table, s)]

Amounting(table, S) == \A a \in S : table[a].amount \in Nat

LEMMA TotalUnfolds ==
  ASSUME NEW table, NEW S
  PROVE  Total(table, S) = (CHOOSE g : Sums(g, table, S))[S]
  BY Zenon DEF Total, MapThenSumSet, MapThenFoldSet, Sums, SumAt, AnyOf

LEMMA AnyOfIsIn ==
  ASSUME NEW s, s # {}
  PROVE  AnyOf(s) \in s
  BY DEF AnyOf

LEMMA LeastNatural ==
  ASSUME NEW T \in SUBSET Nat, T # {}
  PROVE  \E m \in T : \A n \in T : m <= n
  <1>1. IsWellFoundedOn(OpToRel(<, Nat), Nat)
    BY NatLessThanWellFounded, Zenon
  <1>2. PICK m \in T : \A n \in T : <<n, m>> \notin OpToRel(<, Nat)
    BY <1>1, WFMin, Zenon
  <1>3. \A n \in T : ~(n < m)
    BY <1>2 DEF OpToRel
  <1> QED
    BY <1>3

LEMMA Smaller ==
  ASSUME NEW S, IsFiniteSet(S), NEW s \in SUBSET S, NEW x \in s
  PROVE  /\ s \ {x} \in SUBSET S
         /\ IsFiniteSet(s) /\ Cardinality(s) \in Nat /\ Cardinality(s) > 0
         /\ Cardinality(s \ {x}) = Cardinality(s) - 1
  <1>1. IsFiniteSet(s) /\ Cardinality(s) \in Nat
    BY FS_Subset, FS_CardinalityType
  <1>2. Cardinality(s \ {x}) = Cardinality(s) - 1
    BY <1>1, FS_RemoveElement
  <1>3. Cardinality(s) # 0
    BY <1>1, FS_EmptySet
  <1> QED
    BY <1>1, <1>2, <1>3

\* The recursion has a solution: by extending one for small sets to larger ones.
LEMMA SumsExist ==
  ASSUME NEW table, NEW S, IsFiniteSet(S), Amounting(table, S)
  PROVE  \E g \in [SUBSET S -> Nat] : Sums(g, table, S)
  <1> DEFINE UpTo(g, n) == \A s \in SUBSET S : Cardinality(s) <= n => g[s] = SumAt(g, table, s)
             Bad == {n \in Nat : ~\E g \in [SUBSET S -> Nat] : UpTo(g, n)}
  <1>1. Bad = {}
    <2>1. SUFFICES ASSUME Bad # {}
                   PROVE  FALSE
      OBVIOUS
    <2>2. PICK m \in Bad : \A n \in Bad : m <= n
      BY <2>1, LeastNatural
    <2>5. m \in Nat
      OBVIOUS
    <2>3. CASE m = 0
      <3> DEFINE g == [s \in SUBSET S |-> 0]
      <3>1. g \in [SUBSET S -> Nat]
        OBVIOUS
      <3>2. ASSUME NEW s \in SUBSET S, Cardinality(s) <= 0
            PROVE  s = {}
        BY <3>2, FS_Subset, FS_EmptySet, FS_CardinalityType
      <3>3. UpTo(g, 0)
        BY <3>2 DEF SumAt
      <3> QED
        BY <2>3, <3>1, <3>3
    <2>4. CASE m # 0
      <3>1. m - 1 \in Nat /\ m - 1 \notin Bad
        <4> HIDE DEF Bad
        <4> QED
          BY <2>2, <2>4, <2>5
      <3>2. PICK g \in [SUBSET S -> Nat] : UpTo(g, m - 1)
        BY <3>1
      <3> DEFINE h == [s \in SUBSET S |-> IF Cardinality(s) <= m - 1 THEN g[s] ELSE SumAt(g, table, s)]
      <3>3. ASSUME NEW s \in SUBSET S, s # {}
            PROVE  /\ AnyOf(s) \in S /\ table[AnyOf(s)].amount \in Nat
                   /\ s \ {AnyOf(s)} \in SUBSET S
                   /\ Cardinality(s) \in Nat
                   /\ Cardinality(s \ {AnyOf(s)}) = Cardinality(s) - 1
        BY <3>3, AnyOfIsIn, Smaller DEF Amounting
      <3>4. ASSUME NEW s \in SUBSET S
            PROVE  SumAt(g, table, s) \in Nat
        <4>1. CASE s = {}
          BY <4>1 DEF SumAt
        <4>2. CASE s # {}
          <5>1. g[s \ {AnyOf(s)}] \in Nat /\ table[AnyOf(s)].amount \in Nat
            BY <3>3, <4>2
          <5> QED
            BY <5>1, <4>2 DEF SumAt
        <4> QED
          BY <4>1, <4>2
      <3>5. h \in [SUBSET S -> Nat]
        BY <3>4
      <3>6. ASSUME NEW s \in SUBSET S, Cardinality(s) <= m
            PROVE  h[s] = SumAt(h, table, s)
        <4>1. CASE s = {}
          BY <4>1, <3>2, <3>1, FS_EmptySet DEF SumAt
        <4>2. CASE s # {}
          <5> DEFINE r == s \ {AnyOf(s)}
          <5>1. r \in SUBSET S /\ Cardinality(r) <= m - 1
            BY <3>3, <3>6, <4>2, <2>5
          <5>2. h[r] = g[r]
            BY <5>1
          <5>3. SumAt(h, table, s) = SumAt(g, table, s)
            BY <5>2, <4>2 DEF SumAt
          <5>4. h[s] = SumAt(g, table, s)
            BY <3>2
          <5> QED
            BY <5>3, <5>4
        <4> QED
          BY <4>1, <4>2
      <3>7. UpTo(h, m)
        BY <3>6
      <3> QED
        BY <3>5, <3>7
    <2> QED
      BY <2>3, <2>4
  <1>2. Cardinality(S) \in Nat
    BY FS_CardinalityType
  <1>3. PICK g \in [SUBSET S -> Nat] : UpTo(g, Cardinality(S))
    BY <1>1, <1>2
  <1>4. \A s \in SUBSET S : g[s] = SumAt(g, table, s)
    BY <1>3, FS_Subset
  <1>5. Sums(g, table, S)
    BY <1>4 DEF Sums
  <1> QED
    BY <1>5

LEMMA SumsAt ==
  ASSUME NEW g, NEW table, NEW S, Sums(g, table, S), NEW s \in SUBSET S
  PROVE  g[s] = SumAt(g, table, s)
  BY Zenon DEF Sums

\* Solutions for two tables agree where the tables have the same amounts.
LEMMA SumsAgree ==
  ASSUME NEW t, NEW u, NEW S, NEW T, NEW g, NEW h, Sums(g, t, S), Sums(h, u, T),
         NEW s \in SUBSET S, s \in SUBSET T, IsFiniteSet(s),
         \A a \in s : t[a].amount = u[a].amount
  PROVE  g[s] = h[s]
  <1> DEFINE Bad == {n \in Nat : \E r \in SUBSET s : Cardinality(r) = n /\ g[r] # h[r]}
  <1>1. Bad = {}
    <2>1. SUFFICES ASSUME Bad # {}
                   PROVE  FALSE
      OBVIOUS
    <2>2. PICK m \in Bad : \A n \in Bad : m <= n
      BY <2>1, LeastNatural
    <2>3. PICK r \in SUBSET s : Cardinality(r) = m /\ g[r] # h[r]
      OBVIOUS
    <2>4. g[r] = SumAt(g, t, r) /\ h[r] = SumAt(h, u, r)
      BY SumsAt
    <2>5. CASE r = {}
      BY <2>3, <2>4, <2>5 DEF SumAt
    <2>6. CASE r # {}
      <3> DEFINE x == AnyOf(r)
                 q == r \ {x}
      <3>1. x \in r
        BY <2>6, AnyOfIsIn
      <3>2. q \in SUBSET s /\ Cardinality(q) = m - 1 /\ m \in Nat /\ m > 0
        BY <2>3, <3>1, Smaller
      <3>3. m - 1 \notin Bad
        <4> HIDE DEF Bad
        <4> QED
          BY <2>2, <3>2
      <3>4. g[q] = h[q]
        BY <3>2, <3>3
      <3>5. t[x].amount = u[x].amount
        BY <3>1
      <3> QED
        BY <2>3, <2>4, <2>6, <3>4, <3>5 DEF SumAt
    <2> QED
      BY <2>5, <2>6
  <1>2. Cardinality(s) \in Nat
    BY FS_CardinalityType
  <1> QED
    BY <1>1, <1>2

\* A sum splits off any of its elements, not only the one recursion picks.
SplitsOff(g, table, S) ==
  \A s \in SUBSET S : \A x \in s : g[s] = table[x].amount + g[s \ {x}]

LEMMA SumsTakeOut ==
  ASSUME NEW t, NEW S, IsFiniteSet(S), Amounting(t, S),
         NEW g \in [SUBSET S -> Nat], Sums(g, t, S)
  PROVE  SplitsOff(g, t, S)
  <1> SUFFICES ASSUME NEW s \in SUBSET S, NEW x \in s
               PROVE  g[s] = t[x].amount + g[s \ {x}]
    BY DEF SplitsOff
  <1> DEFINE Bad == {n \in Nat : \E r \in SUBSET S, y \in S :
                        y \in r /\ Cardinality(r) = n /\ g[r] # t[y].amount + g[r \ {y}]}
  <1>1. Bad = {}
    <2>1. SUFFICES ASSUME Bad # {}
                   PROVE  FALSE
      OBVIOUS
    <2>2. PICK m \in Bad : \A n \in Bad : m <= n
      BY <2>1, LeastNatural
    <2>3. PICK r \in SUBSET S, y \in S :
            y \in r /\ Cardinality(r) = m /\ g[r] # t[y].amount + g[r \ {y}]
      OBVIOUS
    <2> DEFINE c == AnyOf(r)
    <2>4. c \in r /\ c \in S
      BY <2>3, AnyOfIsIn
    <2>5. g[r] = t[c].amount + g[r \ {c}]
      BY <2>3, SumsAt DEF SumAt
    <2>6. c # y
      BY <2>3, <2>5
    <2>7. /\ r \ {c} \in SUBSET S /\ r \ {y} \in SUBSET S /\ m \in Nat /\ m > 0
          /\ Cardinality(r \ {c}) = m - 1 /\ Cardinality(r \ {y}) = m - 1
      BY <2>3, <2>4, Smaller
    <2>8. m - 1 \in Nat /\ m - 1 \notin Bad
      <3> HIDE DEF Bad
      <3> QED
        BY <2>2, <2>7
    <2>9. g[r \ {c}] = t[y].amount + g[(r \ {c}) \ {y}]
      BY <2>3, <2>6, <2>7, <2>8
    <2>10. g[r \ {y}] = t[c].amount + g[(r \ {y}) \ {c}]
      BY <2>4, <2>6, <2>7, <2>8
    <2>11. (r \ {c}) \ {y} = (r \ {y}) \ {c} /\ (r \ {c}) \ {y} \in SUBSET S
      OBVIOUS
    <2>12. /\ t[y].amount \in Nat /\ t[c].amount \in Nat
           /\ g[(r \ {c}) \ {y}] \in Nat
      BY <2>4, <2>11 DEF Amounting
    <2>13. \A i, j, k \in Nat : i + (j + k) = j + (i + k)
      OBVIOUS
    <2>14. g[r \ {y}] = t[c].amount + g[(r \ {c}) \ {y}]
      BY <2>10, <2>11, Zenon
    <2>15. t[c].amount + g[r \ {c}] = t[y].amount + g[r \ {y}]
      <3> HIDE DEF c
      <3> QED
        BY <2>9, <2>12, <2>13, <2>14
    <2> QED
      BY <2>3, <2>5, <2>15
  <1>2. Cardinality(s) \in Nat
    BY FS_Subset, FS_CardinalityType
  <1> QED
    BY <1>1, <1>2

LEMMA TotalSolves ==
  ASSUME NEW t, NEW S, IsFiniteSet(S), Amounting(t, S)
  PROVE  \E g \in [SUBSET S -> Nat] : Sums(g, t, S) /\ Total(t, S) = g[S]
  <1>1. PICK g \in [SUBSET S -> Nat] : Sums(g, t, S)
    BY SumsExist
  <1> DEFINE h == CHOOSE k : Sums(k, t, S)
  <1>2. Sums(h, t, S)
    BY <1>1, Zenon
  <1>3. Total(t, S) = h[S]
    BY TotalUnfolds
  <1> HIDE DEF h
  <1>4. h[S] = g[S]
    BY <1>1, <1>2, SumsAgree
  <1> QED
    BY <1>1, <1>3, <1>4

LEMMA TotalIsNat ==
  ASSUME NEW t, NEW S, IsFiniteSet(S), Amounting(t, S)
  PROVE  Total(t, S) \in Nat
  <1>1. PICK g \in [SUBSET S -> Nat] : Total(t, S) = g[S]
    BY TotalSolves
  <1>2. S \in SUBSET S
    OBVIOUS
  <1> QED
    BY <1>1, <1>2

\* Tables with the same amounts have the same total.
LEMMA TotalOfSame ==
  ASSUME NEW t, NEW u, NEW S, IsFiniteSet(S), Amounting(t, S),
         \A a \in S : t[a].amount = u[a].amount
  PROVE  Total(t, S) = Total(u, S)
  <1>1. Amounting(u, S)
    BY DEF Amounting
  <1>2. PICK g \in [SUBSET S -> Nat] : Sums(g, t, S) /\ Total(t, S) = g[S]
    BY TotalSolves
  <1>3. PICK h \in [SUBSET S -> Nat] : Sums(h, u, S) /\ Total(u, S) = h[S]
    BY <1>1, TotalSolves
  <1>4. g[S] = h[S]
    BY <1>2, <1>3, SumsAgree
  <1> QED
    BY <1>2, <1>3, <1>4

\* A row adds its amount to the total of the others.
LEMMA TotalWith ==
  ASSUME NEW t, NEW S, IsFiniteSet(S), Amounting(t, S), NEW x \in S
  PROVE  Total(t, S) = t[x].amount + Total(t, S \ {x})
  <1>1. PICK g \in [SUBSET S -> Nat] : Sums(g, t, S) /\ Total(t, S) = g[S]
    BY TotalSolves
  <1>2. g[S] = t[x].amount + g[S \ {x}]
    <2>1. SplitsOff(g, t, S)
      BY <1>1, SumsTakeOut, Zenon
    <2> QED
      BY <2>1 DEF SplitsOff
  <1>3. IsFiniteSet(S \ {x}) /\ Amounting(t, S \ {x})
    BY FS_RemoveElement DEF Amounting
  <1>4. PICK h \in [SUBSET (S \ {x}) -> Nat] : Sums(h, t, S \ {x}) /\ Total(t, S \ {x}) = h[S \ {x}]
    BY <1>3, TotalSolves
  <1>5. g[S \ {x}] = h[S \ {x}]
    BY <1>1, <1>3, <1>4, SumsAgree
  <1> QED
    BY <1>1, <1>2, <1>4, <1>5

-----------------------------------------------------------------------------
(* What a step does to the table, whoever asks for it. *)

Writes(a, new) ==
  /\ new \in Row
  /\ alloc' = [alloc EXCEPT ![a] = new]
  /\ UNCHANGED <<year, master>>

Same(new, old) ==
  /\ new.fiscalYear = old.fiscalYear /\ new.refs = old.refs /\ new.amount = old.amount

Belongs(row) == master.department[row.refs.program] = row.refs.department

Creates(a, new) ==
  /\ Writes(a, new) /\ UNCHANGED <<history, recorded>>
  /\ alloc[a] = None
  /\ new.status = "Draft"
  /\ ~DuplicateExists(alloc, new.fiscalYear, new.refs, {})
  /\ Belongs(new)

Edits(a, new) ==
  /\ Writes(a, new) /\ UNCHANGED <<history, recorded>>
  /\ Live(alloc, a) /\ alloc[a].status = "Draft"
  /\ new.status = "Draft" /\ ~new.deleted
  /\ new.fiscalYear = alloc[a].fiscalYear
  /\ new.refs # alloc[a].refs => ~DuplicateExists(alloc, new.fiscalYear, new.refs, {a})
  /\ \/ /\ new.refs.department = alloc[a].refs.department
        /\ new.refs.program = alloc[a].refs.program
     \/ Belongs(new)

Deletes(a, new) ==
  /\ Writes(a, new) /\ UNCHANGED <<history, recorded>>
  /\ Live(alloc, a)
  /\ Same(new, alloc[a]) /\ new.status = alloc[a].status
  /\ new.deleted

Passes(a, new) ==
  /\ Writes(a, new)
  /\ Live(alloc, a)
  /\ Same(new, alloc[a])
  /\ ~new.deleted
  /\ new.status \in AllowedTransitions[alloc[a].status]
  /\ new.status = "Approved" => FitsCeiling(new.fiscalYear, new.amount)

Decides(a, new, op, user) ==
  /\ Passes(a, new)
  /\ new.status = TargetStatus[op]
  /\ history' = [history EXCEPT ![a] = Append(@, [action |-> HistoryAction[op], actor |-> user])]
  /\ recorded' = IF op = "approve" THEN [recorded EXCEPT ![a] = new] ELSE recorded

Transits(a, new) ==
  /\ Passes(a, new) /\ UNCHANGED <<history, recorded>>
  /\ new.status \in SeamTargets

RowStep(a, new) ==
  \/ Creates(a, new)
  \/ Edits(a, new)
  \/ Deletes(a, new)
  \/ \E op \in ReviewOperations, user \in Users : Decides(a, new, op, user)
  \/ Transits(a, new)

(* A step that leaves the allocations alone: it changes a fiscal year,     *)
(* master data or nothing.                                                 *)
OtherStep ==
  /\ UNCHANGED <<alloc, history, recorded>>
  /\ year' \in [FiscalYears -> FiscalYearRow]
  /\ master' \in MasterData

LEMMA RowOf ==
  ASSUME LifecycleTypeOK, NEW a \in Allocations, Exists(alloc, a)
  PROVE  /\ alloc[a] \in Row
         /\ alloc[a].status \in Statuses /\ alloc[a].refs \in References
         /\ alloc[a].amount \in Amounts /\ alloc[a].fiscalYear \in FiscalYears
         /\ alloc[a].deleted \in BOOLEAN
  BY DEF LifecycleTypeOK, Exists, Row

LEMMA CreateIs ==
  ASSUME LifecycleTypeOK, NEW user \in Users, NEW y \in FiscalYears,
         NEW refs \in References, NEW amount \in Amounts, Create(user, y, refs, amount)
  PROVE  \E a \in Allocations, new \in Row : RowStep(a, new)
  <1>1. PICK a \in Allocations, n \in 0..Cardinality(Allocations) :
          /\ ~Exists(alloc, a)
          /\ alloc' = [alloc EXCEPT ![a] = [NewDraft(y, refs, amount, user) EXCEPT !.code = n + 1]]
    BY DEF Create
  <1> PICK new : new = [NewDraft(y, refs, amount, user) EXCEPT !.code = n + 1]
    OBVIOUS
  <1>2. /\ new \in Row /\ new.status = "Draft" /\ new.fiscalYear = y /\ new.refs = refs
    <2> PICK draft : draft = NewDraft(y, refs, amount, user)
      OBVIOUS
    <2>1. /\ draft \in Row /\ draft.status = "Draft"
          /\ draft.fiscalYear = y /\ draft.refs = refs
      BY DEF NewDraft, Row, Statuses
    <2>2. n + 1 \in Nat
      <3>1. Cardinality(Allocations) \in Nat
        BY FS_CardinalityType, LifecycleAssumption
      <3> QED
        BY <3>1
    <2> QED
      BY <2>1, <2>2 DEF Row
  <1>3. Belongs(new)
    <2>1. {"department", "program"} \subseteq DOMAIN refs
      BY DEF References
    <2> QED
      BY <1>2, <2>1 DEF Create, ReferencesValid, Belongs
  <1>4. Creates(a, new)
    BY <1>1, <1>2, <1>3 DEF Create, Creates, Writes, Exists
  <1> QED
    BY <1>2, <1>4 DEF RowStep

LEMMA UpdateIs ==
  ASSUME LifecycleTypeOK, NEW user \in Users, NEW a \in Allocations,
         NEW refs \in References, NEW amount \in Amounts \cup {0}, Update(user, a, refs, amount)
  PROVE  \E new \in Row : RowStep(a, new)
  <1> DEFINE old == alloc[a]
             changed == ChangedReferences(old.refs, refs)
  <1> PICK new : new = Edited(old, changed, refs, amount)
    OBVIOUS
  <1>1. old \in Row /\ old.refs \in References /\ old.amount \in Amounts
    BY RowOf DEF Update, Live
  <1>2. new.refs = refs
    <2>1. new.refs = [f \in DOMAIN old.refs |-> IF f \in changed THEN refs[f] ELSE old.refs[f]]
      BY <1>1 DEF Edited, Row
    <2>2. DOMAIN old.refs = DOMAIN refs
      BY <1>1 DEF References
    <2>3. \A f \in DOMAIN refs : (IF f \in changed THEN refs[f] ELSE old.refs[f]) = refs[f]
      BY DEF ChangedReferences
    <2>4. refs = [f \in DOMAIN refs |-> refs[f]]
      BY DEF References
    <2> QED
      BY <2>1, <2>2, <2>3, <2>4
  <1>3. /\ new.status = old.status /\ new.fiscalYear = old.fiscalYear /\ new.deleted = old.deleted
        /\ new.amount = IF amount = 0 THEN old.amount ELSE amount
        /\ new \in Row
    <2>1. [f \in DOMAIN old.refs |-> IF f \in changed THEN refs[f] ELSE old.refs[f]] \in References
      BY <1>1, <1>2 DEF Edited, Row
    <2> QED
      BY <1>1, <2>1 DEF Edited, Row
  <1>4. changed = {} => refs = old.refs
    BY <1>1 DEF ChangedReferences, References
  <1>5. \/ new.refs.department = old.refs.department /\ new.refs.program = old.refs.program
        \/ Belongs(new)
    <2>1. CASE changed \cap {"department", "program"} = {}
      <3>1. "department" \in DOMAIN refs /\ "program" \in DOMAIN refs
        BY DEF References
      <3>2. refs["department"] = old.refs["department"] /\ refs["program"] = old.refs["program"]
        BY <2>1, <3>1 DEF ChangedReferences
      <3> QED
        BY <1>2, <3>2
    <2>2. CASE changed \cap {"department", "program"} # {}
      <3>1. {"department", "program"} \subseteq FieldsToValidate(changed)
        BY <2>2 DEF FieldsToValidate
      <3> QED
        BY <1>2, <3>1 DEF Update, ReferencesValid, Belongs
    <2> QED
      BY <2>1, <2>2
  <1>6. changed # {} => ~DuplicateExists(alloc, old.fiscalYear, refs, {a})
    BY DEF Update
  <1>7. /\ Live(alloc, a) /\ old.status = "Draft"
        /\ alloc' = [alloc EXCEPT ![a] = new]
        /\ UNCHANGED <<history, recorded, year, master>>
    BY DEF Update
  <1>8. Edits(a, new)
    BY <1>2, <1>3, <1>4, <1>5, <1>6, <1>7 DEF Edits, Writes, Live
  <1> QED
    BY <1>3, <1>8 DEF RowStep

LEMMA DeleteIs ==
  ASSUME LifecycleTypeOK, NEW user \in Users, NEW a \in Allocations, Delete(user, a)
  PROVE  \E new \in Row : RowStep(a, new)
  <1> PICK new : new = [alloc[a] EXCEPT !.deleted = TRUE]
    OBVIOUS
  <1>1. alloc[a] \in Row
    BY RowOf DEF Delete, Live
  <1>2. /\ new \in Row /\ Same(new, alloc[a]) /\ new.status = alloc[a].status /\ new.deleted
    BY <1>1 DEF Row, Same
  <1>3. Deletes(a, new)
    BY <1>2 DEF Delete, Deletes, Writes
  <1> QED
    BY <1>2, <1>3 DEF RowStep

LEMMA TransitionedIsRow ==
  ASSUME NEW row \in Row, NEW op, NEW target \in Statuses, NEW user \in Users,
         NEW new, new = Transitioned(row, op, target, user)
  PROVE  new \in Row /\ Same(new, row) /\ new.status = target /\ new.deleted = row.deleted
  BY DEF Transitioned, Row, Same

LEMMA TransitionsAreStatuses ==
  ASSUME NEW s \in Statuses
  PROVE  AllowedTransitions[s] \subseteq Statuses
  BY DEF AllowedTransitions, Statuses

LEMMA DecideIs ==
  ASSUME LifecycleTypeOK, NEW user \in Users, NEW a \in Allocations,
         NEW op \in ReviewOperations, Decide(user, a, op)
  PROVE  \E new \in Row : RowStep(a, new)
  <1> PICK new : new = Transitioned(alloc[a], op, TargetStatus[op], user)
    OBVIOUS
  <1>1. Live(alloc, a) /\ alloc[a] \in Row /\ alloc[a].status \in Statuses
    BY RowOf DEF Decide, Live
  <1>2. TargetStatus[op] \in AllowedTransitions[alloc[a].status]
    BY DEF Decide
  <1>3. TargetStatus[op] \in Statuses
    BY <1>1, <1>2, TransitionsAreStatuses
  <1>4. /\ new \in Row /\ Same(new, alloc[a])
        /\ new.status = TargetStatus[op] /\ new.deleted = alloc[a].deleted
    BY <1>1, <1>3, TransitionedIsRow
  <1>5. new.status = "Approved" => FitsCeiling(new.fiscalYear, new.amount)
    <2>1. TargetStatus[op] = "Approved" => op = "approve"
      BY DEF TargetStatus, ReviewOperations, HistoryAction
    <2> QED
      BY <1>4, <2>1 DEF Decide, Same
  <1>6. Decides(a, new, op, user)
    BY <1>1, <1>2, <1>4, <1>5 DEF Decide, Decides, Passes, Writes, Live
  <1> QED
    BY <1>4, <1>6 DEF RowStep

LEMMA TransitionIs ==
  ASSUME LifecycleTypeOK, NEW user \in Users, NEW a \in Allocations,
         NEW target \in SeamTargets, Transition(user, a, target)
  PROVE  \E new \in Row : RowStep(a, new)
  <1> PICK new : new = Transitioned(alloc[a], "transition", target, user)
    OBVIOUS
  <1>1. Live(alloc, a) /\ alloc[a] \in Row /\ alloc[a].status \in Statuses
    BY RowOf DEF Transition, Live
  <1>2. target \in AllowedTransitions[alloc[a].status]
    BY DEF Transition
  <1>3. target \in Statuses
    BY <1>1, <1>2, TransitionsAreStatuses
  <1>4. new \in Row /\ Same(new, alloc[a]) /\ new.status = target /\ new.deleted = alloc[a].deleted
    BY <1>1, <1>3, TransitionedIsRow
  <1>5. Transits(a, new)
    BY <1>1, <1>2, <1>4 DEF Transition, Transits, Passes, Writes, Live, Same
  <1> QED
    BY <1>4, <1>5 DEF RowStep

LEMMA StepIs ==
  ASSUME LifecycleTypeOK, [Next]_vars
  PROVE  OtherStep \/ \E a \in Allocations, new \in Row : RowStep(a, new)
  <1>1. CASE UNCHANGED vars
    BY <1>1 DEF OtherStep, vars, LifecycleTypeOK
  <1>2. ASSUME NEW user \in Users, NEW y \in FiscalYears, NEW refs \in References,
               NEW amount \in Amounts, Create(user, y, refs, amount)
        PROVE  \E a \in Allocations, new \in Row : RowStep(a, new)
    BY <1>2, CreateIs
  <1>3. ASSUME NEW user \in Users, NEW a \in Allocations, NEW refs \in References,
               NEW amount \in Amounts \cup {0}, Update(user, a, refs, amount)
        PROVE  \E new \in Row : RowStep(a, new)
    BY <1>3, UpdateIs
  <1>4. ASSUME NEW user \in Users, NEW a \in Allocations, Delete(user, a)
        PROVE  \E new \in Row : RowStep(a, new)
    BY <1>4, DeleteIs
  <1>5. ASSUME NEW user \in Users, NEW a \in Allocations, NEW op \in ReviewOperations,
               Decide(user, a, op)
        PROVE  \E new \in Row : RowStep(a, new)
    BY <1>5, DecideIs
  <1>6. ASSUME NEW user \in Users, NEW a \in Allocations, NEW target \in SeamTargets,
               Transition(user, a, target)
        PROVE  \E new \in Row : RowStep(a, new)
    BY <1>6, TransitionIs
  <1>7. ASSUME NEW y \in FiscalYears, NEW row \in FiscalYearRow, ChangeFiscalYear(y, row)
        PROVE  OtherStep
    BY <1>7 DEF ChangeFiscalYear, OtherStep, LifecycleTypeOK
  <1>8. ASSUME NEW e \in Entities, ToggleEntity(e)
        PROVE  OtherStep
    BY <1>8 DEF ToggleEntity, OtherStep, LifecycleTypeOK, MasterData, SymDiff
  <1>9. ASSUME NEW p \in Programs, NEW d \in Departments, MoveProgram(p, d)
        PROVE  OtherStep
    BY <1>9 DEF MoveProgram, OtherStep, LifecycleTypeOK, MasterData
  <1> QED
    BY <1>1, <1>2, <1>3, <1>4, <1>5, <1>6, <1>7, <1>8, <1>9 DEF Next

\* Every row step writes one row and leaves fiscal years and master data alone.
LEMMA RowStepWrites ==
  ASSUME LifecycleTypeOK, NEW a \in Allocations, NEW new \in Row, RowStep(a, new)
  PROVE  /\ Writes(a, new)
         /\ alloc'[a] = new
         /\ \A b \in Allocations \ {a} : alloc'[b] = alloc[b]
  <1>1. Writes(a, new)
    BY DEF RowStep, Creates, Edits, Deletes, Decides, Transits, Passes
  <1> QED
    BY <1>1 DEF Writes, LifecycleTypeOK

-----------------------------------------------------------------------------
(* Types. *)

LEMMA TypesStay ==
  ASSUME LifecycleTypeOK, [Next]_vars
  PROVE  LifecycleTypeOK'
  <1>1. CASE OtherStep
    BY <1>1 DEF OtherStep, LifecycleTypeOK
  <1>2. ASSUME NEW a \in Allocations, NEW new \in Row, RowStep(a, new)
        PROVE  LifecycleTypeOK'
    <2>1. /\ alloc' \in [Allocations -> Row \cup {None}]
          /\ UNCHANGED <<year, master>>
      BY <1>2, RowStepWrites DEF Writes, LifecycleTypeOK
    <2>2. CASE UNCHANGED <<history, recorded>>
      BY <2>1, <2>2 DEF LifecycleTypeOK
    <2>3. ASSUME NEW op \in ReviewOperations, NEW user \in Users, Decides(a, new, op, user)
          PROVE  LifecycleTypeOK'
      <3> PICK entry : entry = [action |-> HistoryAction[op], actor |-> user]
        OBVIOUS
      <3>1. entry \in HistoryEntry
        BY DEF HistoryEntry, HistoryAction, ReviewOperations
      <3>2. Append(history[a], entry) \in Seq(HistoryEntry)
        BY <3>1 DEF LifecycleTypeOK
      <3>3. history' \in [Allocations -> Seq(HistoryEntry)]
        BY <2>3, <3>2 DEF Decides, LifecycleTypeOK
      <3>4. recorded' \in [Allocations -> Row \cup {None}]
        BY <2>3 DEF Decides, LifecycleTypeOK
      <3> QED
        BY <2>1, <3>3, <3>4 DEF LifecycleTypeOK
    <2> QED
      BY <1>2, <2>2, <2>3 DEF RowStep, Creates, Edits, Deletes, Transits
  <1> QED
    BY <1>1, <1>2, StepIs

\* The tables of the life cycle keep their types, for any number of rows.
THEOREM LifecycleTyped == Spec => []LifecycleTypeOK
  <1>1. Init => LifecycleTypeOK
    <2> SUFFICES ASSUME Init
                 PROVE  LifecycleTypeOK
      OBVIOUS
    <2>1. /\ alloc \in [Allocations -> Row \cup {None}]
          /\ recorded \in [Allocations -> Row \cup {None}]
          /\ history \in [Allocations -> Seq(HistoryEntry)]
      BY DEF Init
    <2>2. year \in [FiscalYears -> FiscalYearRow]
      BY DEF Init, FiscalYearRow
    <2>3. master \in MasterData
      BY DataAssumption DEF Init, MasterData, FirstMasterData
    <2> QED
      BY <2>1, <2>2, <2>3 DEF LifecycleTypeOK
  <1> QED
    BY <1>1, TypesStay, PTL DEF Spec

-----------------------------------------------------------------------------
(* Decisions and the ledger. *)

StatusAfter(action) ==
  CHOOSE s \in Statuses :
    \E op \in ReviewOperations : HistoryAction[op] = action /\ TargetStatus[op] = s

\* No two decisions are written down alike, so an entry tells the status.
LEMMA EntryTellsStatus ==
  ASSUME NEW op \in ReviewOperations
  PROVE  StatusAfter(HistoryAction[op]) = TargetStatus[op]
  <1>1. \A o \in ReviewOperations : HistoryAction[o] = HistoryAction[op] => o = op
    BY DEF ReviewOperations, HistoryAction
  <1>2. TargetStatus[op] \in Statuses
    BY DEF TargetStatus, Statuses, ReviewOperations, HistoryAction
  <1>3. \A s \in Statuses :
          (\E o \in ReviewOperations : HistoryAction[o] = HistoryAction[op] /\ TargetStatus[o] = s)
            <=> s = TargetStatus[op]
    BY <1>1
  <1> QED
    BY <1>2, <1>3 DEF StatusAfter

\* What the decisions h say of the status of an allocation.
StatusTold(h) == IF Len(h) = 0 THEN "Draft" ELSE StatusAfter(h[Len(h)].action)

LEMMA HistoryRestated ==
  HistoryExplainsStatus <=>
    \A a \in Allocations :
      Exists(alloc, a) /\ alloc[a].status # "Archived" => alloc[a].status = StatusTold(history[a])
  BY Zenon DEF HistoryExplainsStatus, StatusTold, StatusAfter

NoHistoryWithoutRow ==
  \A a \in Allocations : ~Exists(alloc, a) => history[a] = <<>>

(* By themselves neither of the two properties is inductive: a create must *)
(* not find decisions on a row that was not there.                         *)
Accounts == NoHistoryWithoutRow /\ HistoryExplainsStatus /\ ApprovedAsRecorded

LEMMA AccountsStay ==
  ASSUME SeamTargets \subseteq {"Archived"}, LifecycleTypeOK, Accounts, [Next]_vars
  PROVE  Accounts'
  <1>1. CASE OtherStep
    BY <1>1 DEF OtherStep, Accounts, NoHistoryWithoutRow, HistoryExplainsStatus,
                ApprovedAsRecorded, Exists, Live
  <1>2. ASSUME NEW a \in Allocations, NEW new \in Row, RowStep(a, new)
        PROVE  Accounts'
    <2>1. /\ alloc'[a] = new /\ new # None
          /\ \A b \in Allocations \ {a} : alloc'[b] = alloc[b]
      BY <1>2, RowStepWrites, LifecycleAssumption
    <2>2. \A b \in Allocations \ {a} : history'[b] = history[b] /\ recorded'[b] = recorded[b]
      BY <1>2 DEF RowStep, Creates, Edits, Deletes, Decides, Transits, LifecycleTypeOK
    <2>3. /\ new.status # "Archived" => new.status = StatusTold(history'[a])
          /\ ~new.deleted /\ new.status = "Approved" => recorded'[a] = new
      <3>1. CASE Creates(a, new)
        <4>1. history'[a] = <<>>
          BY <3>1 DEF Creates, Accounts, NoHistoryWithoutRow, Exists
        <4> QED
          BY <3>1, <4>1 DEF Creates, StatusTold
      <3>2. CASE Edits(a, new)
        BY <3>2, HistoryRestated DEF Edits, Live, Accounts
      <3>3. CASE Deletes(a, new)
        BY <3>3, HistoryRestated DEF Deletes, Live, Accounts
      <3>4. ASSUME NEW op \in ReviewOperations, NEW user \in Users, Decides(a, new, op, user)
            PROVE  /\ new.status = StatusTold(history'[a])
                   /\ new.status = "Approved" => recorded'[a] = new
        <4> PICK entry : entry = [action |-> HistoryAction[op], actor |-> user]
          OBVIOUS
        <4>1. entry \in HistoryEntry /\ entry.action = HistoryAction[op]
          BY DEF HistoryEntry, HistoryAction, ReviewOperations
        <4>2. history'[a] = Append(history[a], entry) /\ history[a] \in Seq(HistoryEntry)
          BY <3>4 DEF Decides, LifecycleTypeOK
        <4>3. Len(history'[a]) # 0 /\ history'[a][Len(history'[a])] = entry
          BY <4>1, <4>2
        <4>4. StatusTold(history'[a]) = TargetStatus[op]
          BY <4>1, <4>3, EntryTellsStatus DEF StatusTold
        <4>5. TargetStatus[op] = "Approved" => op = "approve"
          BY DEF TargetStatus, ReviewOperations, HistoryAction
        <4> QED
          BY <3>4, <4>4, <4>5 DEF Decides, LifecycleTypeOK
      <3>5. CASE Transits(a, new)
        BY <3>5 DEF Transits
      <3> QED
        BY <1>2, <3>1, <3>2, <3>3, <3>4, <3>5 DEF RowStep
    <2>4. NoHistoryWithoutRow'
      BY <2>1, <2>2 DEF Accounts, NoHistoryWithoutRow, Exists
    <2>5. HistoryExplainsStatus'
      <3>1. \A b \in Allocations :
              alloc'[b] # None /\ alloc'[b].status # "Archived"
                => alloc'[b].status = StatusTold(history'[b])
        BY <2>1, <2>2, <2>3, HistoryRestated DEF Accounts, Exists
      <3> QED
        BY <3>1, Zenon DEF HistoryExplainsStatus, StatusTold, StatusAfter, Exists
    <2>6. ApprovedAsRecorded'
      BY <2>1, <2>2, <2>3 DEF Accounts, ApprovedAsRecorded, Live, Exists
    <2> QED
      BY <2>4, <2>5, <2>6 DEF Accounts
  <1> QED
    BY <1>1, <1>2, StepIs

\* Status, history and ledger record agree for ever, and only rows that exist
\* have a history: transitionStatus, which writes no history, is to archive only.
THEOREM AccountsKept ==
  ASSUME SeamTargets \subseteq {"Archived"}
  PROVE  Spec => []Accounts
  <1>1. Init => Accounts
    BY DEF Init, Accounts, NoHistoryWithoutRow, HistoryExplainsStatus, ApprovedAsRecorded,
           Exists, Live
  <1>2. LifecycleTypeOK /\ Accounts /\ [Next]_vars => Accounts'
    BY AccountsStay
  <1> QED
    BY <1>1, <1>2, LifecycleTyped, PTL DEF Spec

\* The approval history alone tells the status of an allocation that is not
\* archived, provided transitionStatus is asked only to archive: then every
\* other change of status leaves its entry.
THEOREM HistoryTellsStatus ==
  ASSUME SeamTargets \subseteq {"Archived"}
  PROVE  Spec => []HistoryExplainsStatus
  <1>1. Accounts => HistoryExplainsStatus
    BY DEF Accounts
  <1> QED
    BY <1>1, AccountsKept, PTL

\* An approved allocation stays as the ledger has it: no operation edits it
\* and none approves without recording, under the same proviso.
THEOREM ApprovedStaysRecorded ==
  ASSUME SeamTargets \subseteq {"Archived"}
  PROVE  Spec => []ApprovedAsRecorded
  <1>1. Accounts => ApprovedAsRecorded
    BY DEF Accounts
  <1> QED
    BY <1>1, AccountsKept, PTL

-----------------------------------------------------------------------------
(* What a step may never do. *)

LEMMA StepFiles ==
  ASSUME LifecycleTypeOK, [Next]_vars, NEW a \in Allocations, Exists(alloc', a),
         Exists(alloc, a) => Filed(alloc, a) # Filed(alloc', a)
  PROVE  master'.department[alloc'[a].refs.program] = alloc'[a].refs.department
  <1>1. CASE OtherStep
    BY <1>1 DEF OtherStep, Exists, Filed
  <1>2. ASSUME NEW b \in Allocations, NEW new \in Row, RowStep(b, new)
        PROVE  master'.department[alloc'[a].refs.program] = alloc'[a].refs.department
    <2>1. /\ alloc'[b] = new /\ a = b /\ master' = master
      BY <1>2, RowStepWrites DEF Exists, Filed, Writes
    <2>2. Exists(alloc, a) => \/ new.refs.department # alloc[a].refs.department
                             \/ new.refs.program # alloc[a].refs.program
      BY <2>1 DEF Filed
    <2>3. Belongs(new)
      BY <1>2, <2>1, <2>2 DEF RowStep, Creates, Edits, Deletes, Decides, Transits, Passes,
                              Same, Live, Exists
    <2> QED
      BY <2>1, <2>3 DEF Belongs
  <1> QED
    BY <1>1, <1>2, StepIs

\* A create or an edit files an allocation under the department its program
\* belongs to, wherever programs have moved.
THEOREM FiledTogether == Spec => ProgramMatchesDepartment
  <1>1. LifecycleTypeOK /\ [Next]_vars =>
          [\A a \in Allocations :
             Exists(alloc', a) /\ (Exists(alloc, a) => Filed(alloc, a) # Filed(alloc', a))
               => master'.department[alloc'[a].refs.program] = alloc'[a].refs.department]_vars
    BY StepFiles
  <1> QED
    BY <1>1, LifecycleTyped, PTL DEF Spec, ProgramMatchesDepartment

\* A row counts for the combinations that must be unique.
Counts(table, a) == Live(table, a) /\ table[a].status \notin ExcludedStatuses

LEMMA ClashIs ==
  ASSUME NEW table, NEW a \in Allocations, NEW b \in Allocations
  PROVE  Clash(table, a, b) <=>
           /\ a # b /\ Counts(table, a) /\ Counts(table, b)
           /\ table[a].fiscalYear = table[b].fiscalYear /\ table[a].refs = table[b].refs
  BY DEF Clash, DuplicateExists, Counts

LEMMA NoDuplicateBeside ==
  ASSUME NEW table, NEW y, NEW refs, NEW except, ~DuplicateExists(table, y, refs, except),
         NEW b \in Allocations \ except, Counts(table, b)
  PROVE  ~(table[b].fiscalYear = y /\ table[b].refs = refs)
  BY DEF DuplicateExists, Counts

\* What a written row counts for it counted for before, unless a create or
\* an edit looked for duplicates or the row had been rejected.
LEMMA WrittenRowCounts ==
  ASSUME LifecycleTypeOK, NEW a \in Allocations, NEW new \in Row, RowStep(a, new),
         NEW b \in Allocations, a # b, Counts(alloc, b),
         ~new.deleted, new.status \notin ExcludedStatuses,
         new.fiscalYear = alloc[b].fiscalYear, new.refs = alloc[b].refs
  PROVE  \/ /\ Counts(alloc, a)
            /\ alloc[a].fiscalYear = new.fiscalYear /\ alloc[a].refs = new.refs
         \/ Exists(alloc, a) /\ alloc[a].status = "Rejected"
  <1>1. CASE Creates(a, new)
    BY <1>1, NoDuplicateBeside DEF Creates
  <1>2. CASE Edits(a, new)
    <2>1. new.refs = alloc[a].refs
      BY <1>2, NoDuplicateBeside DEF Edits
    <2> QED
      BY <1>2, <2>1 DEF Edits, Counts, ExcludedStatuses
  <1>3. CASE Deletes(a, new)
    BY <1>3 DEF Deletes
  <1>4. CASE Passes(a, new)
    <2>1. alloc[a].status \in Statuses /\ new.status \in AllowedTransitions[alloc[a].status]
      BY <1>4, RowOf DEF Passes, Live
    <2>2. alloc[a].status # "Archived"
      BY <2>1 DEF AllowedTransitions, Statuses
    <2> QED
      BY <1>4, <2>1, <2>2 DEF Passes, Counts, Same, Live, ExcludedStatuses
  <1> QED
    BY <1>1, <1>2, <1>3, <1>4 DEF RowStep, Decides, Transits

LEMMA StepDuplicates ==
  ASSUME LifecycleTypeOK, [Next]_vars, NEW a \in Allocations, NEW b \in Allocations,
         Clash(alloc', a, b), ~Clash(alloc, a, b)
  PROVE  \E c \in {a, b} : Exists(alloc, c) /\ alloc[c].status = "Rejected"
  <1>1. CASE OtherStep
    BY <1>1 DEF OtherStep
  <1>2. ASSUME NEW c \in Allocations, NEW new \in Row, RowStep(c, new)
        PROVE  \E d \in {a, b} : Exists(alloc, d) /\ alloc[d].status = "Rejected"
    <2>1. alloc'[c] = new /\ \A d \in Allocations \ {c} : alloc'[d] = alloc[d]
      BY <1>2, RowStepWrites
    <2>2. /\ a # b /\ Counts(alloc', a) /\ Counts(alloc', b)
          /\ alloc'[a].fiscalYear = alloc'[b].fiscalYear /\ alloc'[a].refs = alloc'[b].refs
      BY ClashIs
    <2>3. ~(/\ Counts(alloc, a) /\ Counts(alloc, b)
            /\ alloc[a].fiscalYear = alloc[b].fiscalYear /\ alloc[a].refs = alloc[b].refs)
      BY <2>2, ClashIs
    <2>4. CASE c = a
      <3>1. Counts(alloc, b) /\ alloc'[b] = alloc[b]
        BY <2>1, <2>2, <2>4 DEF Counts, Live, Exists
      <3> QED
        BY <1>2, <2>1, <2>2, <2>3, <2>4, <3>1, WrittenRowCounts DEF Counts, Live
    <2>5. CASE c = b
      <3>1. Counts(alloc, a) /\ alloc'[a] = alloc[a]
        BY <2>1, <2>2, <2>5 DEF Counts, Live, Exists
      <3> QED
        BY <1>2, <2>1, <2>2, <2>3, <2>5, <3>1, WrittenRowCounts DEF Counts, Live
    <2>6. CASE c \notin {a, b}
      BY <2>1, <2>2, <2>3, <2>6 DEF Counts, Live, Exists
    <2> QED
      BY <2>4, <2>5, <2>6
  <1> QED
    BY <1>1, <1>2, StepIs

\* The only way to two live allocations with one combination is to return a
\* rejected allocation: no create and no edit makes a duplicate.
THEOREM DuplicatesNeedReturn == Spec => DuplicatesOnlyByReturn
  <1>1. LifecycleTypeOK /\ [Next]_vars =>
          [\A a, b \in Allocations :
             Clash(alloc', a, b) /\ ~Clash(alloc, a, b) =>
               \E c \in {a, b} : Exists(alloc, c) /\ alloc[c].status = "Rejected"]_vars
    BY StepDuplicates
  <1> QED
    BY <1>1, LifecycleTyped, PTL DEF Spec, DuplicatesOnlyByReturn

-----------------------------------------------------------------------------
(* The ceiling. *)

LEMMA CommittedIsTotal ==
  ASSUME NEW table \in [Allocations -> Row \cup {None}], NEW y
  PROVE  /\ CommittedAmount(table, y) = Total(table, Committed(table, y))
         /\ IsFiniteSet(Committed(table, y))
         /\ Amounting(table, Committed(table, y))
         /\ CommittedAmount(table, y) \in Nat
  <1> DEFINE S == Committed(table, y)
  <1>1. CommittedAmount(table, y) = Total(table, S)
    BY Zenon DEF CommittedAmount, Total
  <1>2. S \in SUBSET Allocations
    BY DEF Committed
  <1>3. IsFiniteSet(S)
    BY <1>2, FS_Subset, LifecycleAssumption
  <1>4. ASSUME NEW a \in S
        PROVE  table[a].amount \in Nat
    <2>1. table[a] \in Row
      BY DEF Committed, Live, Exists
    <2> QED
      BY <2>1, DataAssumption DEF Row
  <1>5. Amounting(table, S)
    BY <1>4 DEF Amounting
  <1>6. Total(table, S) \in Nat
    BY <1>3, <1>5, TotalIsNat
  <1> QED
    BY <1>1, <1>3, <1>5, <1>6

(* Writing one row that is not approved already: if the approved total     *)
(* grows the row has joined it, with its amount.                           *)
LEMMA CommittedGrowth ==
  ASSUME NEW old \in [Allocations -> Row \cup {None}],
         NEW table \in [Allocations -> Row \cup {None}], NEW a \in Allocations, NEW y,
         \A b \in Allocations \ {a} : table[b] = old[b],
         a \in Committed(old, y) => a \notin Committed(table, y),
         CommittedAmount(table, y) > CommittedAmount(old, y)
  PROVE  /\ a \in Committed(table, y)
         /\ CommittedAmount(table, y) = table[a].amount + CommittedAmount(old, y)
  <1> DEFINE S == Committed(old, y)
             T == Committed(table, y)
  <1>1. /\ CommittedAmount(old, y) = Total(old, S) /\ CommittedAmount(old, y) \in Nat
        /\ IsFiniteSet(S) /\ Amounting(old, S)
    BY CommittedIsTotal
  <1>2. /\ CommittedAmount(table, y) = Total(table, T) /\ CommittedAmount(table, y) \in Nat
        /\ IsFiniteSet(T) /\ Amounting(table, T)
    BY CommittedIsTotal
  <1>3. \A b \in Allocations \ {a} : b \in S <=> b \in T
    BY DEF Committed, Live, Exists
  <1>4. S \subseteq Allocations /\ T \subseteq Allocations
    BY DEF Committed
  <1>5. S \ {a} = T \ {a}
    BY <1>3, <1>4
  <1>6. Total(old, S \ {a}) = Total(table, S \ {a})
    <2>1. IsFiniteSet(S \ {a}) /\ Amounting(old, S \ {a})
      BY <1>1, FS_RemoveElement DEF Amounting
    <2>2. \A b \in S \ {a} : old[b].amount = table[b].amount
      BY <1>4
    <2> HIDE DEF S
    <2> QED
      BY <2>1, <2>2, TotalOfSame
  <1> HIDE DEF S, T
  <1>7. CASE a \notin S /\ a \notin T
    <2>1. S \ {a} = S /\ T \ {a} = T
      BY <1>7
    <2> QED
      BY <1>1, <1>2, <1>5, <1>6, <2>1
  <1>8. CASE a \in S
    <2>1. T = S \ {a}
      BY <1>5, <1>8 DEF S, T
    <2>2. Total(old, S) = old[a].amount + Total(old, S \ {a})
      BY <1>1, <1>8, TotalWith
    <2>3. old[a].amount \in Nat
      BY <1>1, <1>8 DEF Amounting
    <2> QED
      BY <1>1, <1>2, <1>6, <2>1, <2>2, <2>3
  <1>9. CASE a \notin S /\ a \in T
    <2>1. S = T \ {a}
      BY <1>5, <1>9
    <2>2. Total(table, T) = table[a].amount + Total(table, T \ {a})
      BY <1>2, <1>9, TotalWith
    <2> QED
      BY <1>1, <1>2, <1>6, <1>9, <2>1, <2>2 DEF T
  <1> QED
    BY <1>7, <1>8, <1>9

LEMMA StepGrows ==
  ASSUME LifecycleTypeOK, [Next]_vars, NEW y \in FiscalYears,
         CommittedAmount(alloc', y) > CommittedAmount(alloc, y)
  PROVE  CommittedAmount(alloc', y) <= year'[y].budget
  <1>1. alloc \in [Allocations -> Row \cup {None}] /\ alloc' \in [Allocations -> Row \cup {None}]
    BY TypesStay DEF LifecycleTypeOK
  <1>2. CASE OtherStep
    <2>1. CommittedAmount(alloc', y) = CommittedAmount(alloc, y) /\ CommittedAmount(alloc, y) \in Nat
      BY <1>1, <1>2, CommittedIsTotal, Zenon DEF OtherStep
    <2> QED
      BY <2>1
  <1>3. ASSUME NEW a \in Allocations, NEW new \in Row, RowStep(a, new)
        PROVE  CommittedAmount(alloc', y) <= year'[y].budget
    <2> PICK table : table = alloc'
      OBVIOUS
    <2>1. /\ table[a] = new /\ \A b \in Allocations \ {a} : table[b] = alloc[b]
          /\ UNCHANGED year
      BY <1>3, RowStepWrites DEF Writes
    <2>2. a \in Committed(alloc, y) => a \notin Committed(table, y)
      <3>1. CASE Live(alloc, a) /\ alloc[a].status = "Approved"
        <4>1. new.deleted \/ new.status # "Approved"
          BY <1>3, <3>1 DEF RowStep, Creates, Edits, Deletes, Decides, Transits, Passes,
                            AllowedTransitions, Statuses, Live, Exists
        <4> QED
          BY <2>1, <4>1 DEF Committed, Live
      <3> QED
        BY <3>1 DEF Committed
    <2>3. /\ a \in Committed(table, y)
          /\ CommittedAmount(table, y) = new.amount + CommittedAmount(alloc, y)
      BY <1>1, <2>1, <2>2, CommittedGrowth
    <2>4. ~new.deleted /\ new.status = "Approved" /\ new.fiscalYear = y
      BY <2>1, <2>3 DEF Committed, Live
    <2>5. FitsCeiling(y, new.amount)
      <3>1. a \notin Committed(alloc, y)
        BY <2>2, <2>3
      <3> QED
        BY <1>3, <2>4, <3>1 DEF RowStep, Creates, Edits, Deletes, Decides, Transits, Passes,
                                Committed, Same
    <2>6. year[y].budget \in Nat /\ CommittedAmount(alloc, y) \in Nat /\ new.amount \in Nat
      <3>1. CommittedAmount(alloc, y) \in Nat
        BY <1>1, CommittedIsTotal
      <3>2. year[y].budget \in Nat /\ new.amount \in Nat
        BY DataAssumption DEF LifecycleTypeOK, FiscalYearRow, Row
      <3> QED
        BY <3>1, <3>2
    <2> QED
      BY <2>1, <2>3, <2>5, <2>6 DEF FitsCeiling
  <1> QED
    BY <1>2, <1>3, StepIs

\* The approved total of a fiscal year grows only within the ceiling the year
\* has at that moment, for any number of allocations and any amounts.
THEOREM GrowthWithinBudget == Spec => GrowsWithinBudget
  <1>1. LifecycleTypeOK /\ [Next]_vars =>
          [\A y \in FiscalYears :
             CommittedAmount(alloc', y) > CommittedAmount(alloc, y)
               => CommittedAmount(alloc', y) <= year'[y].budget]_vars
    BY StepGrows
  <1> QED
    BY <1>1, LifecycleTyped, PTL DEF Spec, GrowsWithinBudget
=============================================================================
