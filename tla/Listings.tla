-------------------------------- MODULE Listings --------------------------------
(***************************************************************************)
(* The two listings that merge tables: timelineService.getTimeline and     *)
(* blockchainHistoryService.getHistory.  Both read all their sources anew  *)
(* for every page and cut the page out of the union, while other requests  *)
(* add entries.                                                            *)
(*                                                                         *)
(* Entries are what their createdAt tells apart; it is taken before the    *)
(* entry can be read, so an older entry may appear after a younger one.    *)
(* Filters and the other orders are left out.                              *)
(***************************************************************************)
EXTENDS Handlers

CONSTANTS
  Whole,     \* sources that are read whole: approvals, activities, versions
  Limited,   \* sources read by a findMany without a page: auditLogs, records
  Times,     \* values of createdAt
  PageSize,  \* limit
  Take       \* the default limit of the findMany of a repository

Sources == Whole \cup Limited

ASSUME ListingsAssumption ==
  /\ "records" \in Limited /\ Whole \cap Limited = {}
  /\ IsFiniteSet(Times) /\ Times \subseteq Nat
  /\ PageSize \in Nat \ {0}
  /\ Take \in Nat \ {0}

VARIABLES
  entry,       \* the source of the entry of each time
  superseded,  \* ledger records that are not current any more
  reader       \* a user who goes through the pages

listingVars == <<entry, superseded, reader>>

(* view: the answers of the queries for the page; start: the entries there *)
(* were when the reader began; seen: those of its pages; gone: those that  *)
(* were superseded in between.                                             *)
Readers ==
  [page: Nat, step: {"loading", "shown", "end"},
   view: [Sources -> {None} \cup SUBSET Times],
   start: SUBSET Times, seen: SUBSET Times, gone: SUBSET Times]

ASSUME ListingsNoneAssumption ==
  /\ None \notin Sources /\ None \notin Readers
  /\ \A S \in SUBSET Times : S # None

ListingsTypeOK ==
  /\ entry \in [Times -> Sources \cup {None}]
  /\ superseded \in SUBSET Times
  /\ reader \in Readers \cup {None}

ListingsInit ==
  /\ entry = [t \in Times |-> None]
  /\ superseded = {}
  /\ reader = None

Shown(s) == {t \in Times : entry[t] = s /\ t \notin superseded}

Younger(t, S) == Cardinality({u \in S : u > t})

Newest(n, S) == {t \in S : Younger(t, S) < n}

\* Mutation: every source is read through a findMany with its default limit.
FetchedByDefault(s) == Newest(Take, Shown(s))

(* Audit entries and ledger records are read through the findMany of their *)
(* repositories, which takes the newest ten when it is given no page.      *)
Fetched(s) == IF s \in Limited THEN Newest(Take, Shown(s)) ELSE Shown(s)

-----------------------------------------------------------------------------
(* The reader. *)

OpenListing ==
  /\ reader = None
  /\ Request
  /\ reader' = [page |-> 1, step |-> "loading", view |-> [s \in Sources |-> None],
                start |-> UNION {Shown(s) : s \in Sources}, seen |-> {}, gone |-> {}]
  /\ UNCHANGED <<entry, superseded>>

NextPage ==
  /\ At(reader, "shown")
  /\ Request
  /\ reader' = [reader EXCEPT !.page = @ + 1, !.step = "loading",
                              !.view = [s \in Sources |-> None]]
  /\ UNCHANGED <<entry, superseded>>

\* One of the queries of Promise.all.
Load(s) ==
  /\ At(reader, "loading")
  /\ reader.view[s] = None
  /\ reader' = [reader EXCEPT !.view[s] = Fetched(s)]
  /\ UNCHANGED <<entry, superseded, handlerVars>>

\* The page of the merged entries, newest first, and whether it is the last.
ShowPage ==
  /\ At(reader, "loading")
  /\ \A s \in Sources : reader.view[s] # None
  /\ LET entries == UNION {reader.view[s] : s \in Sources}
         items == Newest(reader.page * PageSize, entries)
                    \ Newest((reader.page - 1) * PageSize, entries)
     IN reader' = [reader EXCEPT
          !.seen = @ \cup items,
          !.step = IF Cardinality(entries) <= reader.page * PageSize THEN "end" ELSE "shown"]
  /\ UNCHANGED <<entry, superseded, handlerVars>>

\* A query fails and the page with it; the reader asks for it again.
FailPage ==
  /\ Fault
  /\ At(reader, "loading")
  /\ reader' = [reader EXCEPT !.page = @ - 1, !.step = "shown"]
  /\ UNCHANGED <<entry, superseded>>

-----------------------------------------------------------------------------
(* The other requests. *)

Add(t, s) ==
  /\ entry[t] = None
  /\ entry' = [entry EXCEPT ![t] = s]
  /\ UNCHANGED <<superseded, reader, handlerVars>>

\* createCurrent supersedes the record of an earlier content.
Supersede(t) ==
  /\ t \in Shown("records")
  /\ superseded' = superseded \cup {t}
  /\ reader' = IF reader = None THEN None ELSE [reader EXCEPT !.gone = @ \cup {t}]
  /\ UNCHANGED <<entry, handlerVars>>

ListingsNext ==
  \/ OpenListing \/ NextPage \/ ShowPage \/ FailPage
  \/ \E s \in Sources : Load(s)
  \/ \E t \in Times : Supersede(t) \/ \E s \in Sources : Add(t, s)

ListingsSpec == HandlersInit /\ ListingsInit /\ [][ListingsNext]_<<listingVars, handlerVars>>

-----------------------------------------------------------------------------
(* Properties. *)

(* Whoever has gone through all pages has seen every entry there was at    *)
(* the first: entries that are added move the others to later pages, never *)
(* to earlier ones.  Missing are only those that the default limit of      *)
(* their source cuts off, and those that moved up because an entry as      *)
(* young as they are was superseded meanwhile.                             *)
PagesCoverTheStart ==
  At(reader, "end") =>
    \A t \in reader.start \ reader.seen :
      \/ \E u \in reader.gone : u >= t
      \/ /\ entry[t] \in Limited
         /\ Younger(t, {u \in Times : entry[u] = entry[t]}) >= Take
=============================================================================
