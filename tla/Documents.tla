------------------------------- MODULE Documents -------------------------------
(***************************************************************************)
(* Documents and their versions: documentService, documentRepository and   *)
(* the local driver of documentStorageService.                             *)
(*                                                                         *)
(* A file is what its SHA-256 tells apart.  Bytes go to the storage first, *)
(* under a key made for the request, and into the database afterwards;     *)
(* when the database refuses them, the handler removes them again.         *)
(* Titles, references, owners and MIME types are left out: no property     *)
(* tells them apart, and a request that fails on them changes nothing.     *)
(* What anchorVersion does to a new version is in RowAnchoring.            *)
(***************************************************************************)
EXTENDS Handlers, Sequences, FiniteSetsExt

CONSTANTS
  Docs,         \* identities of documents
  Files,        \* contents, by SHA-256
  Prefixes,     \* code prefixes: <<>> is DOC, <<y>> is DOC-y of a fiscal year
  MaxVersions   \* maxVersions of the configuration

ASSUME DocumentsAssumption ==
  /\ MaxVersions \in Nat \ {0}
  /\ \A p \in Prefixes : p \in Seq(Nat) /\ Len(p) <= 1

VARIABLES
  document,     \* managed_documents
  version,      \* document_versions by sha256Hash, which is unique
  blobs,        \* storage keys of the stored files
  activity,     \* requests whose document_activities row exists
  docCall,      \* the handlers in flight
  interrupted,  \* requests that a fault stopped half-way, for the properties
  unanswered    \* requests whose commit was not answered, for the properties

ghosts == <<interrupted, unanswered>>

documentVars == <<document, version, blobs, activity, docCall, ghosts>>

\* The storage key of a request, which randomUUID makes unique.
Keys == 1..MaxRequests

(* A code is its prefix and a sequence number.  Archived and deletedAt are *)
(* set by one write and never cleared, so the status stands for both.      *)
DocumentRows == [status: {"Active", "Archived"}, code: Seq(Nat), current: Files]

VersionRows == [doc: Docs, number: Nat, key: Keys]

(* file and prefix are the request's own, key its storage key; edits and   *)
(* archivings have no file.                                                *)
DocumentCalls ==
  [op: {"upload", "replace", "edit", "archive"},
   step: {"store", "dedupe", "insert", "write", "activity", "cleanup"},
   doc: Docs, file: Files \cup {None}, prefix: Prefixes \cup {None}, key: Keys]

ASSUME DocumentsNoneAssumption ==
  /\ None \notin DocumentRows /\ None \notin VersionRows
  /\ None \notin DocumentCalls /\ None \notin Files /\ None \notin Prefixes

DocumentsTypeOK ==
  /\ document \in [Docs -> DocumentRows \cup {None}]
  /\ version \in [Files -> VersionRows \cup {None}]
  /\ blobs \in SUBSET Keys
  /\ activity \in SUBSET Keys
  /\ docCall \in [Jobs -> DocumentCalls \cup {None}]
  /\ interrupted \in SUBSET Keys
  /\ unanswered \in SUBSET Keys

DocumentsInit ==
  /\ document = [d \in Docs |-> None]
  /\ version = [f \in Files |-> None]
  /\ blobs = {}
  /\ activity = {}
  /\ docCall = [j \in Jobs |-> None]
  /\ interrupted = {}
  /\ unanswered = {}

-----------------------------------------------------------------------------
(* Queries. *)

VersionsOf(d) == {f \in Files : version[f] # None /\ version[f].doc = d}

\* replaceCurrentVersion: one more than the highest version number.
NextNumber(d) == 1 + Max({0} \cup {version[f].number : f \in VersionsOf(d)})

Live(d) == document[d] # None /\ document[d].status = "Active"

StartsWith(code, prefix) ==
  Len(code) > Len(prefix) /\ SubSeq(code, 1, Len(prefix)) = prefix

\* Mutation: deleted documents are left out, as in the other queries.
SequencesOfLive(prefix) ==
  {document[d].code[Len(prefix) + 1] :
     d \in {e \in Docs : Live(e) /\ StartsWith(document[e].code, prefix)}}

(* The number after the prefix, of deleted documents too.  For the bare    *)
(* prefix, parseInt reads the year of a code like DOC-2026-0001.           *)
Sequences(prefix) ==
  {document[d].code[Len(prefix) + 1] :
     d \in {e \in Docs : document[e] # None /\ StartsWith(document[e].code, prefix)}}

NextCode(prefix) == Append(prefix, 1 + Max({0} \cup Sequences(prefix)))

-----------------------------------------------------------------------------
(* Requests.  The document is read and checked before the first await that *)
(* changes anything; nothing holds the row afterwards.                     *)

Call(op, step, d, f, prefix) ==
  [op |-> op, step |-> step, doc |-> d, file |-> f, prefix |-> prefix, key |-> requests + 1]

Begin(j, call) ==
  /\ docCall[j] = None
  /\ Request
  /\ docCall' = Set(docCall, j, call)
  /\ UNCHANGED <<document, version, blobs, activity, ghosts>>

\* d is the identity the document will get.
Upload(j, d, f, prefix) ==
  /\ document[d] = None
  /\ \A i \in Jobs : docCall[i] # None => docCall[i].doc # d
  /\ Begin(j, Call("upload", "store", d, f, prefix))

\* Mutation: the limit is checked for the versions there are.
ReplaceAtLimit(j, d, f) ==
  /\ Live(d)
  /\ Cardinality(VersionsOf(d)) <= MaxVersions
  /\ Begin(j, Call("replace", "store", d, f, None))

Replace(j, d, f) ==
  /\ Live(d)
  /\ Cardinality(VersionsOf(d)) < MaxVersions
  /\ Begin(j, Call("replace", "store", d, f, None))

Edit(j, d) ==
  /\ Live(d)
  /\ Begin(j, Call("edit", "write", d, None, None))

Archive(j, d) ==
  /\ Live(d)
  /\ Begin(j, Call("archive", "write", d, None, None))

-----------------------------------------------------------------------------
(* The awaits of a handler. *)

StoreStream(j) ==
  /\ At(docCall[j], "store")
  /\ blobs' = blobs \cup {docCall[j].key}
  /\ docCall' = Moved(docCall, j, "dedupe")
  /\ UNCHANGED <<document, version, activity, ghosts, handlerVars>>

\* findVersionByHash, over the versions of archived documents as well.
FindDuplicate(j) ==
  /\ At(docCall[j], "dedupe")
  /\ docCall' = Moved(docCall, j, IF version[docCall[j].file] # None THEN "cleanup" ELSE "insert")
  /\ UNCHANGED <<document, version, blobs, activity, ghosts, handlerVars>>

\* Mutation: a replacement is not promoted to the current version.
InsertedUnpromoted(c) ==
  /\ version' = [version EXCEPT ![c.file] =
                   [doc |-> c.doc, number |-> NextNumber(c.doc), key |-> c.key]]
  /\ document' =
       IF c.op = "upload"
       THEN [document EXCEPT ![c.doc] =
               [status |-> "Active", code |-> NextCode(c.prefix), current |-> c.file]]
       ELSE document

\* createDocumentWithVersion or replaceCurrentVersion, one transaction.
Inserted(c) ==
  /\ version' = [version EXCEPT ![c.file] =
                   [doc |-> c.doc, number |-> NextNumber(c.doc), key |-> c.key]]
  /\ document' =
       IF c.op = "upload"
       THEN [document EXCEPT ![c.doc] =
               [status |-> "Active", code |-> NextCode(c.prefix), current |-> c.file]]
       ELSE [document EXCEPT ![c.doc].current = c.file]

\* Mutation: a refused insertion is reported, and nothing removed.
InsertWithoutCleanup(j) ==
  /\ At(docCall[j], "insert")
  /\ IF version[docCall[j].file] # None
     THEN docCall' = Set(docCall, j, None) /\ UNCHANGED <<document, version>>
     ELSE docCall' = Moved(docCall, j, "activity") /\ Inserted(docCall[j])
  /\ UNCHANGED <<blobs, activity, ghosts, handlerVars>>

\* The hash is unique: of two that found no duplicate, the second fails.
Insert(j) ==
  /\ At(docCall[j], "insert")
  /\ IF version[docCall[j].file] # None
     THEN docCall' = Moved(docCall, j, "cleanup") /\ UNCHANGED <<document, version>>
     ELSE docCall' = Moved(docCall, j, "activity") /\ Inserted(docCall[j])
  /\ UNCHANGED <<blobs, activity, ghosts, handlerVars>>

\* Mutation: the whole row is written back as it was read.
EditWriteWholeRow(j) ==
  /\ At(docCall[j], "write")
  /\ docCall[j].op = "edit"
  /\ document' = [document EXCEPT ![docCall[j].doc].status = "Active"]
  /\ docCall' = Moved(docCall, j, "activity")
  /\ UNCHANGED <<version, blobs, activity, ghosts, handlerVars>>

\* update writes the fields the request names and no other.
EditWrite(j) ==
  /\ At(docCall[j], "write")
  /\ docCall[j].op = "edit"
  /\ docCall' = Moved(docCall, j, "activity")
  /\ UNCHANGED <<document, version, blobs, activity, ghosts, handlerVars>>

\* Mutation: the status has a name the schema does not know.
ArchiveWriteDeleted(j) ==
  /\ At(docCall[j], "write")
  /\ docCall[j].op = "archive"
  /\ document' = [document EXCEPT ![docCall[j].doc].status = "Deleted"]
  /\ docCall' = Moved(docCall, j, "activity")
  /\ UNCHANGED <<version, blobs, activity, ghosts, handlerVars>>

\* softDelete, by id: it may find the document archived already.
ArchiveWrite(j) ==
  /\ At(docCall[j], "write")
  /\ docCall[j].op = "archive"
  /\ document' = [document EXCEPT ![docCall[j].doc].status = "Archived"]
  /\ docCall' = Moved(docCall, j, "activity")
  /\ UNCHANGED <<version, blobs, activity, ghosts, handlerVars>>

CreateActivity(j) ==
  /\ At(docCall[j], "activity")
  /\ activity' = activity \cup {docCall[j].key}
  /\ docCall' = Set(docCall, j, None)
  /\ UNCHANGED <<document, version, blobs, ghosts, handlerVars>>

\* The catch block: the file was stored and no row was created.
RemoveBlob(j) ==
  /\ At(docCall[j], "cleanup")
  /\ blobs' = blobs \ {docCall[j].key}
  /\ docCall' = Set(docCall, j, None)
  /\ UNCHANGED <<document, version, activity, ghosts, handlerVars>>

-----------------------------------------------------------------------------
(* Faults. *)

\* Mutation: the catch block does not look whether the row was created.
FailQueryAlwaysCleans(j) ==
  /\ Fault
  /\ \/ /\ At(docCall[j], "store") \/ At(docCall[j], "write")
        /\ docCall' = Set(docCall, j, None)
        /\ UNCHANGED ghosts
     \/ /\ At(docCall[j], "dedupe") \/ At(docCall[j], "insert")
        /\ docCall' = Moved(docCall, j, "cleanup")
        /\ UNCHANGED ghosts
     \/ /\ At(docCall[j], "activity") \/ At(docCall[j], "cleanup")
        /\ docCall' = IF docCall[j].step = "activity" /\ docCall[j].file # None
                      THEN Moved(docCall, j, "cleanup") ELSE Set(docCall, j, None)
        /\ interrupted' = interrupted \cup {docCall[j].key} /\ UNCHANGED unanswered
  /\ UNCHANGED <<document, version, blobs, activity>>

\* A query rejects, and the handler with it; storeStream unlinks what it wrote.
FailQuery(j) ==
  /\ Fault
  /\ \/ /\ At(docCall[j], "store") \/ At(docCall[j], "write")
        /\ docCall' = Set(docCall, j, None)
        /\ UNCHANGED ghosts
     \/ /\ At(docCall[j], "dedupe") \/ At(docCall[j], "insert")
        /\ docCall' = Moved(docCall, j, "cleanup")
        /\ UNCHANGED ghosts
     \/ /\ At(docCall[j], "activity") \/ At(docCall[j], "cleanup")
        /\ docCall' = Set(docCall, j, None)
        /\ interrupted' = interrupted \cup {docCall[j].key} /\ UNCHANGED unanswered
  /\ UNCHANGED <<document, version, blobs, activity>>

\* The transaction commits, but the connection breaks before the answer: the
\* handler takes it for a failure and removes the bytes of a version that exists.
LoseCommit(j) ==
  /\ Fault
  /\ At(docCall[j], "insert")
  /\ version[docCall[j].file] = None
  /\ Inserted(docCall[j])
  /\ docCall' = Moved(docCall, j, "cleanup")
  /\ interrupted' = interrupted \cup {docCall[j].key}
  /\ unanswered' = unanswered \cup {docCall[j].key}
  /\ UNCHANGED <<blobs, activity>>

CrashDocuments ==
  /\ Fault
  /\ docCall' = [j \in Jobs |-> None]
  /\ interrupted' = interrupted \cup {docCall[j].key : j \in {i \in Jobs : docCall[i] # None}}
  /\ UNCHANGED <<document, version, blobs, activity, unanswered>>

HandleDocument(j) ==
  \/ StoreStream(j) \/ FindDuplicate(j) \/ Insert(j)
  \/ EditWrite(j) \/ ArchiveWrite(j)
  \/ CreateActivity(j) \/ RemoveBlob(j)

DocumentsNext ==
  \/ \E j \in Jobs, d \in Docs :
       \/ \E f \in Files : Replace(j, d, f) \/ \E p \in Prefixes : Upload(j, d, f, p)
       \/ Edit(j, d) \/ Archive(j, d)
  \/ \E j \in Jobs : HandleDocument(j) \/ FailQuery(j) \/ LoseCommit(j)
  \/ CrashDocuments

DocumentsSpec ==
  HandlersInit /\ DocumentsInit /\ [][DocumentsNext]_<<documentVars, handlerVars>>

-----------------------------------------------------------------------------
(* Properties. *)

InFlight(key) == \E j \in Jobs : docCall[j] # None /\ docCall[j].key = key

(* Whatever replacements overlap, the versions of a document are numbered  *)
(* without gaps or repetitions, the newest is the current one, and there   *)
(* is no version without its document.                                     *)
VersionChain ==
  \A d \in Docs :
    /\ {version[f].number : f \in VersionsOf(d)} = 1..Cardinality(VersionsOf(d))
    /\ document[d] # None =>
         /\ document[d].current \in VersionsOf(d)
         /\ version[document[d].current].number = Cardinality(VersionsOf(d))
    /\ document[d] = None => VersionsOf(d) = {}

(* The bytes of every version are in the storage: whichever await of its   *)
(* handler fails, and whenever the process dies, no cleanup removes what a *)
(* row refers to.  Only a commit that was not answered is excepted, which  *)
(* the handler cannot tell from one that was refused.                      *)
BytesAreKept ==
  \A f \in Files : version[f] # None => version[f].key \in blobs \cup unanswered

(* Once its request is over, a stored file is that of a version and has    *)
(* its entry on the timeline, unless a fault stopped the request.          *)
NothingLeftBehind ==
  \A k \in Keys :
    \/ InFlight(k) \/ k \in interrupted
    \/ k \in blobs <=> \E f \in Files : version[f] # None /\ version[f].key = k /\ k \in activity

Replacing(d) == {j \in Jobs : docCall[j] # None /\ docCall[j].op = "replace" /\ docCall[j].doc = d
                              /\ docCall[j].step \in {"store", "dedupe", "insert"}}

(* Overlapping replacements exceed the limit of versions, see              *)
(* VersionsWithinLimit, but by fewer than there are requests in flight:    *)
(* the check counts every version created before the request began.        *)
VersionLimit ==
  \A d \in Docs :
    VersionsOf(d) # {} =>
      Cardinality(VersionsOf(d)) + Cardinality(Replacing(d)) < MaxVersions + Cardinality(Jobs)

(* "A document cannot exceed 50 versions", says the documentation.  It     *)
(* does: two replacements read the count before either creates a version.  *)
VersionsWithinLimit == \A d \in Docs : Cardinality(VersionsOf(d)) <= MaxVersions

\* The next code is free, although archived documents keep theirs and the
\* bare prefix counts the codes of fiscal years.
NextCodeIsFree ==
  \A p \in Prefixes, d \in Docs : document[d] # None => document[d].code # NextCode(p)

\* The contents of a document in the order of their numbers.
Contents(d) ==
  [n \in 1..Cardinality(VersionsOf(d)) |-> CHOOSE f \in VersionsOf(d) : version[f].number = n]

Evidence == INSTANCE EvidenceChain WITH
  contents <- [d \in Docs |-> Contents(d)],
  archived <- {d \in Docs : document[d] # None /\ document[d].status = "Archived"}

(* Documents implement the chain of evidence: no step takes a version      *)
(* back, reorders or repeats one, or brings an archived document back.     *)
KeepsEvidence == Evidence!Spec
=============================================================================
