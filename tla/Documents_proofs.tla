---------------------------- MODULE Documents_proofs ----------------------------
(***************************************************************************)
(* For any number of documents, files and requests in flight, and whatever *)
(* queries fail: the properties of Documents hold, and documents implement *)
(* EvidenceChain.                                                          *)
(*                                                                         *)
(* None of the properties is inductive by itself: what a handler is about  *)
(* to insert or to remove depends on awaits that lie behind it.  CallSound *)
(* says for every step of a handler what has become of its document and of *)
(* its bytes, and Apart that no two handlers share a storage key or the    *)
(* identity of a document that is still to be created.                     *)
(***************************************************************************)
EXTENDS Documents, FiniteSetTheorems, SequenceTheorems, TLAPS

vars == <<documentVars, handlerVars>>

Writes(c) == c.op \in {"upload", "replace"}

\* A handler that has not inserted its version yet, and still may.
Pending(c) == c.step \in {"store", "dedupe", "insert"}

HasVersion(k) == \E f \in Files : version[f] # None /\ version[f].key = k

(* The steps an operation goes through, and its document: an upload that   *)
(* is pending has none, the other operations found theirs.                 *)
CallShape(c) ==
  /\ Writes(c) => c.file \in Files /\ c.step # "write"
  /\ ~Writes(c) => c.step \in {"write", "activity"}
  /\ c.op = "upload" => c.prefix \in Prefixes
  /\ c.op = "upload" /\ Pending(c) => document[c.doc] = None
  /\ c.op # "upload" => document[c.doc] # None

\* The bytes of a handler, and the version that refers to them.
CallBytes(c) ==
  /\ c.key <= requests
  /\ ~Writes(c) \/ c.step = "store" => c.key \notin blobs
  /\ ~Writes(c) \/ Pending(c) => ~HasVersion(c.key)
  /\ Writes(c) /\ c.step \in {"dedupe", "insert", "activity"} => c.key \in blobs
  /\ Writes(c) /\ c.step = "activity" => HasVersion(c.key)
  /\ c.step = "cleanup" => ~HasVersion(c.key) \/ c.key \in interrupted \cap unanswered

Apart(c, e) ==
  /\ c.key # e.key
  /\ c.op = "upload" /\ Pending(c) => c.doc # e.doc

Calls ==
  /\ \A j \in Jobs : docCall[j] # None => CallShape(docCall[j]) /\ CallBytes(docCall[j])
  /\ \A i, j \in Jobs :
       i # j /\ docCall[i] # None /\ docCall[j] # None => Apart(docCall[i], docCall[j])

\* The versions of a document, numbered from one and each number once.
Numbered(d) ==
  /\ {version[f].number : f \in VersionsOf(d)} = 1..Cardinality(VersionsOf(d))
  /\ \A f, g \in VersionsOf(d) : version[f].number = version[g].number => f = g

Headed(d) ==
  /\ document[d] # None =>
       /\ document[d].current \in VersionsOf(d)
       /\ version[document[d].current].number = Cardinality(VersionsOf(d))
  /\ document[d] = None => VersionsOf(d) = {}

Chain ==
  /\ IsFiniteSet({f \in Files : version[f] # None})
  /\ \A d \in Docs : Numbered(d) /\ Headed(d)

\* No storage key is used before its request.
KeysInUse ==
  /\ \A k \in blobs : k <= requests
  /\ \A f \in Files : version[f] # None => version[f].key <= requests

CodesBelow(b) ==
  \A d \in Docs : document[d] # None => \A i \in DOMAIN document[d].code : document[d].code[i] <= b

Types == DocumentsTypeOK /\ HandlersTypeOK

Inv ==
  /\ Types
  /\ Calls
  /\ Chain
  /\ KeysInUse
  /\ BytesAreKept
  /\ NothingLeftBehind
  /\ VersionLimit
  /\ \E b \in Nat : CodesBelow(b)

-----------------------------------------------------------------------------
(* Steps.  Apart from a request that begins, an insertion and a crash, a   *)
(* step moves one handler: it touches that handler's own storage key and   *)
(* keeps the codes and the versions of all documents.                      *)

SameRows ==
  \A d \in Docs :
    /\ document'[d] = None <=> document[d] = None
    /\ document[d] # None =>
         document'[d].current = document[d].current /\ document'[d].code = document[d].code

Goes(j, x) ==
  /\ docCall[j] # None
  /\ docCall' = [docCall EXCEPT ![j] = x]
  /\ x # None =>
       /\ x.key = docCall[j].key /\ x.doc = docCall[j].doc /\ x.op = docCall[j].op
       /\ Pending(x) => Pending(docCall[j])
  /\ UNCHANGED <<version, requests>>
  /\ SameRows
  /\ \A k \in Keys \ {docCall[j].key} :
       (k \in blobs' <=> k \in blobs) /\ (k \in activity' <=> k \in activity)
  /\ interrupted \subseteq interrupted' /\ unanswered \subseteq unanswered'

LEMMA Typed ==
  ASSUME Types
  PROVE  /\ document \in [Docs -> DocumentRows \cup {None}]
         /\ version \in [Files -> VersionRows \cup {None}]
         /\ blobs \in SUBSET Keys
         /\ activity \in SUBSET Keys
         /\ docCall \in [Jobs -> DocumentCalls \cup {None}]
         /\ interrupted \in SUBSET Keys /\ unanswered \in SUBSET Keys
         /\ requests \in 0..MaxRequests
         /\ faults \in 0..MaxFaults
  BY DEF Types, DocumentsTypeOK, HandlersTypeOK

LEMMA KeysAreNumbers == Keys \subseteq Nat /\ MaxRequests \in Nat
  BY HandlersAssumption DEF Keys

LEMMA CallOf ==
  ASSUME Types, Calls, NEW j \in Jobs, docCall[j] # None
  PROVE  /\ docCall[j] \in DocumentCalls
         /\ docCall[j].key \in Keys
         /\ docCall[j].doc \in Docs
         /\ CallShape(docCall[j])
         /\ CallBytes(docCall[j])
  <1>1. docCall[j] \in DocumentCalls
    BY Typed
  <1>2. docCall[j].key \in Keys /\ docCall[j].doc \in Docs
    BY <1>1 DEF DocumentCalls
  <1> QED
    BY <1>1, <1>2 DEF Calls

LEMMA VersionOf ==
  ASSUME Types, NEW f \in Files, version[f] # None
  PROVE  version[f].doc \in Docs /\ version[f].number \in Nat /\ version[f].key \in Keys
  <1>1. version[f] \in VersionRows
    BY Typed
  <1> QED
    BY <1>1 DEF VersionRows

DocumentSteps == {"store", "dedupe", "insert", "write", "activity", "cleanup"}

\* A call at another step is a call.
LEMMA CallAtStep ==
  ASSUME NEW c \in DocumentCalls, NEW s \in DocumentSteps
  PROVE  /\ [c EXCEPT !.step = s] \in DocumentCalls
         /\ [c EXCEPT !.step = s] # None
         /\ [c EXCEPT !.step = s].step = s
         /\ [c EXCEPT !.step = s].op = c.op
         /\ [c EXCEPT !.step = s].doc = c.doc
         /\ [c EXCEPT !.step = s].file = c.file
         /\ [c EXCEPT !.step = s].prefix = c.prefix
         /\ [c EXCEPT !.step = s].key = c.key
  <1>1. [c EXCEPT !.step = s] \in DocumentCalls
    BY Zenon DEF DocumentCalls, DocumentSteps
  <1>2. [c EXCEPT !.step = s] # None
    BY <1>1, DocumentsNoneAssumption
  <1> QED
    BY <1>1, <1>2 DEF DocumentCalls

-----------------------------------------------------------------------------
(* A step that moves one handler keeps every part of the invariant.        *)

LEMMA GoesKeepsCalls ==
  ASSUME Types, Calls, NEW j \in Jobs, NEW x, Goes(j, x),
         x # None => CallShape(x)' /\ CallBytes(x)'
  PROVE  Calls'
  <1>1. ASSUME NEW i \in Jobs, docCall'[i] # None
        PROVE  CallShape(docCall[i])' /\ CallBytes(docCall[i])'
    <2>1. CASE i = j
      <3>1. docCall'[i] = x
        BY <2>1, Typed DEF Goes
      <3> QED
        BY <1>1, <3>1 DEF CallShape, CallBytes, Writes, Pending, HasVersion
    <2>2. CASE i # j
      <3>1. docCall'[i] = docCall[i] /\ docCall[i] # None /\ docCall[j] # None
        BY <1>1, <2>2, Typed DEF Goes
      <3>2. /\ CallShape(docCall[i]) /\ CallBytes(docCall[i])
            /\ docCall[i].doc \in Docs /\ docCall[i].key \in Keys
        BY <3>1, CallOf
      <3>3. docCall[i].key # docCall[j].key
        BY <2>2, <3>1 DEF Calls, Apart
      <3>4. CallShape(docCall[i])'
        BY <3>1, <3>2 DEF CallShape, Writes, Pending, Goes, SameRows
      <3>5. CallBytes(docCall[i])'
        BY <3>1, <3>2, <3>3 DEF CallBytes, Writes, Pending, Goes, HasVersion
      <3> QED
        BY <3>1, <3>4, <3>5
    <2> QED
      BY <2>1, <2>2
  <1>2. ASSUME NEW h \in Jobs, NEW i \in Jobs, h # i, docCall'[h] # None, docCall'[i] # None
        PROVE  Apart(docCall'[h], docCall'[i])
    <2>1. \A k \in Jobs : docCall'[k] # None =>
            /\ docCall[k] # None
            /\ docCall'[k].key = docCall[k].key
            /\ docCall'[k].doc = docCall[k].doc
            /\ docCall'[k].op = docCall[k].op
            /\ Pending(docCall'[k]) => Pending(docCall[k])
      BY Typed DEF Goes
    <2>2. Apart(docCall[h], docCall[i])
      BY <1>2, <2>1 DEF Calls
    <2> QED
      BY <1>2, <2>1, <2>2 DEF Apart
  <1> QED
    BY <1>1, <1>2 DEF Calls

LEMMA SameVersionsKeepChain ==
  ASSUME Chain, SameRows, UNCHANGED version
  PROVE  Chain'
  <1>1. ASSUME NEW d \in Docs
        PROVE  /\ VersionsOf(d)' = VersionsOf(d)
               /\ Numbered(d)'
               /\ Headed(d)'
    <2>1. Numbered(d) /\ Headed(d)
      BY DEF Chain
    <2>2. VersionsOf(d)' = VersionsOf(d)
      BY DEF VersionsOf
    <2>3. Numbered(d)'
      BY <2>1, <2>2 DEF Numbered
    <2>4. Headed(d)'
      BY <2>1, <2>2 DEF Headed, SameRows
    <2> QED
      BY <2>2, <2>3, <2>4
  <1>2. IsFiniteSet({f \in Files : version[f] # None})'
    BY DEF Chain
  <1> QED
    BY <1>1, <1>2 DEF Chain

LEMMA SameRowsKeepCodes ==
  ASSUME SameRows, \E b \in Nat : CodesBelow(b)
  PROVE  \E b \in Nat : CodesBelow(b)'
  BY DEF SameRows, CodesBelow

\* Versions and calls, counted.
LEMMA Counted ==
  ASSUME Chain, NEW d \in Docs
  PROVE  /\ IsFiniteSet(VersionsOf(d)) /\ Cardinality(VersionsOf(d)) \in Nat
         /\ IsFiniteSet(Replacing(d)) /\ Cardinality(Replacing(d)) \in Nat
         /\ Cardinality(Replacing(d)) <= Cardinality(Jobs)
         /\ Cardinality(Jobs) \in Nat
  <1>1. VersionsOf(d) \subseteq {f \in Files : version[f] # None}
    BY DEF VersionsOf
  <1>2. Replacing(d) \subseteq Jobs
    BY DEF Replacing
  <1> QED
    BY <1>1, <1>2, FS_Subset, FS_CardinalityType, HandlersAssumption DEF Chain

LEMMA FewerReplacingKeepLimit ==
  ASSUME Chain, Chain', VersionLimit, UNCHANGED version,
         \A d \in Docs : Replacing(d)' \subseteq Replacing(d)
  PROVE  VersionLimit'
  <1> SUFFICES ASSUME NEW d \in Docs, VersionsOf(d)' # {}
               PROVE  Cardinality(VersionsOf(d)') + Cardinality(Replacing(d)')
                        < MaxVersions + Cardinality(Jobs)
    BY DEF VersionLimit
  <1>1. VersionsOf(d)' = VersionsOf(d)
    BY DEF VersionsOf
  <1>2. Cardinality(VersionsOf(d)) + Cardinality(Replacing(d)) < MaxVersions + Cardinality(Jobs)
    BY <1>1 DEF VersionLimit
  <1>3. /\ Cardinality(Replacing(d)') \in Nat
        /\ Cardinality(Replacing(d)') <= Cardinality(Replacing(d))
    BY Counted, FS_Subset, FS_CardinalityType
  <1> QED
    BY <1>1, <1>2, <1>3, Counted, DocumentsAssumption

LEMMA GoesKeeps ==
  ASSUME Inv, Types', NEW j \in Jobs, NEW x, Goes(j, x),
         x # None => CallShape(x)' /\ CallBytes(x)',
         HasVersion(docCall[j].key) /\ docCall[j].key \in blobs
           => docCall[j].key \in blobs' \cup unanswered',
         x = None =>
           \/ docCall[j].key \in interrupted'
           \/ docCall[j].key \in blobs'
                <=> HasVersion(docCall[j].key) /\ docCall[j].key \in activity'
  PROVE  Inv'
  <1> DEFINE key == docCall[j].key
  <1>1. Types /\ Calls /\ docCall[j] # None
    BY DEF Inv, Goes
  <1>2. key \in Keys /\ key <= requests
    BY <1>1, CallOf DEF CallBytes
  <1>3. Calls'
    BY <1>1, GoesKeepsCalls
  <1>4. Chain'
    BY SameVersionsKeepChain DEF Inv, Goes
  <1>5. KeysInUse'
    <2>1. \A k \in blobs' : k \in Keys
      BY Typed DEF Types, DocumentsTypeOK
    <2>2. \A k \in blobs' : k <= requests'
      BY <1>2, <2>1 DEF Inv, KeysInUse, Goes
    <2> QED
      BY <2>2 DEF Inv, KeysInUse, Goes
  <1>6. BytesAreKept'
    <2> SUFFICES ASSUME NEW f \in Files, version[f] # None
                 PROVE  version[f].key \in blobs' \cup unanswered'
      BY DEF BytesAreKept, Goes
    <2>1. version[f].key \in blobs \cup unanswered /\ version[f].key \in Keys
      BY <1>1, VersionOf DEF Inv, BytesAreKept
    <2>2. CASE version[f].key = key
      BY <2>1, <2>2 DEF HasVersion, Goes
    <2>3. CASE version[f].key # key
      BY <2>1, <2>3 DEF Goes
    <2> QED
      BY <2>2, <2>3
  <1>7. NothingLeftBehind'
    <2> SUFFICES ASSUME NEW k \in Keys, ~InFlight(k)', k \notin interrupted'
                 PROVE  k \in blobs' <=> HasVersion(k) /\ k \in activity'
      BY DEF NothingLeftBehind, HasVersion, Goes
    <2>1. CASE k = key
      <3>1. x # None => InFlight(k)'
        BY <2>1, <1>1, Typed DEF Goes, InFlight
      <3> QED
        BY <2>1, <3>1
    <2>2. CASE k # key
      <3>1. ~InFlight(k)
        <4>1. ASSUME NEW i \in Jobs, docCall[i] # None, docCall[i].key = k
              PROVE  InFlight(k)'
          <5>1. i # j
            BY <2>2, <4>1
          <5>2. docCall'[i] = docCall[i]
            BY <1>1, <5>1, Typed DEF Goes
          <5> QED
            BY <4>1, <5>2 DEF InFlight
        <4> QED
          BY <4>1 DEF InFlight
      <3>2. k \notin interrupted
        BY DEF Goes
      <3>3. k \in blobs <=> HasVersion(k) /\ k \in activity
        BY <3>1, <3>2 DEF Inv, NothingLeftBehind, HasVersion
      <3> QED
        BY <2>2, <3>3 DEF Goes
    <2> QED
      BY <2>1, <2>2
  <1>8. VersionLimit'
    <2>1. \A d \in Docs : Replacing(d)' \subseteq Replacing(d)
      <3> SUFFICES ASSUME NEW d \in Docs, NEW i \in Jobs, docCall'[i] # None,
                          docCall'[i].op = "replace", docCall'[i].doc = d, Pending(docCall'[i])
                   PROVE  i \in Replacing(d)
        BY DEF Replacing, Pending
      <3>1. /\ docCall[i] # None /\ docCall[i].op = "replace" /\ docCall[i].doc = d
            /\ Pending(docCall[i])
        BY <1>1, Typed DEF Goes
      <3> QED
        BY <3>1 DEF Replacing, Pending
    <2> QED
      BY <1>4, <2>1, FewerReplacingKeepLimit DEF Inv, Goes
  <1>9. \E b \in Nat : CodesBelow(b)'
    BY SameRowsKeepCodes DEF Inv, Goes
  <1> QED
    BY <1>3, <1>4, <1>5, <1>6, <1>7, <1>8, <1>9 DEF Inv

-----------------------------------------------------------------------------
(* The greatest of some numbers: version numbers and codes.                *)

LEMMA LeastNatural ==
  ASSUME NEW T \in SUBSET Nat, T # {}
  PROVE  \E m \in T : \A n \in T : m <= n
  <1>1. IsWellFoundedOn(OpToRel(<, Nat), Nat)
    BY NatLessThanWellFounded, Zenon
  <1>2. PICK m \in T : \A n \in T : <<n, m>> \notin OpToRel(<, Nat)
    BY <1>1, WFMin, Zenon
  <1>3. \A n \in T : ~(n < m)
    BY <1>2 DEF OpToRel
  <1> QED
    BY <1>3

LEMMA Greatest ==
  ASSUME NEW S \in SUBSET Nat, S # {}, NEW b \in Nat, \A n \in S : n <= b
  PROVE  Max(S) \in S /\ \A n \in S : n <= Max(S)
  <1> DEFINE T == {m \in Nat : \A n \in S : n <= m}
  <1>1. T \in SUBSET Nat /\ T # {}
    OBVIOUS
  <1>2. PICK m \in T : \A n \in T : m <= n
    BY <1>1, LeastNatural
  <1>3. m \in S
    <2>1. SUFFICES ASSUME m \notin S
                   PROVE  FALSE
      OBVIOUS
    <2>2. \A n \in S : n <= m - 1
      BY <1>2, <2>1
    <2>3. m - 1 \in Nat
      <3>1. PICK n \in S : n \in Nat
        OBVIOUS
      <3> QED
        BY <1>2, <2>2, <3>1
    <2> QED
      BY <1>2, <2>2, <2>3
  <1>4. \E n \in S : \A k \in S : n >= k
    BY <1>2, <1>3
  <1>5. Max(S) \in S /\ \A k \in S : Max(S) >= k
    BY <1>4, Zenon DEF Max
  <1> QED
    BY <1>5

LEMMA NextNumberCounts ==
  ASSUME Chain, NEW d \in Docs
  PROVE  NextNumber(d) = Cardinality(VersionsOf(d)) + 1
  <1> DEFINE n == Cardinality(VersionsOf(d))
  <1>1. n \in Nat
    BY Counted
  <1>2. {0} \cup {version[f].number : f \in VersionsOf(d)} = 0..n
    BY <1>1 DEF Chain, Numbered
  <1>3. Max(0..n) \in 0..n /\ \A k \in 0..n : k <= Max(0..n)
    <2>1. 0..n \in SUBSET Nat /\ 0..n # {} /\ \A k \in 0..n : k <= n
      BY <1>1
    <2> QED
      BY <1>1, <2>1, Greatest
  <1>4. Max(0..n) = n
    BY <1>1, <1>3
  <1>5. NextNumber(d) = 1 + n
    BY <1>2, <1>4, Zenon DEF NextNumber
  <1> QED
    BY <1>1, <1>5

-----------------------------------------------------------------------------
(* Codes. *)

LEMMA CodesOf ==
  ASSUME Types, NEW b \in Nat, CodesBelow(b), NEW p \in Prefixes
  PROVE  /\ {0} \cup Sequences(p) \in SUBSET Nat
         /\ \A n \in {0} \cup Sequences(p) : n <= b
         /\ Len(p) \in Nat
  <1>1. p \in Seq(Nat) /\ Len(p) \in Nat
    BY DocumentsAssumption
  <1>2. ASSUME NEW d \in Docs, document[d] # None, StartsWith(document[d].code, p)
        PROVE  /\ document[d].code[Len(p) + 1] \in Nat
               /\ document[d].code[Len(p) + 1] <= b
    <2>1. document[d] \in DocumentRows
      BY <1>2, Typed
    <2>2. document[d].code \in Seq(Nat)
      BY <2>1 DEF DocumentRows
    <2>3. Len(p) + 1 \in 1..Len(document[d].code)
      BY <1>1, <1>2, <2>2 DEF StartsWith
    <2> QED
      BY <1>2, <2>2, <2>3 DEF CodesBelow
  <1> QED
    BY <1>1, <1>2 DEF Sequences

LEMMA NextCodeTyped ==
  ASSUME Types, NEW b \in Nat, CodesBelow(b), NEW p \in Prefixes
  PROVE  /\ NextCode(p) = Append(p, 1 + Max({0} \cup Sequences(p)))
         /\ NextCode(p) \in Seq(Nat)
         /\ Max({0} \cup Sequences(p)) \in Nat
         /\ \A n \in Sequences(p) : n <= Max({0} \cup Sequences(p))
  <1>1. /\ Max({0} \cup Sequences(p)) \in Nat
        /\ \A n \in Sequences(p) : n <= Max({0} \cup Sequences(p))
    <2>1. {0} \cup Sequences(p) # {}
      OBVIOUS
    <2> QED
      BY <2>1, CodesOf, Greatest
  <1>2. NextCode(p) = Append(p, 1 + Max({0} \cup Sequences(p)))
    BY Zenon DEF NextCode
  <1>3. \A m \in Nat : Append(p, 1 + m) \in Seq(Nat)
    BY DocumentsAssumption
  <1> QED
    BY <1>1, <1>2, <1>3

LEMMA NextCodeFree ==
  ASSUME Types, \E b \in Nat : CodesBelow(b)
  PROVE  NextCodeIsFree
  <1> SUFFICES ASSUME NEW p \in Prefixes, NEW d \in Docs, document[d] # None,
                      document[d].code = NextCode(p)
               PROVE  FALSE
    BY DEF NextCodeIsFree
  <1> DEFINE m == Max({0} \cup Sequences(p))
             code == Append(p, 1 + m)
  <1>1. /\ NextCode(p) = code /\ m \in Nat
        /\ \A n \in Sequences(p) : n <= m
    BY NextCodeTyped
  <1>2. p \in Seq(Nat) /\ Len(p) \in Nat
    BY DocumentsAssumption
  <1> HIDE DEF m
  <1>3. /\ Len(code) = Len(p) + 1
        /\ code[Len(p) + 1] = 1 + m
        /\ \A i \in 1..Len(p) : code[i] = p[i]
    BY <1>1, <1>2
  <1>4. SubSeq(code, 1, Len(p)) = p
    <2>1. \A i \in 1..Len(p) : code[i] \in Nat
      BY <1>2, <1>3
    <2>2. /\ SubSeq(code, 1, Len(p)) \in Seq(Nat)
          /\ Len(SubSeq(code, 1, Len(p))) = Len(p)
          /\ \A i \in 1..Len(p) : SubSeq(code, 1, Len(p))[i] = code[i]
      BY <1>2, <1>3, <2>1, SubSeqProperties
    <2> HIDE DEF code
    <2> QED
      BY <1>2, <1>3, <2>2, SeqEqual
  <1>5. StartsWith(document[d].code, p)
    BY <1>1, <1>2, <1>3, <1>4 DEF StartsWith
  <1>6. 1 + m \in Sequences(p)
    BY <1>1, <1>3, <1>5 DEF Sequences
  <1> QED
    BY <1>1, <1>6

-----------------------------------------------------------------------------
(* An insertion, whether its answer arrives or is lost. *)

Inserts(j, s) ==
  /\ docCall[j] # None
  /\ docCall[j].step = "insert"
  /\ version[docCall[j].file] = None
  /\ Inserted(docCall[j])
  /\ docCall' = [docCall EXCEPT ![j] = [docCall[j] EXCEPT !.step = s]]
  /\ interrupted' = interrupted \cup (IF s = "cleanup" THEN {docCall[j].key} ELSE {})
  /\ unanswered' = unanswered \cup (IF s = "cleanup" THEN {docCall[j].key} ELSE {})
  /\ UNCHANGED <<blobs, activity, requests>>
  /\ faults' \in 0..MaxFaults

LEMMA InsertingCall ==
  ASSUME Inv, NEW j \in Jobs, NEW s \in {"activity", "cleanup"}, Inserts(j, s)
  PROVE  /\ docCall[j].file \in Files
         /\ docCall[j].doc \in Docs
         /\ docCall[j].key \in Keys
         /\ Writes(docCall[j])
         /\ docCall[j].op = "upload" =>
              docCall[j].prefix \in Prefixes /\ document[docCall[j].doc] = None
         /\ docCall[j].op # "upload" => document[docCall[j].doc] # None
  <1>1. Types /\ Calls /\ docCall[j] # None /\ docCall[j].step = "insert"
    BY DEF Inv, Inserts
  <1>2. CallShape(docCall[j]) /\ docCall[j].doc \in Docs /\ docCall[j].key \in Keys
    BY <1>1, CallOf
  <1> QED
    BY <1>1, <1>2 DEF CallShape, Writes, Pending

\* What the transaction writes.
LEMMA InsertedRows ==
  ASSUME Inv, NEW j \in Jobs, NEW s \in {"activity", "cleanup"}, Inserts(j, s),
         NEW c, c = docCall[j]
  PROVE  /\ version' \in [Files -> VersionRows \cup {None}]
         /\ document' \in [Docs -> DocumentRows \cup {None}]
         /\ version'[c.file] # None
         /\ version'[c.file].doc = c.doc
         /\ version'[c.file].number = Cardinality(VersionsOf(c.doc)) + 1
         /\ version'[c.file].key = c.key
         /\ \A g \in Files \ {c.file} : version'[g] = version[g]
         /\ document'[c.doc] # None
         /\ document'[c.doc].current = c.file
         /\ document'[c.doc].code =
              IF c.op = "upload" THEN NextCode(c.prefix) ELSE document[c.doc].code
         /\ document'[c.doc].status =
              IF c.op = "upload" THEN "Active" ELSE document[c.doc].status
         /\ \A d \in Docs \ {c.doc} : document'[d] = document[d]
  <1>1. /\ c.file \in Files /\ c.doc \in Docs /\ c.key \in Keys
        /\ c.op = "upload" => c.prefix \in Prefixes
        /\ c.op # "upload" => document[c.doc] # None
    BY InsertingCall
  <1>2. Types /\ Chain /\ Inserted(c) /\ \E b \in Nat : CodesBelow(b)
    BY DEF Inv, Inserts
  <1> DEFINE n == Cardinality(VersionsOf(c.doc)) + 1
             row == [doc |-> c.doc, number |-> n, key |-> c.key]
             first == [status |-> "Active", code |-> NextCode(c.prefix), current |-> c.file]
             next == [document[c.doc] EXCEPT !.current = c.file]
  <1>3. n \in Nat /\ NextNumber(c.doc) = n
    BY <1>1, <1>2, Counted, NextNumberCounts
  <1>4. row \in VersionRows
    BY <1>1, <1>3 DEF VersionRows
  <1>5. version' = [version EXCEPT ![c.file] = row]
    BY <1>2, <1>3, Zenon DEF Inserted
  <1>6. /\ version' \in [Files -> VersionRows \cup {None}]
        /\ version'[c.file] = row
        /\ \A g \in Files \ {c.file} : version'[g] = version[g]
    BY <1>1, <1>2, <1>4, <1>5, Typed
  <1>7. version'[c.file] # None
    BY <1>4, <1>6, DocumentsNoneAssumption
  <1>8. CASE c.op = "upload"
    <2>1. document' = [document EXCEPT ![c.doc] = first]
      BY <1>2, <1>8, Zenon DEF Inserted
    <2>2. first \in DocumentRows
      <3>1. NextCode(c.prefix) \in Seq(Nat)
        BY <1>1, <1>2, <1>8, NextCodeTyped
      <3> HIDE DEF n, row, next
      <3> QED
        BY <1>1, <3>1, Zenon DEF DocumentRows
    <2>3. document'[c.doc] = first
      BY <1>1, <1>2, <2>1, Typed
    <2>4. first # None
      BY <2>2, DocumentsNoneAssumption
    <2>5. document' \in [Docs -> DocumentRows \cup {None}]
      BY <1>1, <1>2, <2>1, <2>2, Typed
    <2>6. \A d \in Docs \ {c.doc} : document'[d] = document[d]
      BY <1>1, <1>2, <2>1, Typed
    <2>7. /\ document'[c.doc].current = c.file
          /\ document'[c.doc].code = NextCode(c.prefix)
          /\ document'[c.doc].status = "Active"
      BY <2>3
    <2> QED
      BY <1>6, <1>7, <1>8, <2>3, <2>4, <2>5, <2>6, <2>7
  <1>9. CASE c.op # "upload"
    <2>1. document' = [document EXCEPT ![c.doc] = next]
      BY <1>2, <1>9, Zenon DEF Inserted
    <2>2. document[c.doc] \in DocumentRows
      BY <1>1, <1>2, <1>9, Typed
    <2>3. next \in DocumentRows
      BY <1>1, <2>2, Zenon DEF DocumentRows
    <2>4. /\ next.current = c.file
          /\ next.code = document[c.doc].code
          /\ next.status = document[c.doc].status
      BY <2>2 DEF DocumentRows
    <2>5. document'[c.doc] = next
      BY <1>1, <1>2, <2>1, Typed
    <2>6. next # None
      BY <2>3, DocumentsNoneAssumption
    <2>7. document' \in [Docs -> DocumentRows \cup {None}]
      BY <1>1, <1>2, <2>1, <2>3, Typed
    <2>8. \A d \in Docs \ {c.doc} : document'[d] = document[d]
      BY <1>1, <1>2, <2>1, Typed
    <2> QED
      BY <1>6, <1>7, <1>9, <2>4, <2>5, <2>6, <2>7, <2>8
  <1> QED
    BY <1>8, <1>9

LEMMA InsertedVersions ==
  ASSUME Inv, NEW j \in Jobs, NEW s \in {"activity", "cleanup"}, Inserts(j, s),
         NEW c, c = docCall[j]
  PROVE  /\ VersionsOf(c.doc)' = VersionsOf(c.doc) \cup {c.file}
         /\ c.file \notin VersionsOf(c.doc)
         /\ \A d \in Docs \ {c.doc} : VersionsOf(d)' = VersionsOf(d)
  <1>1. c.file \in Files /\ version[c.file] = None
    BY InsertingCall DEF Inserts
  <1>2. /\ version'[c.file] # None /\ version'[c.file].doc = c.doc
        /\ \A g \in Files \ {c.file} : version'[g] = version[g]
    BY InsertedRows
  <1>3. VersionsOf(c.doc)' = VersionsOf(c.doc) \cup {c.file}
    BY <1>1, <1>2 DEF VersionsOf
  <1>4. \A d \in Docs \ {c.doc} : VersionsOf(d)' = VersionsOf(d)
    BY <1>1, <1>2 DEF VersionsOf
  <1>5. c.file \notin VersionsOf(c.doc)
    BY <1>1 DEF VersionsOf
  <1> QED
    BY <1>3, <1>4, <1>5

LEMMA InsertKeepsTypes ==
  ASSUME Inv, NEW j \in Jobs, NEW s \in {"activity", "cleanup"}, Inserts(j, s)
  PROVE  Types'
  <1> DEFINE c == docCall[j]
  <1>1. Types /\ Calls /\ c # None
    BY DEF Inv, Inserts
  <1>2. c \in DocumentCalls /\ c.key \in Keys
    BY <1>1, CallOf
  <1>3. [c EXCEPT !.step = s] \in DocumentCalls
    BY <1>2, CallAtStep DEF DocumentSteps
  <1>4. docCall' \in [Jobs -> DocumentCalls \cup {None}]
    BY <1>1, <1>3, Typed DEF Inserts
  <1>5. version' \in [Files -> VersionRows \cup {None}] /\ document' \in [Docs -> DocumentRows \cup {None}]
    BY InsertedRows
  <1>6. /\ blobs' \in SUBSET Keys /\ activity' \in SUBSET Keys
        /\ interrupted' \in SUBSET Keys /\ unanswered' \in SUBSET Keys
        /\ requests' \in 0..MaxRequests /\ faults' \in 0..MaxFaults
    BY <1>1, <1>2, Typed DEF Inserts
  <1> QED
    BY <1>4, <1>5, <1>6 DEF Types, DocumentsTypeOK, HandlersTypeOK

LEMMA InsertKeepsChain ==
  ASSUME Inv, NEW j \in Jobs, NEW s \in {"activity", "cleanup"}, Inserts(j, s),
         NEW c, c = docCall[j]
  PROVE  Chain'
  <1> DEFINE d == c.doc
             f == c.file
             V == VersionsOf(d)
             n == Cardinality(V)
  <1>1. Chain /\ d \in Docs /\ f \in Files
    BY InsertingCall DEF Inv
  <1>2. V' = V \cup {f} /\ f \notin V /\ \A e \in Docs \ {d} : VersionsOf(e)' = VersionsOf(e)
    BY InsertedVersions
  <1>3. /\ version'[f].number = n + 1
        /\ \A g \in Files \ {f} : version'[g] = version[g]
        /\ document'[d] # None /\ document'[d].current = f
        /\ \A e \in Docs \ {d} : document'[e] = document[e]
    BY InsertedRows
  <1>4. n \in Nat /\ Cardinality(V') = n + 1
    <2>1. IsFiniteSet(V) /\ n \in Nat
      BY <1>1, Counted
    <2> QED
      BY <1>2, <2>1, FS_AddElement
  <1>5. Numbered(d)'
    <2>1. /\ {version[g].number : g \in V} = 1..n
          /\ \A g, h \in V : version[g].number = version[h].number => g = h
      BY <1>1 DEF Chain, Numbered
    <2>2. \A g \in V : g \in Files /\ version'[g] = version[g]
      BY <1>2, <1>3 DEF VersionsOf
    <2>3. {version'[g].number : g \in V'} = 1..(n + 1)
      <3>1. {version'[g].number : g \in V'} = {version[g].number : g \in V} \cup {n + 1}
        BY <1>2, <1>3, <2>2
      <3>2. 1..(n + 1) = 1..n \cup {n + 1}
        BY <1>4
      <3> HIDE DEF n, V
      <3> QED
        BY <2>1, <3>1, <3>2
    <2>4. \A g \in V : version'[g].number \in 1..n
      BY <2>1, <2>2
    <2>5. \A g, h \in V' : version'[g].number = version'[h].number => g = h
      BY <1>2, <1>3, <1>4, <2>1, <2>2, <2>4
    <2> QED
      BY <1>4, <2>3, <2>5 DEF Numbered
  <1>6. Headed(d)'
    BY <1>2, <1>3, <1>4 DEF Headed
  <1>7. ASSUME NEW e \in Docs \ {d}
        PROVE  Numbered(e)' /\ Headed(e)'
    <2>1. VersionsOf(e)' = VersionsOf(e) /\ document'[e] = document[e]
      BY <1>2, <1>3
    <2>2. \A g \in VersionsOf(e) : version'[g] = version[g]
      <3>1. f \notin VersionsOf(e)
        BY DEF VersionsOf, Inserts
      <3> QED
        BY <1>3, <3>1 DEF VersionsOf
    <2>3. Numbered(e) /\ Headed(e)
      BY <1>1 DEF Chain
    <2> QED
      BY <2>1, <2>2, <2>3 DEF Numbered, Headed
  <1>8. IsFiniteSet({g \in Files : version[g] # None})'
    <2>1. {g \in Files : version'[g] # None} \subseteq {g \in Files : version[g] # None} \cup {f}
      BY <1>3
    <2>2. IsFiniteSet({g \in Files : version[g] # None} \cup {f})
      BY <1>1, FS_AddElement DEF Chain
    <2> QED
      BY <2>1, <2>2, FS_Subset
  <1> QED
    BY <1>5, <1>6, <1>7, <1>8 DEF Chain

LEMMA InsertedKeys ==
  ASSUME Inv, NEW j \in Jobs, NEW s \in {"activity", "cleanup"}, Inserts(j, s),
         NEW c, c = docCall[j]
  PROVE  /\ HasVersion(c.key)'
         /\ \A k \in Keys \ {c.key} : HasVersion(k)' <=> HasVersion(k)
  <1>1. c.file \in Files /\ version[c.file] = None
    BY InsertingCall DEF Inserts
  <1>2. /\ version'[c.file] # None /\ version'[c.file].key = c.key
        /\ \A g \in Files \ {c.file} : version'[g] = version[g]
    BY InsertedRows
  <1> QED
    BY <1>1, <1>2 DEF HasVersion

LEMMA InsertKeepsCalls ==
  ASSUME Inv, NEW j \in Jobs, NEW s \in {"activity", "cleanup"}, Inserts(j, s),
         NEW c, c = docCall[j]
  PROVE  Calls'
  <1> DEFINE x == [c EXCEPT !.step = s]
  <1>1. Types /\ Calls /\ c # None /\ c.step = "insert"
    BY DEF Inv, Inserts
  <1>2. c \in DocumentCalls /\ c.doc \in Docs /\ c.key \in Keys /\ CallShape(c) /\ CallBytes(c)
    BY <1>1, CallOf
  <1>3. /\ x # None /\ x.step = s /\ x.op = c.op /\ x.doc = c.doc
        /\ x.file = c.file /\ x.prefix = c.prefix /\ x.key = c.key
    <2>1. s \in DocumentSteps
      BY DEF DocumentSteps
    <2> QED
      BY <1>2, <2>1, CallAtStep
  <1>4. docCall'[j] = x /\ \A i \in Jobs \ {j} : docCall'[i] = docCall[i]
    BY <1>1, Typed DEF Inserts
  <1>5. document'[c.doc] # None /\ \A d \in Docs \ {c.doc} : document'[d] = document[d]
    BY InsertedRows
  <1>6. HasVersion(c.key)' /\ \A k \in Keys \ {c.key} : HasVersion(k)' <=> HasVersion(k)
    BY InsertedKeys
  <1>7. /\ requests' = requests /\ blobs' = blobs
        /\ interrupted \subseteq interrupted' /\ unanswered \subseteq unanswered'
        /\ s = "cleanup" => c.key \in interrupted' \cap unanswered'
    BY DEF Inserts
  <1> HIDE DEF x
  <1>8. CallShape(docCall[j])' /\ CallBytes(docCall[j])'
    <2>1. CallShape(docCall[j])'
      BY <1>1, <1>2, <1>3, <1>4, <1>5 DEF CallShape, Writes, Pending
    <2>2. CallBytes(docCall[j])'
      BY <1>1, <1>2, <1>3, <1>4, <1>6, <1>7 DEF CallBytes, CallShape, Writes, Pending, HasVersion
    <2> QED
      BY <2>1, <2>2
  <1>9. ASSUME NEW i \in Jobs, i # j, docCall'[i] # None
        PROVE  CallShape(docCall[i])' /\ CallBytes(docCall[i])'
    <2>1. docCall'[i] = docCall[i]
      BY <1>4, <1>9
    <2>2. /\ docCall[i].doc \in Docs /\ docCall[i].key \in Keys
          /\ CallShape(docCall[i]) /\ CallBytes(docCall[i])
      BY <1>1, <1>9, <2>1, CallOf
    <2>3. Apart(docCall[i], c)
      BY <1>1, <1>9, <2>1 DEF Calls
    <2>4. CallShape(docCall[i])'
      BY <1>5, <2>1, <2>2, <2>3 DEF CallShape, Apart, Writes, Pending
    <2>5. docCall[i].key # c.key
      BY <2>3 DEF Apart
    <2>6. HasVersion(docCall[i].key)' <=> HasVersion(docCall[i].key)
      BY <1>6, <2>1, <2>2, <2>5 DEF HasVersion
    <2>7. CallBytes(docCall[i])'
      BY <1>7, <2>1, <2>2, <2>6 DEF CallBytes, Writes, Pending, HasVersion
    <2> QED
      BY <2>4, <2>7
  <1>10. ASSUME NEW h \in Jobs, NEW i \in Jobs, h # i, docCall'[h] # None, docCall'[i] # None
         PROVE  Apart(docCall'[h], docCall'[i])
    <2>1. \A k \in Jobs : docCall'[k] # None =>
            /\ docCall[k] # None
            /\ docCall'[k].key = docCall[k].key
            /\ docCall'[k].doc = docCall[k].doc
            /\ docCall'[k].op = docCall[k].op
            /\ Pending(docCall'[k]) => Pending(docCall[k])
      BY <1>1, <1>3, <1>4 DEF Pending
    <2>2. Apart(docCall[h], docCall[i])
      BY <1>1, <1>10, <2>1 DEF Calls
    <2> QED
      BY <1>10, <2>1, <2>2 DEF Apart
  <1> QED
    BY <1>8, <1>9, <1>10 DEF Calls

LEMMA InsertKeepsStorage ==
  ASSUME Inv, NEW j \in Jobs, NEW s \in {"activity", "cleanup"}, Inserts(j, s),
         NEW c, c = docCall[j]
  PROVE  KeysInUse' /\ BytesAreKept' /\ NothingLeftBehind'
  <1>1. Types /\ Calls /\ c # None /\ c.step = "insert"
    BY DEF Inv, Inserts
  <1>2. c.doc \in Docs /\ c.key \in Keys /\ c.key <= requests /\ c.key \in blobs
    <2>1. c.key \in Keys /\ c.doc \in Docs /\ CallShape(c) /\ CallBytes(c)
      BY <1>1, CallOf
    <2> QED
      BY <1>1, <2>1 DEF CallShape, CallBytes
  <1>3. /\ c.file \in Files /\ version'[c.file].key = c.key
        /\ \A g \in Files \ {c.file} : version'[g] = version[g]
    BY InsertingCall, InsertedRows
  <1>4. \A k \in Keys \ {c.key} : HasVersion(k)' <=> HasVersion(k)
    BY InsertedKeys
  <1>5. /\ requests' = requests /\ blobs' = blobs /\ activity' = activity
        /\ interrupted \subseteq interrupted' /\ unanswered \subseteq unanswered'
    BY DEF Inserts
  <1>6. KeysInUse'
    BY <1>2, <1>3, <1>5 DEF Inv, KeysInUse
  <1>7. BytesAreKept'
    BY <1>2, <1>3, <1>5 DEF Inv, BytesAreKept
  <1>8. NothingLeftBehind'
    <2> SUFFICES ASSUME NEW k \in Keys, ~InFlight(k)', k \notin interrupted'
                 PROVE  k \in blobs' <=> HasVersion(k)' /\ k \in activity'
      BY DEF NothingLeftBehind, HasVersion
    <2>1. [c EXCEPT !.step = s] # None /\ [c EXCEPT !.step = s].key = c.key
      <3>1. c \in DocumentCalls /\ s \in DocumentSteps
        BY <1>1, CallOf DEF DocumentSteps
      <3> QED
        BY <3>1, CallAtStep
    <2>2. docCall'[j] = [c EXCEPT !.step = s] /\ \A i \in Jobs \ {j} : docCall'[i] = docCall[i]
      BY <1>1, Typed DEF Inserts
    <2>3. k # c.key
      BY <2>1, <2>2 DEF InFlight
    <2>4. ~InFlight(k)
      BY <2>2, <2>3 DEF InFlight
    <2>5. k \in blobs <=> HasVersion(k) /\ k \in activity
      BY <1>5, <2>4 DEF Inv, NothingLeftBehind, HasVersion
    <2> QED
      BY <1>4, <1>5, <2>3, <2>5
  <1> QED
    BY <1>6, <1>7, <1>8

\* The first version of a document leaves room for the other handlers, and
\* that of a replacement takes the place the handler had.
LEMMA InsertKeepsLimit ==
  ASSUME Inv, NEW j \in Jobs, NEW s \in {"activity", "cleanup"}, Inserts(j, s),
         NEW c, c = docCall[j]
  PROVE  VersionLimit'
  <1> SUFFICES ASSUME NEW d \in Docs, VersionsOf(d)' # {}
               PROVE  Cardinality(VersionsOf(d)') + Cardinality(Replacing(d)')
                        < MaxVersions + Cardinality(Jobs)
    BY DEF VersionLimit
  <1>1. Types /\ Calls /\ Chain /\ c # None /\ c.step = "insert" /\ c.doc \in Docs
    BY InsertingCall DEF Inv, Inserts
  <1>2. /\ VersionsOf(c.doc)' = VersionsOf(c.doc) \cup {c.file}
        /\ c.file \notin VersionsOf(c.doc)
        /\ \A e \in Docs \ {c.doc} : VersionsOf(e)' = VersionsOf(e)
    BY InsertedVersions
  <1>3. /\ IsFiniteSet(VersionsOf(d)) /\ Cardinality(VersionsOf(d)) \in Nat
        /\ IsFiniteSet(Replacing(d)) /\ Cardinality(Replacing(d)) \in Nat
        /\ Cardinality(Replacing(d)) <= Cardinality(Jobs)
        /\ Cardinality(Jobs) \in Nat /\ IsFiniteSet(Jobs) /\ MaxVersions \in Nat \ {0}
    BY <1>1, Counted, DocumentsAssumption, HandlersAssumption
  <1>4. Replacing(d)' \subseteq Replacing(d) \ {j}
    <2>1. docCall'[j].step = s /\ \A i \in Jobs \ {j} : docCall'[i] = docCall[i]
      <3>1. c \in DocumentCalls /\ s \in DocumentSteps
        BY <1>1, CallOf DEF DocumentSteps
      <3>2. [c EXCEPT !.step = s].step = s
        BY <3>1, CallAtStep
      <3> QED
        BY <1>1, <3>2, Typed DEF Inserts
    <2> QED
      BY <2>1 DEF Replacing
  <1>5. IsFiniteSet(Replacing(d) \ {j}) /\ IsFiniteSet(Jobs \ {j})
    BY <1>3, FS_RemoveElement
  <1>6. /\ Cardinality(Replacing(d)') \in Nat
        /\ Cardinality(Replacing(d)') <= Cardinality(Replacing(d) \ {j})
    BY <1>4, <1>5, FS_Subset, FS_CardinalityType
  <1>7. /\ Cardinality(Replacing(d) \ {j}) \in Nat
        /\ Cardinality(Replacing(d) \ {j}) <= Cardinality(Replacing(d))
    BY <1>3, <1>5, FS_Subset, FS_CardinalityType
  <1>8. VersionsOf(d) # {} =>
          Cardinality(VersionsOf(d)) + Cardinality(Replacing(d)) < MaxVersions + Cardinality(Jobs)
    BY <1>1 DEF Inv, VersionLimit
  <1>9. CASE d # c.doc
    <2>1. VersionsOf(d)' = VersionsOf(d)
      BY <1>2, <1>9
    <2> QED
      BY <1>3, <1>6, <1>7, <1>8, <2>1
  <1>10. CASE d = c.doc
    <2>1. Cardinality(VersionsOf(d)') = Cardinality(VersionsOf(d)) + 1
      BY <1>2, <1>3, <1>10, FS_AddElement
    <2>2. CASE c.op = "upload"
      <3>1. VersionsOf(d) = {} /\ Cardinality(VersionsOf(d)) = 0
        BY <1>1, <1>10, <2>2, InsertingCall, FS_EmptySet DEF Chain, Headed
      <3>2. Replacing(d) \ {j} \subseteq Jobs \ {j}
        BY DEF Replacing
      <3>3. Cardinality(Replacing(d) \ {j}) <= Cardinality(Jobs \ {j})
        BY <1>5, <3>2, FS_Subset
      <3>4. Cardinality(Jobs \ {j}) = Cardinality(Jobs) - 1
        BY <1>3, FS_RemoveElement
      <3> QED
        BY <1>3, <1>6, <2>1, <3>1, <3>3, <3>4, FS_CardinalityType, <1>5
    <2>3. CASE c.op # "upload"
      <3>1. c.op = "replace" /\ document[d] # None
        BY <1>10, <2>3, InsertingCall DEF Writes
      <3>2. VersionsOf(d) # {}
        BY <1>1, <3>1 DEF Chain, Headed
      <3>3. j \in Replacing(d)
        BY <1>1, <1>10, <3>1 DEF Replacing
      <3>4. Cardinality(Replacing(d) \ {j}) = Cardinality(Replacing(d)) - 1
        BY <1>3, <3>3, FS_RemoveElement
      <3> QED
        BY <1>3, <1>6, <1>8, <2>1, <3>2, <3>4
    <2> QED
      BY <2>2, <2>3
  <1> QED
    BY <1>9, <1>10

LEMMA InsertKeepsCodes ==
  ASSUME Inv, NEW j \in Jobs, NEW s \in {"activity", "cleanup"}, Inserts(j, s),
         NEW c, c = docCall[j]
  PROVE  \E b \in Nat : CodesBelow(b)'
  <1>1. PICK b \in Nat : CodesBelow(b)
    BY DEF Inv
  <1>2. /\ Types /\ c.doc \in Docs
        /\ c.op = "upload" => c.prefix \in Prefixes
        /\ c.op # "upload" => document[c.doc] # None
    BY InsertingCall DEF Inv
  <1>3. /\ document'[c.doc].code =
             IF c.op = "upload" THEN NextCode(c.prefix) ELSE document[c.doc].code
        /\ \A d \in Docs \ {c.doc} : document'[d] = document[d]
    BY InsertedRows
  <1>4. CASE c.op # "upload"
    <2>1. CodesBelow(b)'
      BY <1>1, <1>2, <1>3, <1>4 DEF CodesBelow
    <2> QED
      BY <2>1
  <1>5. CASE c.op = "upload"
    <2> DEFINE code == NextCode(c.prefix)
    <2>1. /\ code = Append(c.prefix, 1 + Max({0} \cup Sequences(c.prefix)))
          /\ Max({0} \cup Sequences(c.prefix)) \in Nat
          /\ c.prefix \in Seq(Nat) /\ Len(c.prefix) <= 1
          /\ code \in Seq(Nat)
      <3>1. c.prefix \in Prefixes /\ Types
        BY <1>2, <1>5
      <3>2. c.prefix \in Seq(Nat) /\ Len(c.prefix) <= 1
        BY <3>1, DocumentsAssumption
      <3> QED
        BY <1>1, <3>1, <3>2, NextCodeTyped
    <2>2. PICK u \in Nat : \A i \in DOMAIN code : code[i] <= u
      <3> DEFINE m == Max({0} \cup Sequences(c.prefix))
      <3> HIDE DEF m
      <3>1. \E a \in Nat : \A i \in DOMAIN c.prefix : c.prefix[i] <= a
        <4>1. CASE Len(c.prefix) = 0
          BY <2>1, <4>1
        <4>2. CASE Len(c.prefix) = 1
          BY <2>1, <4>2
        <4> QED
          BY <2>1, <4>1, <4>2
      <3>2. PICK a \in Nat : \A i \in DOMAIN c.prefix : c.prefix[i] <= a
        BY <3>1
      <3>3. \A i \in DOMAIN code : code[i] <= a + 1 + m
        BY <2>1, <3>2 DEF m
      <3>4. a + 1 + m \in Nat
        BY <2>1, <3>2 DEF m
      <3> QED
        BY <3>3, <3>4
    <2> HIDE DEF code
    <2>3. CodesBelow(b + u)'
      <3> SUFFICES ASSUME NEW d \in Docs, document'[d] # None, NEW i \in DOMAIN document'[d].code
                   PROVE  document'[d].code[i] <= b + u
        BY DEF CodesBelow
      <3>1. CASE d = c.doc
        <4>1. document'[d].code = code
          BY <1>3, <1>5, <3>1 DEF code
        <4>2. i \in DOMAIN code /\ code[i] <= u
          BY <2>2, <4>1
        <4>3. code[i] \in Nat
          BY <2>1, <4>2, ElementOfSeq, LenProperties
        <4> QED
          BY <1>1, <2>2, <4>1, <4>2, <4>3
      <3>2. CASE d # c.doc
        <4>1. document'[d] = document[d] /\ document[d] # None /\ i \in DOMAIN document[d].code
          BY <1>3, <3>2
        <4>2. document[d].code[i] \in Nat
          <5>1. document[d] \in DocumentRows
            BY <1>2, <4>1, Typed
          <5> QED
            BY <4>1, <5>1 DEF DocumentRows
        <4>3. document[d].code[i] <= b
          BY <1>1, <4>1 DEF CodesBelow
        <4> QED
          BY <1>1, <2>2, <4>1, <4>2, <4>3
      <3> QED
        BY <3>1, <3>2
    <2> QED
      BY <1>1, <2>2, <2>3
  <1> QED
    BY <1>4, <1>5

LEMMA InsertKeeps ==
  ASSUME Inv, NEW j \in Jobs, NEW s \in {"activity", "cleanup"}, Inserts(j, s)
  PROVE  Inv'
  BY InsertKeepsTypes, InsertKeepsCalls, InsertKeepsChain, InsertKeepsStorage,
     InsertKeepsLimit, InsertKeepsCodes DEF Inv

-----------------------------------------------------------------------------
(* Requests that begin. *)

LEMMA BeginKeeps ==
  ASSUME Inv, NEW j \in Jobs, NEW x \in DocumentCalls, Begin(j, x),
         x.key = requests + 1, CallShape(x),
         x.step = IF Writes(x) THEN "store" ELSE "write",
         x.op = "upload" => \A i \in Jobs : docCall[i] # None => docCall[i].doc # x.doc,
         x.op = "replace" => Cardinality(VersionsOf(x.doc)) < MaxVersions
  PROVE  Inv'
  <1>1. Types /\ Calls /\ Chain /\ KeysInUse /\ requests \in Nat
    BY Typed DEF Inv, Types, HandlersTypeOK
  <1>2. /\ requests < MaxRequests /\ requests' = requests + 1 /\ faults' = faults
        /\ UNCHANGED <<document, version, blobs, activity, interrupted, unanswered>>
        /\ docCall[j] = None
        /\ docCall' = [docCall EXCEPT ![j] = x]
    BY DEF Begin, Request, Set, ghosts
  <1>3. x # None /\ x.doc \in Docs /\ x.key \in Keys
    BY DocumentsNoneAssumption DEF DocumentCalls
  <1>4. docCall'[j] = x /\ \A i \in Jobs \ {j} : docCall'[i] = docCall[i]
    BY <1>1, <1>2, Typed
  <1>5. Types'
    <2>1. docCall' \in [Jobs -> DocumentCalls \cup {None}]
      BY <1>1, <1>2, Typed
    <2>2. requests' \in 0..MaxRequests
      BY <1>1, <1>2, HandlersAssumption
    <2> QED
      BY <1>1, <1>2, <2>1, <2>2 DEF Types, DocumentsTypeOK, HandlersTypeOK
  <1>6. x.key \notin blobs /\ ~HasVersion(x.key)
    <2>1. \A k \in Nat : k <= requests => k # x.key
      BY <1>1
    <2>2. \A k \in blobs : k \in Nat
      BY <1>1, Typed, KeysAreNumbers
    <2>3. \A f \in Files : version[f] # None => version[f].key \in Nat
      BY <1>1, VersionOf, KeysAreNumbers
    <2> QED
      BY <1>1, <2>1, <2>2, <2>3 DEF KeysInUse, HasVersion
  <1>7. ASSUME NEW i \in Jobs, docCall'[i] # None
        PROVE  CallShape(docCall[i])' /\ CallBytes(docCall[i])'
    <2>1. CASE i = j
      <3>1. CallShape(docCall[i])'
        BY <1>2, <1>4, <2>1 DEF CallShape, Writes, Pending
      <3>2. x.key <= requests'
        BY <1>1, <1>2
      <3>3. CallBytes(docCall[i])'
        BY <1>2, <1>4, <1>6, <2>1, <3>2 DEF CallBytes, Writes, Pending, HasVersion
      <3> QED
        BY <3>1, <3>3
    <2>2. CASE i # j
      <3>1. docCall'[i] = docCall[i]
        BY <1>4, <2>2
      <3>2. CallShape(docCall[i]) /\ CallBytes(docCall[i]) /\ docCall[i].key \in Nat
        BY <1>1, <1>7, <3>1, CallOf, KeysAreNumbers
      <3>3. CallShape(docCall[i])'
        BY <1>2, <3>1, <3>2 DEF CallShape, Writes, Pending
      <3>4. CallBytes(docCall[i])'
        BY <1>1, <1>2, <3>1, <3>2 DEF CallBytes, Writes, Pending, HasVersion
      <3> QED
        BY <3>3, <3>4
    <2> QED
      BY <2>1, <2>2
  <1>8. ASSUME NEW i \in Jobs, i # j, docCall[i] # None
        PROVE  Apart(x, docCall[i]) /\ Apart(docCall[i], x)
    <2>1. CallShape(docCall[i]) /\ CallBytes(docCall[i]) /\ docCall[i].key \in Nat
      BY <1>1, <1>8, CallOf, KeysAreNumbers
    <2>2. docCall[i].key # x.key
      BY <1>1, <2>1 DEF CallBytes
    <2>3. x.op # "upload" => document[x.doc] # None
      BY DEF CallShape
    <2>4. docCall[i].op = "upload" /\ Pending(docCall[i]) => document[docCall[i].doc] = None
      BY <2>1 DEF CallShape
    <2> QED
      BY <1>8, <2>2, <2>3, <2>4 DEF Apart
  <1>9. Calls'
    <2>1. ASSUME NEW h \in Jobs, NEW i \in Jobs, h # i, docCall'[h] # None, docCall'[i] # None
          PROVE  Apart(docCall'[h], docCall'[i])
      <3>1. CASE h = j
        BY <1>4, <1>8, <2>1, <3>1
      <3>2. CASE i = j
        BY <1>4, <1>8, <2>1, <3>2
      <3>3. CASE h # j /\ i # j
        BY <1>1, <1>4, <2>1, <3>3 DEF Calls
      <3> QED
        BY <3>1, <3>2, <3>3
    <2> QED
      BY <1>7, <2>1 DEF Calls
  <1>10. SameRows
    BY <1>2 DEF SameRows
  <1>11. Chain' /\ \E b \in Nat : CodesBelow(b)'
    BY <1>2, <1>10, SameVersionsKeepChain, SameRowsKeepCodes DEF Inv
  <1>12. KeysInUse'
    <2>1. \A k \in blobs : k \in Nat
      BY <1>1, Typed, KeysAreNumbers
    <2>2. \A f \in Files : version[f] # None => version[f].key \in Nat
      BY <1>1, VersionOf, KeysAreNumbers
    <2> QED
      BY <1>1, <1>2, <2>1, <2>2 DEF KeysInUse
  <1>13. BytesAreKept'
    BY <1>2 DEF Inv, BytesAreKept
  <1>14. NothingLeftBehind'
    <2>1. \A k \in Keys : InFlight(k) => InFlight(k)'
      BY <1>2, <1>4 DEF InFlight
    <2> QED
      BY <1>2, <2>1 DEF Inv, NothingLeftBehind
  <1>15. VersionLimit'
    <2> SUFFICES ASSUME NEW d \in Docs, VersionsOf(d)' # {}
                 PROVE  Cardinality(VersionsOf(d)') + Cardinality(Replacing(d)')
                          < MaxVersions + Cardinality(Jobs)
      BY DEF VersionLimit
    <2>1. VersionsOf(d)' = VersionsOf(d)
      BY <1>2 DEF VersionsOf
    <2>2. /\ Cardinality(VersionsOf(d)) \in Nat
          /\ IsFiniteSet(Replacing(d)) /\ Cardinality(Replacing(d)) \in Nat
          /\ Cardinality(Jobs) \in Nat /\ MaxVersions \in Nat
          /\ Cardinality(Replacing(d)') <= Cardinality(Jobs) /\ Cardinality(Replacing(d)') \in Nat
      <3>1. Replacing(d)' \subseteq Jobs
        BY DEF Replacing
      <3>2. /\ Cardinality(Replacing(d)') <= Cardinality(Jobs)
            /\ Cardinality(Replacing(d)') \in Nat
        BY <3>1, FS_Subset, FS_CardinalityType, HandlersAssumption
      <3> QED
        BY <1>1, <3>2, Counted, DocumentsAssumption
    <2>3. CASE x.op = "replace" /\ d = x.doc
      BY <2>1, <2>2, <2>3
    <2>4. CASE ~(x.op = "replace" /\ d = x.doc)
      <3>1. Replacing(d)' \subseteq Replacing(d)
        BY <1>4, <2>4 DEF Replacing
      <3>2. Cardinality(Replacing(d)') <= Cardinality(Replacing(d))
        BY <2>2, <3>1, FS_Subset
      <3>3. Cardinality(VersionsOf(d)) + Cardinality(Replacing(d)) < MaxVersions + Cardinality(Jobs)
        BY <2>1 DEF Inv, VersionLimit
      <3> QED
        BY <2>1, <2>2, <3>2, <3>3
    <2> QED
      BY <2>3, <2>4
  <1> QED
    BY <1>5, <1>9, <1>11, <1>12, <1>13, <1>14, <1>15 DEF Inv

LEMMA CallTyped ==
  ASSUME Types, requests < MaxRequests,
         NEW op \in {"upload", "replace", "edit", "archive"}, NEW step \in DocumentSteps,
         NEW d \in Docs, NEW f \in Files \cup {None}, NEW p \in Prefixes \cup {None},
         NEW x, x = Call(op, step, d, f, p)
  PROVE  /\ x \in DocumentCalls
         /\ x.op = op /\ x.step = step /\ x.doc = d /\ x.file = f /\ x.prefix = p
         /\ x.key = requests + 1
  <1>1. requests + 1 \in Keys
    BY HandlersAssumption DEF Keys, Types, HandlersTypeOK
  <1>2. x = [op |-> op, step |-> step, doc |-> d, file |-> f, prefix |-> p, key |-> requests + 1]
    BY DEF Call
  <1>3. x \in DocumentCalls
    BY <1>1, <1>2 DEF DocumentCalls, DocumentSteps
  <1> QED
    BY <1>2, <1>3

LEMMA UploadKeeps ==
  ASSUME Inv, NEW j \in Jobs, NEW d \in Docs, NEW f \in Files, NEW p \in Prefixes,
         Upload(j, d, f, p)
  PROVE  Inv'
  <1> DEFINE x == Call("upload", "store", d, f, p)
  <1>1. Types /\ requests < MaxRequests /\ Begin(j, x)
    BY DEF Inv, Upload, Begin, Request
  <1>2. /\ x \in DocumentCalls
        /\ x.op = "upload" /\ x.step = "store" /\ x.doc = d /\ x.file = f /\ x.prefix = p
        /\ x.key = requests + 1
    BY <1>1, CallTyped DEF DocumentSteps
  <1> HIDE DEF x
  <1>3. CallShape(x)
    BY <1>2 DEF CallShape, Upload, Writes, Pending
  <1>4. x.step = IF Writes(x) THEN "store" ELSE "write"
    BY <1>2 DEF Writes
  <1>5. \A i \in Jobs : docCall[i] # None => docCall[i].doc # x.doc
    BY <1>2 DEF Upload
  <1> QED
    BY <1>1, <1>2, <1>3, <1>4, <1>5, BeginKeeps

LEMMA ReplaceKeeps ==
  ASSUME Inv, NEW j \in Jobs, NEW d \in Docs, NEW f \in Files, Replace(j, d, f)
  PROVE  Inv'
  <1> DEFINE x == Call("replace", "store", d, f, None)
  <1>1. Types /\ requests < MaxRequests /\ Begin(j, x)
    BY DEF Inv, Replace, Begin, Request
  <1>2. /\ x \in DocumentCalls
        /\ x.op = "replace" /\ x.step = "store" /\ x.doc = d /\ x.file = f
        /\ x.key = requests + 1
    BY <1>1, CallTyped DEF DocumentSteps
  <1> HIDE DEF x
  <1>3. CallShape(x)
    BY <1>2 DEF CallShape, Replace, Live, Writes, Pending
  <1>4. x.step = IF Writes(x) THEN "store" ELSE "write"
    BY <1>2 DEF Writes
  <1>5. Cardinality(VersionsOf(x.doc)) < MaxVersions
    BY <1>2 DEF Replace
  <1> QED
    BY <1>1, <1>2, <1>3, <1>4, <1>5, BeginKeeps

LEMMA ChangeKeeps ==
  ASSUME Inv, NEW j \in Jobs, NEW d \in Docs, Edit(j, d) \/ Archive(j, d)
  PROVE  Inv'
  <1>1. PICK op \in {"edit", "archive"} : Live(d) /\ Begin(j, Call(op, "write", d, None, None))
    BY DEF Edit, Archive
  <1> DEFINE x == Call(op, "write", d, None, None)
  <1>2. Types /\ requests < MaxRequests /\ Begin(j, x)
    BY <1>1 DEF Inv, Begin, Request
  <1>3. /\ x \in DocumentCalls
        /\ x.op = op /\ x.step = "write" /\ x.doc = d /\ x.key = requests + 1
    BY <1>2, CallTyped DEF DocumentSteps
  <1> HIDE DEF x
  <1>4. CallShape(x)
    BY <1>1, <1>3 DEF CallShape, Live, Writes, Pending
  <1>5. x.step = IF Writes(x) THEN "store" ELSE "write"
    BY <1>3 DEF Writes
  <1> QED
    BY <1>2, <1>3, <1>4, <1>5, BeginKeeps

-----------------------------------------------------------------------------
(* Handlers that go on, or end. *)

LEMMA MovedCall ==
  ASSUME Inv, NEW j \in Jobs, docCall[j] # None, NEW s \in DocumentSteps,
         NEW x, x = [docCall[j] EXCEPT !.step = s]
  PROVE  /\ x \in DocumentCalls /\ x # None
         /\ x.step = s /\ x.op = docCall[j].op /\ x.doc = docCall[j].doc
         /\ x.file = docCall[j].file /\ x.prefix = docCall[j].prefix /\ x.key = docCall[j].key
         /\ CallShape(docCall[j]) /\ CallBytes(docCall[j]) /\ docCall[j].key \in Keys
  BY CallOf, CallAtStep DEF Inv

LEMMA StoreStreamKeeps ==
  ASSUME Inv, NEW j \in Jobs, StoreStream(j)
  PROVE  Inv'
  <1> DEFINE c == docCall[j]
  <1> PICK x : x = [c EXCEPT !.step = "dedupe"]
    OBVIOUS
  <1>1. /\ c # None /\ c.step = "store"
        /\ blobs' = blobs \cup {c.key}
        /\ docCall' = [docCall EXCEPT ![j] = x]
        /\ UNCHANGED <<document, version, activity, interrupted, unanswered, requests, faults>>
    BY Zenon DEF StoreStream, At, Moved, Set, handlerVars, ghosts
  <1>2. /\ x \in DocumentCalls /\ x # None
        /\ x.step = "dedupe" /\ x.op = c.op /\ x.doc = c.doc
        /\ x.file = c.file /\ x.prefix = c.prefix /\ x.key = c.key
        /\ CallShape(c) /\ CallBytes(c) /\ c.key \in Keys
    BY <1>1, MovedCall DEF DocumentSteps
  <1>3. Types'
    BY <1>1, <1>2, Typed DEF Inv, Types, DocumentsTypeOK, HandlersTypeOK
  <1>4. Goes(j, x)
    BY <1>1, <1>2 DEF Goes, SameRows, Pending
  <1>5. CallShape(x)'
    BY <1>1, <1>2 DEF CallShape, Writes, Pending
  <1>6. CallBytes(x)'
    BY <1>1, <1>2 DEF CallBytes, CallShape, Writes, Pending, HasVersion
  <1> QED
    BY <1>1, <1>2, <1>3, <1>4, <1>5, <1>6, GoesKeeps

\* To the next query, or to the catch block, with nothing written.
LEMMA StepKeeps ==
  ASSUME Inv, NEW j \in Jobs, docCall[j] # None, NEW s \in DocumentSteps,
         docCall[j].step \in {"dedupe", "insert"} /\ s \in {"insert", "cleanup"},
         docCall' = [docCall EXCEPT ![j] = [docCall[j] EXCEPT !.step = s]],
         UNCHANGED <<document, version, blobs, activity, interrupted, unanswered, requests>>,
         faults' \in 0..MaxFaults
  PROVE  Inv'
  <1> DEFINE c == docCall[j]
  <1> PICK x : x = [c EXCEPT !.step = s]
    OBVIOUS
  <1>1. docCall' = [docCall EXCEPT ![j] = x]
    OBVIOUS
  <1>2. /\ x \in DocumentCalls /\ x # None
        /\ x.step = s /\ x.op = c.op /\ x.doc = c.doc
        /\ x.file = c.file /\ x.prefix = c.prefix /\ x.key = c.key
        /\ CallShape(c) /\ CallBytes(c) /\ c.key \in Keys
    BY MovedCall
  <1>3. Types'
    BY <1>1, <1>2, Typed DEF Inv, Types, DocumentsTypeOK, HandlersTypeOK
  <1>4. Goes(j, x)
    BY <1>1, <1>2 DEF Goes, SameRows, Pending
  <1>5. CallShape(x)'
    BY <1>1, <1>2 DEF CallShape, Writes, Pending
  <1>6. CallBytes(x)'
    BY <1>1, <1>2 DEF CallBytes, CallShape, Writes, Pending, HasVersion
  <1> QED
    BY <1>1, <1>2, <1>3, <1>4, <1>5, <1>6, GoesKeeps

LEMMA FindDuplicateKeeps ==
  ASSUME Inv, NEW j \in Jobs, FindDuplicate(j)
  PROVE  Inv'
  <1> DEFINE s == IF version[docCall[j].file] # None THEN "cleanup" ELSE "insert"
  <1>1. /\ docCall[j] # None /\ docCall[j].step = "dedupe"
        /\ docCall' = [docCall EXCEPT ![j] = [docCall[j] EXCEPT !.step = s]]
        /\ UNCHANGED <<document, version, blobs, activity, interrupted, unanswered, requests, faults>>
    BY Zenon DEF FindDuplicate, At, Moved, Set, handlerVars, ghosts
  <1>2. s \in DocumentSteps /\ s \in {"insert", "cleanup"} /\ faults' \in 0..MaxFaults
    BY <1>1, Typed DEF DocumentSteps, Inv
  <1> HIDE DEF s
  <1> QED
    BY <1>1, <1>2, StepKeeps

LEMMA InsertActionKeeps ==
  ASSUME Inv, NEW j \in Jobs, Insert(j)
  PROVE  Inv'
  <1>1. /\ docCall[j] # None /\ docCall[j].step = "insert"
        /\ UNCHANGED <<blobs, activity, interrupted, unanswered, requests, faults>>
        /\ faults' \in 0..MaxFaults
    BY Typed DEF Inv, Insert, At, handlerVars, ghosts
  <1>2. CASE version[docCall[j].file] # None
    <2>1. /\ docCall' = [docCall EXCEPT ![j] = [docCall[j] EXCEPT !.step = "cleanup"]]
          /\ UNCHANGED <<document, version>>
      BY <1>2 DEF Insert, Moved, Set
    <2> QED
      BY <1>1, <2>1, StepKeeps DEF DocumentSteps
  <1>3. CASE version[docCall[j].file] = None
    <2>1. /\ docCall' = [docCall EXCEPT ![j] = [docCall[j] EXCEPT !.step = "activity"]]
          /\ Inserted(docCall[j])
      BY <1>3 DEF Insert, Moved, Set
    <2>2. Inserts(j, "activity")
      BY <1>1, <1>3, <2>1 DEF Inserts
    <2> QED
      BY <2>2, InsertKeeps
  <1> QED
    BY <1>2, <1>3

LEMMA LoseCommitKeeps ==
  ASSUME Inv, NEW j \in Jobs, LoseCommit(j)
  PROVE  Inv'
  <1>1. faults' \in 0..MaxFaults
    BY Typed, HandlersAssumption DEF Inv, LoseCommit, Fault
  <1>2. Inserts(j, "cleanup")
    BY <1>1 DEF LoseCommit, Inserts, At, Fault, Moved, Set
  <1> QED
    BY <1>2, InsertKeeps

\* updateDocument and softDelete: at most the status of the row changes.
LEMMA WriteKeeps ==
  ASSUME Inv, NEW j \in Jobs, EditWrite(j) \/ ArchiveWrite(j)
  PROVE  Inv'
  <1> DEFINE c == docCall[j]
  <1> PICK x : x = [c EXCEPT !.step = "activity"]
    OBVIOUS
  <1>1. /\ c # None /\ c.step = "write"
        /\ docCall' = [docCall EXCEPT ![j] = x]
        /\ UNCHANGED <<version, blobs, activity, interrupted, unanswered, requests, faults>>
    BY DEF EditWrite, ArchiveWrite, At, Moved, Set, handlerVars, ghosts
  <1>2. /\ x \in DocumentCalls /\ x # None
        /\ x.step = "activity" /\ x.op = c.op /\ x.doc = c.doc
        /\ x.file = c.file /\ x.prefix = c.prefix /\ x.key = c.key
        /\ CallShape(c) /\ CallBytes(c) /\ c.key \in Keys
    BY <1>1, MovedCall DEF DocumentSteps
  <1>3. document' \in [Docs -> DocumentRows \cup {None}] /\ SameRows
    <2>1. CASE document' = document
      BY <2>1, Typed DEF Inv, SameRows
    <2>2. CASE ArchiveWrite(j)
      <3> DEFINE d == c.doc
                 row == [document[d] EXCEPT !.status = "Archived"]
      <3>1. document' = [document EXCEPT ![d] = row] /\ c.op = "archive"
        BY <2>2, Zenon DEF ArchiveWrite
      <3>2. d \in Docs /\ document[d] # None
        BY <1>1, <1>2, <3>1, CallOf DEF Inv, CallShape
      <3>3. document[d] \in DocumentRows
        BY <3>2, Typed DEF Inv
      <3>4. /\ row \in DocumentRows
            /\ row.current = document[d].current /\ row.code = document[d].code
        BY <3>3 DEF DocumentRows
      <3>5. row # None
        BY <3>4, DocumentsNoneAssumption
      <3> HIDE DEF row
      <3> QED
        BY <3>1, <3>2, <3>4, <3>5, Typed DEF Inv, SameRows
    <2> QED
      BY <2>1, <2>2 DEF EditWrite
  <1>4. Types'
    BY <1>1, <1>2, <1>3, Typed DEF Inv, Types, DocumentsTypeOK, HandlersTypeOK
  <1>5. Goes(j, x)
    BY <1>1, <1>2, <1>3 DEF Goes, Pending
  <1>6. CallShape(x)'
    BY <1>1, <1>2, <1>3, CallOf DEF CallShape, Writes, Pending, SameRows, Inv
  <1>7. CallBytes(x)'
    BY <1>1, <1>2 DEF CallBytes, CallShape, Writes, Pending, HasVersion
  <1> QED
    BY <1>1, <1>2, <1>4, <1>5, <1>6, <1>7, GoesKeeps

\* A handler that ends leaves its bytes with a version and an activity, or
\* neither bytes nor version, or it was interrupted.
LEMMA EndKeeps ==
  ASSUME Inv, NEW j \in Jobs, docCall[j] # None,
         docCall' = [docCall EXCEPT ![j] = None],
         UNCHANGED <<document, version, requests>>,
         faults' \in 0..MaxFaults,
         blobs' = blobs \/ blobs' = blobs \ {docCall[j].key},
         activity' = activity \/ activity' = activity \cup {docCall[j].key},
         interrupted' = interrupted \/ interrupted' = interrupted \cup {docCall[j].key},
         UNCHANGED unanswered,
         HasVersion(docCall[j].key) /\ docCall[j].key \in blobs
           => docCall[j].key \in blobs' \cup unanswered',
         \/ docCall[j].key \in interrupted'
         \/ docCall[j].key \in blobs'
              <=> HasVersion(docCall[j].key) /\ docCall[j].key \in activity'
  PROVE  Inv'
  <1>1. docCall[j].key \in Keys
    BY CallOf DEF Inv
  <1>2. Types'
    BY <1>1, Typed DEF Inv, Types, DocumentsTypeOK, HandlersTypeOK
  <1>3. Goes(j, None)
    BY DEF Goes, SameRows
  <1> QED
    BY <1>2, <1>3, GoesKeeps

LEMMA CreateActivityKeeps ==
  ASSUME Inv, NEW j \in Jobs, CreateActivity(j)
  PROVE  Inv'
  <1> DEFINE key == docCall[j].key
  <1>1. /\ docCall[j] # None /\ docCall[j].step = "activity"
        /\ activity' = activity \cup {key}
        /\ docCall' = [docCall EXCEPT ![j] = None]
        /\ UNCHANGED <<document, version, blobs, interrupted, unanswered, requests, faults>>
    BY DEF CreateActivity, At, Set, handlerVars, ghosts
  <1>2. CallBytes(docCall[j])
    BY <1>1, CallOf DEF Inv
  <1>3. key \in blobs <=> HasVersion(key)
    BY <1>1, <1>2 DEF CallBytes
  <1>4. faults' \in 0..MaxFaults
    BY <1>1, Typed DEF Inv
  <1> QED
    BY <1>1, <1>3, <1>4, EndKeeps

LEMMA RemoveBlobKeeps ==
  ASSUME Inv, NEW j \in Jobs, RemoveBlob(j)
  PROVE  Inv'
  <1> DEFINE key == docCall[j].key
  <1>1. /\ docCall[j] # None /\ docCall[j].step = "cleanup"
        /\ blobs' = blobs \ {key}
        /\ docCall' = [docCall EXCEPT ![j] = None]
        /\ UNCHANGED <<document, version, activity, interrupted, unanswered, requests, faults>>
    BY DEF RemoveBlob, At, Set, handlerVars, ghosts
  <1>2. ~HasVersion(key) \/ key \in interrupted \cap unanswered
    BY <1>1, CallOf DEF Inv, CallBytes
  <1>3. faults' \in 0..MaxFaults
    BY <1>1, Typed DEF Inv
  <1> QED
    BY <1>1, <1>2, <1>3, EndKeeps

LEMMA FailQueryKeeps ==
  ASSUME Inv, NEW j \in Jobs, FailQuery(j)
  PROVE  Inv'
  <1> DEFINE c == docCall[j]
  <1>1. /\ c # None
        /\ UNCHANGED <<document, version, blobs, activity, requests>>
    BY DEF FailQuery, At, Fault
  <1>2. faults' \in 0..MaxFaults
    BY Typed, HandlersAssumption DEF Inv, FailQuery, Fault
  <1>3. CallShape(c) /\ CallBytes(c)
    BY <1>1, CallOf DEF Inv
  <1>4. CASE /\ c.step \in {"store", "write"}
             /\ docCall' = [docCall EXCEPT ![j] = None]
             /\ UNCHANGED <<interrupted, unanswered>>
    <2>1. c.key \notin blobs /\ ~HasVersion(c.key)
      BY <1>3, <1>4 DEF CallShape, CallBytes, Pending
    <2> QED
      BY <1>1, <1>2, <1>4, <2>1, EndKeeps
  <1>5. CASE /\ c.step \in {"dedupe", "insert"}
             /\ docCall' = [docCall EXCEPT ![j] = [c EXCEPT !.step = "cleanup"]]
             /\ UNCHANGED <<interrupted, unanswered>>
    BY <1>1, <1>2, <1>5, StepKeeps DEF DocumentSteps
  <1>6. CASE /\ docCall' = [docCall EXCEPT ![j] = None]
             /\ interrupted' = interrupted \cup {c.key} /\ UNCHANGED unanswered
    BY <1>1, <1>2, <1>6, EndKeeps
  <1> QED
    BY <1>4, <1>5, <1>6 DEF FailQuery, At, Moved, Set, ghosts

LEMMA CrashKeeps ==
  ASSUME Inv, CrashDocuments
  PROVE  Inv'
  <1> DEFINE lost == {docCall[j].key : j \in {i \in Jobs : docCall[i] # None}}
  <1>1. /\ docCall' = [j \in Jobs |-> None]
        /\ interrupted' = interrupted \cup lost
        /\ UNCHANGED <<document, version, blobs, activity, unanswered, requests>>
        /\ faults' \in 0..MaxFaults
    BY Typed, HandlersAssumption DEF Inv, CrashDocuments, Fault
  <1>2. lost \subseteq Keys
    BY CallOf DEF Inv
  <1>3. Types'
    BY <1>1, <1>2, Typed DEF Inv, Types, DocumentsTypeOK, HandlersTypeOK
  <1>4. Calls'
    BY <1>1 DEF Calls
  <1>5. SameRows
    BY <1>1 DEF SameRows
  <1>6. Chain' /\ \E b \in Nat : CodesBelow(b)'
    BY <1>1, <1>5, SameVersionsKeepChain, SameRowsKeepCodes DEF Inv
  <1>7. KeysInUse' /\ BytesAreKept'
    BY <1>1 DEF Inv, KeysInUse, BytesAreKept
  <1>8. NothingLeftBehind'
    BY <1>1 DEF Inv, NothingLeftBehind, InFlight
  <1>9. VersionLimit'
    <2>1. \A d \in Docs : Replacing(d)' \subseteq Replacing(d)
      BY <1>1 DEF Replacing
    <2> QED
      BY <1>1, <1>6, <2>1, FewerReplacingKeepLimit DEF Inv
  <1> QED
    BY <1>3, <1>4, <1>6, <1>7, <1>8, <1>9 DEF Inv

-----------------------------------------------------------------------------
(* The invariant. *)

LEMMA InitInv ==
  ASSUME HandlersInit, DocumentsInit
  PROVE  Inv
  <1>1. /\ document = [d \in Docs |-> None] /\ version = [f \in Files |-> None]
        /\ blobs = {} /\ activity = {} /\ interrupted = {} /\ unanswered = {}
        /\ docCall = [j \in Jobs |-> None] /\ requests = 0 /\ faults = 0
    BY DEF HandlersInit, DocumentsInit
  <1>2. Types
    BY <1>1, HandlersAssumption DEF Types, DocumentsTypeOK, HandlersTypeOK
  <1>3. Calls /\ KeysInUse /\ BytesAreKept /\ NothingLeftBehind
    BY <1>1 DEF Calls, KeysInUse, BytesAreKept, NothingLeftBehind
  <1>4. \A d \in Docs : VersionsOf(d) = {}
    BY <1>1 DEF VersionsOf
  <1>5. Chain
    <2>1. \A d \in Docs : document[d] = None
      BY <1>1
    <2>2. IsFiniteSet({}) /\ Cardinality({}) = 0
      BY FS_EmptySet
    <2>3. \A d \in Docs : Numbered(d) /\ Headed(d)
      BY <1>4, <2>1, <2>2 DEF Numbered, Headed
    <2>4. {f \in Files : version[f] # None} = {}
      BY <1>1
    <2> QED
      BY <2>2, <2>3, <2>4 DEF Chain
  <1>6. VersionLimit
    BY <1>4 DEF VersionLimit
  <1>7. CodesBelow(0) /\ 0 \in Nat
    BY <1>1 DEF CodesBelow
  <1> QED
    BY <1>2, <1>3, <1>5, <1>6, <1>7 DEF Inv

LEMMA StutterKeeps ==
  ASSUME Inv, UNCHANGED vars
  PROVE  Inv'
  <1>1. UNCHANGED <<document, version, blobs, activity, docCall, interrupted, unanswered, requests, faults>>
    BY DEF vars, documentVars, handlerVars, ghosts
  <1>2. Types'
    BY <1>1 DEF Inv, Types, DocumentsTypeOK, HandlersTypeOK
  <1>3. Calls'
    BY <1>1 DEF Inv, Calls, CallShape, CallBytes, Apart, Writes, Pending, HasVersion
  <1>4. SameRows
    BY <1>1 DEF SameRows
  <1>5. Chain' /\ \E b \in Nat : CodesBelow(b)'
    BY <1>1, <1>4, SameVersionsKeepChain, SameRowsKeepCodes DEF Inv
  <1>6. KeysInUse' /\ BytesAreKept' /\ NothingLeftBehind'
    BY <1>1 DEF Inv, KeysInUse, BytesAreKept, NothingLeftBehind, InFlight
  <1>7. VersionLimit'
    <2>1. \A d \in Docs : Replacing(d)' \subseteq Replacing(d)
      BY <1>1 DEF Replacing
    <2> QED
      BY <1>1, <1>5, <2>1, FewerReplacingKeepLimit DEF Inv
  <1> QED
    BY <1>2, <1>3, <1>5, <1>6, <1>7 DEF Inv

LEMMA NextKeeps ==
  ASSUME Inv, [DocumentsNext]_vars
  PROVE  Inv'
  <1>1. CASE DocumentsNext
    <2>1. ASSUME NEW j \in Jobs, NEW d \in Docs, NEW f \in Files, Replace(j, d, f)
          PROVE  Inv'
      BY <2>1, ReplaceKeeps
    <2>2. ASSUME NEW j \in Jobs, NEW d \in Docs, NEW f \in Files, NEW p \in Prefixes,
                 Upload(j, d, f, p)
          PROVE  Inv'
      BY <2>2, UploadKeeps
    <2>3. ASSUME NEW j \in Jobs, NEW d \in Docs, Edit(j, d) \/ Archive(j, d)
          PROVE  Inv'
      BY <2>3, ChangeKeeps
    <2>4. ASSUME NEW j \in Jobs, HandleDocument(j)
          PROVE  Inv'
      BY <2>4, StoreStreamKeeps, FindDuplicateKeeps, InsertActionKeeps, WriteKeeps,
         CreateActivityKeeps, RemoveBlobKeeps DEF HandleDocument
    <2>5. ASSUME NEW j \in Jobs, FailQuery(j) \/ LoseCommit(j)
          PROVE  Inv'
      BY <2>5, FailQueryKeeps, LoseCommitKeeps
    <2> QED
      BY <1>1, <2>1, <2>2, <2>3, <2>4, <2>5, CrashKeeps DEF DocumentsNext
  <1>2. CASE UNCHANGED vars
    BY <1>2, StutterKeeps
  <1> QED
    BY <1>1, <1>2

-----------------------------------------------------------------------------
(* The chain of evidence.  The contents of a document are its versions in  *)
(* the order of their numbers: an insertion appends to them, whether its   *)
(* answer arrives or not, and no other step touches them.                  *)

EvidenceStep == [Evidence!Next]_(Evidence!vars)

ArchivedDocs == {d \in Docs : document[d] # None /\ document[d].status = "Archived"}

LEMMA ContentsInOrder ==
  ASSUME Chain, NEW d \in Docs
  PROVE  /\ Cardinality(VersionsOf(d)) \in Nat
         /\ Contents(d) \in [1..Cardinality(VersionsOf(d)) -> VersionsOf(d)]
         /\ \A f \in VersionsOf(d) : Contents(d)[version[f].number] = f
         /\ \A n \in 1..Cardinality(VersionsOf(d)) : version[Contents(d)[n]].number = n
  <1> DEFINE V == VersionsOf(d)
             N == Cardinality(V)
  <1>1. /\ {version[f].number : f \in V} = 1..N
        /\ \A f, g \in V : version[f].number = version[g].number => f = g
    BY DEF Chain, Numbered
  <1>2. ASSUME NEW n \in 1..N
        PROVE  /\ (CHOOSE f \in V : version[f].number = n) \in V
               /\ version[CHOOSE f \in V : version[f].number = n].number = n
    <2>1. \E f \in V : version[f].number = n
      BY <1>1
    <2> QED
      BY <2>1
  <1>3. Contents(d) = [n \in 1..N |-> CHOOSE f \in V : version[f].number = n]
    BY DEF Contents
  <1> HIDE DEF V
  <1>4. /\ Contents(d) \in [1..N -> V]
        /\ \A n \in 1..N : version[Contents(d)[n]].number = n
    BY <1>2, <1>3
  <1>5. ASSUME NEW f \in V
        PROVE  Contents(d)[version[f].number] = f
    <2>1. version[f].number \in 1..N
      BY <1>1
    <2>2. Contents(d)[version[f].number] \in V
      BY <1>4, <2>1
    <2> QED
      BY <1>1, <1>4, <2>1, <2>2
  <1>6. N \in Nat
    BY Counted DEF V
  <1> QED
    BY <1>4, <1>5, <1>6 DEF V

LEMMA InsertAppends ==
  ASSUME Inv, NEW j \in Jobs, NEW s \in {"activity", "cleanup"}, Inserts(j, s),
         NEW c, c = docCall[j]
  PROVE  /\ Contents(c.doc)' = Append(Contents(c.doc), c.file)
         /\ \A d \in Docs \ {c.doc} : Contents(d)' = Contents(d)
  <1> DEFINE d == c.doc
             f == c.file
             V == VersionsOf(d)
             N == Cardinality(V)
  <1>1. Chain /\ Chain' /\ d \in Docs /\ f \in Files /\ version[f] = None
    BY InsertingCall, InsertKeepsChain DEF Inv, Inserts
  <1>2. V' = V \cup {f} /\ f \notin V /\ \A e \in Docs \ {d} : VersionsOf(e)' = VersionsOf(e)
    BY InsertedVersions
  <1>3. /\ version'[f].number = N + 1
        /\ \A g \in Files \ {f} : version'[g] = version[g]
    BY InsertedRows
  <1>4. /\ N \in Nat
        /\ Contents(d) \in [1..N -> V]
        /\ \A n \in 1..N : version[Contents(d)[n]].number = n
    BY <1>1, ContentsInOrder
  <1>5. N' = N + 1
    <2>1. IsFiniteSet(V)
      BY <1>1, Counted
    <2> QED
      BY <1>2, <2>1, FS_AddElement
  <1>6. Contents(d)' = [n \in 1..(N + 1) |-> CHOOSE g \in V' : version'[g].number = n]
    BY <1>5 DEF Contents
  <1>7. \A g, h \in V' : version'[g].number = version'[h].number => g = h
    BY <1>1 DEF Chain, Numbered
  <1>8. V \subseteq Files
    BY DEF VersionsOf
  <1> HIDE DEF V, N
  <1>9. ASSUME NEW n \in 1..(N + 1)
        PROVE  (CHOOSE g \in V' : version'[g].number = n) = IF n = N + 1 THEN f ELSE Contents(d)[n]
    <2>1. CASE n = N + 1
      BY <1>2, <1>3, <1>7, <2>1
    <2>2. CASE n # N + 1
      <3>1. n \in 1..N /\ Contents(d)[n] \in V
        BY <1>4, <2>2
      <3>2. Contents(d)[n] \in V' /\ version'[Contents(d)[n]].number = n
        BY <1>2, <1>3, <1>4, <1>8, <3>1
      <3> QED
        BY <1>7, <2>2, <3>2
    <2> QED
      BY <2>1, <2>2
  <1>10. Contents(d)' = Append(Contents(d), f)
    <2>1. Contents(d) \in Seq(V) /\ Len(Contents(d)) = N
      BY <1>4
    <2>2. /\ Append(Contents(d), f) \in [1..(N + 1) -> V \cup {f}]
          /\ \A n \in 1..(N + 1) :
               Append(Contents(d), f)[n] = IF n = N + 1 THEN f ELSE Contents(d)[n]
      <3> DEFINE W == V \cup {f}
      <3>1. Contents(d) \in Seq(W) /\ f \in W
        BY <2>1
      <3> HIDE DEF W
      <3>2. /\ Append(Contents(d), f) \in Seq(W)
            /\ Len(Append(Contents(d), f)) = N + 1
            /\ \A n \in 1..(N + 1) :
                 Append(Contents(d), f)[n] = IF n = N + 1 THEN f ELSE Contents(d)[n]
        BY <1>4, <2>1, <3>1
      <3>3. Append(Contents(d), f) \in [1..(N + 1) -> W]
        BY <3>2, LenProperties
      <3> QED
        BY <3>2, <3>3 DEF W
    <2> DEFINE a == Append(Contents(d), f)
    <2>3. a = [n \in 1..(N + 1) |-> a[n]]
      BY <2>2
    <2>4. \A n \in 1..(N + 1) : (CHOOSE g \in V' : version'[g].number = n) = a[n]
      BY <1>9, <2>2
    <2> HIDE DEF a
    <2>5. Contents(d)' = a
      BY <1>6, <2>3, <2>4
    <2> QED
      BY <2>5 DEF a
  <1>11. ASSUME NEW e \in Docs \ {d}
         PROVE  Contents(e)' = Contents(e)
    <2>1. VersionsOf(e)' = VersionsOf(e) /\ f \notin VersionsOf(e) /\ VersionsOf(e) \subseteq Files
      BY <1>1, <1>2 DEF VersionsOf
    <2>2. \A g \in VersionsOf(e) : version'[g] = version[g]
      BY <1>3, <2>1
    <2>3. \A n : (CHOOSE g \in VersionsOf(e) : version'[g].number = n)
                   = (CHOOSE g \in VersionsOf(e) : version[g].number = n)
      BY <2>2
    <2> DEFINE W == VersionsOf(e)
    <2>4. Contents(e)' = [n \in 1..Cardinality(W) |-> CHOOSE g \in W : version'[g].number = n]
      BY <2>1 DEF Contents
    <2>5. Contents(e) = [n \in 1..Cardinality(W) |-> CHOOSE g \in W : version[g].number = n]
      BY DEF Contents
    <2>6. ASSUME NEW n \in 1..Cardinality(W)
          PROVE  Contents(e)'[n] = Contents(e)[n]
      <3>1. Contents(e)'[n] = CHOOSE g \in W : version'[g].number = n
        BY <2>4, Zenon
      <3>2. Contents(e)[n] = CHOOSE g \in W : version[g].number = n
        BY <2>5, Zenon
      <3> QED
        BY <2>3, <3>1, <3>2
    <2>7. /\ Contents(e)' = [n \in 1..Cardinality(W) |-> Contents(e)'[n]]
          /\ Contents(e) = [n \in 1..Cardinality(W) |-> Contents(e)[n]]
      BY <2>4, <2>5, Zenon
    <2> HIDE DEF W
    <2> QED
      BY <2>6, <2>7
  <1> QED
    BY <1>10, <1>11

LEMMA InsertExtends ==
  ASSUME Inv, NEW j \in Jobs, NEW s \in {"activity", "cleanup"}, Inserts(j, s)
  PROVE  Evidence!Next
  <1> DEFINE content == [d \in Docs |-> Contents(d)]
  <1> PICK c : c = docCall[j]
    OBVIOUS
  <1>1. c.file \in Files /\ c.doc \in Docs /\ version[c.file] = None /\ Chain
    BY InsertingCall DEF Inv, Inserts
  <1>2. Evidence!Unused(c.file)
    <2>1. ASSUME NEW d \in Docs, NEW n \in DOMAIN Contents(d)
          PROVE  Contents(d)[n] # c.file
      <3>1. Contents(d)[n] \in VersionsOf(d)
        BY <1>1, <2>1, ContentsInOrder
      <3> QED
        BY <1>1, <3>1 DEF VersionsOf
    <2> QED
      BY <2>1 DEF Evidence!Unused, Evidence!Stored
  <1>3. content' = [content EXCEPT ![c.doc] = Append(@, c.file)]
    <2>1. /\ Contents(c.doc)' = Append(Contents(c.doc), c.file)
          /\ \A d \in Docs \ {c.doc} : Contents(d)' = Contents(d)
      BY InsertAppends
    <2> QED
      BY <1>1, <2>1
  <1>4. ArchivedDocs' = ArchivedDocs
    <2>1. /\ document'[c.doc] # None
          /\ document'[c.doc].status =
               IF c.op = "upload" THEN "Active" ELSE document[c.doc].status
          /\ \A d \in Docs \ {c.doc} : document'[d] = document[d]
      BY InsertedRows
    <2>2. /\ c.op = "upload" => document[c.doc] = None
          /\ c.op # "upload" => document[c.doc] # None
      BY InsertingCall
    <2> QED
      BY <2>1, <2>2 DEF ArchivedDocs
  <1>5. Evidence!Extend(c.doc, c.file)
    BY <1>2, <1>3, <1>4 DEF Evidence!Extend, ArchivedDocs
  <1> QED
    BY <1>1, <1>5 DEF Evidence!Next

LEMMA ArchiveWriteArchives ==
  ASSUME Inv, NEW j \in Jobs, ArchiveWrite(j)
  PROVE  Evidence!Next
  <1> PICK d : d = docCall[j].doc
    OBVIOUS
  <1>1. /\ docCall[j] # None /\ docCall[j].op = "archive"
        /\ document' = [document EXCEPT ![d].status = "Archived"]
        /\ UNCHANGED version
    BY DEF ArchiveWrite, At
  <1>2. d \in Docs /\ document[d] # None
    BY <1>1, CallOf DEF Inv, CallShape
  <1>3. document[d] \in DocumentRows
    BY <1>2, Typed DEF Inv
  <1> DEFINE row == [document[d] EXCEPT !.status = "Archived"]
  <1>4. row \in DocumentRows /\ row.status = "Archived"
    BY <1>3 DEF DocumentRows
  <1>5. row # None
    BY <1>4, DocumentsNoneAssumption
  <1>6. document'[d] = row /\ \A e \in Docs \ {d} : document'[e] = document[e]
    BY <1>1, <1>2, Typed, Zenon DEF Inv
  <1>7. ArchivedDocs' = ArchivedDocs \cup {d}
    BY <1>2, <1>4, <1>5, <1>6 DEF ArchivedDocs
  <1>8. \A e \in Docs : Contents(e)' = Contents(e)
    BY <1>1 DEF Contents, VersionsOf
  <1>9. Contents(d) # <<>>
    <2>1. VersionsOf(d) # {} /\ Chain
      BY <1>2 DEF Inv, Chain, Headed
    <2>2. PICK f \in VersionsOf(d) : TRUE
      BY <2>1
    <2>3. version[f].number \in 1..Cardinality(VersionsOf(d))
      BY <1>2, <2>1, <2>2 DEF Chain, Numbered
    <2>4. /\ Cardinality(VersionsOf(d)) \in Nat
          /\ Contents(d) \in [1..Cardinality(VersionsOf(d)) -> VersionsOf(d)]
      BY <1>2, <2>1, ContentsInOrder
    <2> QED
      BY <2>3, <2>4
  <1>10. Evidence!Archive(d)
    BY <1>2, <1>7, <1>8, <1>9 DEF Evidence!Archive, ArchivedDocs
  <1> QED
    BY <1>2, <1>10 DEF Evidence!Next

LEMMA SameTablesStutter ==
  ASSUME UNCHANGED <<document, version>>
  PROVE  EvidenceStep
  <1>1. \A d \in Docs : Contents(d)' = Contents(d)
    BY DEF Contents, VersionsOf
  <1> QED
    BY <1>1 DEF EvidenceStep, Evidence!vars

LEMMA NextKeepsEvidence ==
  ASSUME Inv, [DocumentsNext]_vars
  PROVE  EvidenceStep
  <1>1. ASSUME NEW j \in Jobs, NEW d \in Docs, NEW f \in Files, NEW p \in Prefixes,
               Upload(j, d, f, p)
        PROVE  EvidenceStep
    BY <1>1, SameTablesStutter DEF Upload, Begin
  <1>2. ASSUME NEW j \in Jobs, NEW d \in Docs, NEW f \in Files, Replace(j, d, f)
        PROVE  EvidenceStep
    BY <1>2, SameTablesStutter DEF Replace, Begin
  <1>3. ASSUME NEW j \in Jobs, NEW d \in Docs, Edit(j, d) \/ Archive(j, d)
        PROVE  EvidenceStep
    BY <1>3, SameTablesStutter DEF Edit, Archive, Begin
  <1>4. ASSUME NEW j \in Jobs,
               \/ StoreStream(j) \/ FindDuplicate(j) \/ EditWrite(j)
               \/ CreateActivity(j) \/ RemoveBlob(j) \/ FailQuery(j)
        PROVE  EvidenceStep
    BY <1>4, SameTablesStutter
       DEF StoreStream, FindDuplicate, EditWrite, CreateActivity, RemoveBlob, FailQuery
  <1>5. ASSUME NEW j \in Jobs, Insert(j)
        PROVE  EvidenceStep
    <2>1. CASE version[docCall[j].file] # None
      BY <1>5, <2>1, SameTablesStutter DEF Insert
    <2>2. CASE version[docCall[j].file] = None
      <3>1. faults' \in 0..MaxFaults
        BY <1>5, Typed DEF Inv, Insert, handlerVars
      <3>2. Inserts(j, "activity")
        BY <1>5, <2>2, <3>1 DEF Inserts, Insert, At, Moved, Set, handlerVars, ghosts
      <3> QED
        BY <3>2, InsertExtends DEF EvidenceStep
    <2> QED
      BY <2>1, <2>2
  <1>6. ASSUME NEW j \in Jobs, LoseCommit(j)
        PROVE  EvidenceStep
    <2>1. faults' \in 0..MaxFaults
      BY <1>6, Typed, HandlersAssumption DEF Inv, LoseCommit, Fault
    <2>2. Inserts(j, "cleanup")
      BY <1>6, <2>1 DEF LoseCommit, Inserts, At, Fault, Moved, Set
    <2> QED
      BY <2>2, InsertExtends DEF EvidenceStep
  <1>7. ASSUME NEW j \in Jobs, ArchiveWrite(j)
        PROVE  EvidenceStep
    BY <1>7, ArchiveWriteArchives DEF EvidenceStep
  <1>8. CASE CrashDocuments
    BY <1>8, SameTablesStutter DEF CrashDocuments
  <1>9. CASE UNCHANGED vars
    BY <1>9, SameTablesStutter DEF vars, documentVars
  <1> QED
    BY <1>1, <1>2, <1>3, <1>4, <1>5, <1>6, <1>7, <1>8, <1>9 DEF DocumentsNext, HandleDocument

LEMMA InitEvidence ==
  ASSUME DocumentsInit
  PROVE  Evidence!Init
  <1>1. \A d \in Docs : VersionsOf(d) = {}
    BY DEF DocumentsInit, VersionsOf
  <1>2. ASSUME NEW d \in Docs
        PROVE  Contents(d) = <<>>
    <2>1. Cardinality(VersionsOf(d)) = 0
      BY <1>1, FS_EmptySet
    <2>2. DOMAIN Contents(d) = {}
      <3>1. DOMAIN Contents(d) = 1..Cardinality(VersionsOf(d))
        BY DEF Contents
      <3> QED
        BY <2>1, <3>1
    <2>3. Contents(d) = [n \in DOMAIN Contents(d) |-> Contents(d)[n]]
      BY DEF Contents
    <2> QED
      BY <2>2, <2>3
  <1>3. ArchivedDocs = {}
    BY DEF DocumentsInit, ArchivedDocs
  <1> QED
    BY <1>2, <1>3 DEF Evidence!Init, ArchivedDocs

-----------------------------------------------------------------------------
(* Theorems. *)

(* The inductive invariant of the document handlers: what each step of a   *)
(* request may rely on, and the properties that follow from it.            *)
THEOREM DocumentsInvariant == DocumentsSpec => []Inv
  <1>1. HandlersInit /\ DocumentsInit => Inv
    BY InitInv
  <1>2. Inv /\ [DocumentsNext]_vars => Inv'
    BY NextKeeps
  <1> QED
    BY <1>1, <1>2, PTL DEF DocumentsSpec, vars

\* Documents, versions, storage and handlers keep their types.
THEOREM DocumentsTyped == DocumentsSpec => []DocumentsTypeOK
  <1>1. Inv => DocumentsTypeOK
    BY DEF Inv, Types
  <1> QED
    BY <1>1, DocumentsInvariant, PTL

(* However uploads and replacements overlap, fail or crash, the versions   *)
(* of a document are numbered from one without gaps, and the newest is     *)
(* the current one.                                                        *)
THEOREM VersionsChained == DocumentsSpec => []VersionChain
  <1>1. Inv => VersionChain
    BY DEF Inv, Chain, Numbered, Headed, VersionChain
  <1> QED
    BY <1>1, DocumentsInvariant, PTL

(* The cleanup of a failed request removes no bytes a version refers to,   *)
(* unless the answer to its commit was lost.                               *)
THEOREM BytesKept == DocumentsSpec => []BytesAreKept
  <1>1. Inv => BytesAreKept
    BY DEF Inv
  <1> QED
    BY <1>1, DocumentsInvariant, PTL

(* A request that ended without being stopped half-way leaves bytes in the *)
(* storage only together with their version and its activity.              *)
THEOREM NoOrphans == DocumentsSpec => []NothingLeftBehind
  <1>1. Inv => NothingLeftBehind
    BY DEF Inv
  <1> QED
    BY <1>1, DocumentsInvariant, PTL

(* The limit of versions is checked before the awaits: replacements that   *)
(* overlap exceed it, by less than the number of requests in flight.       *)
THEOREM LimitExceededBounded == DocumentsSpec => []VersionLimit
  <1>1. Inv => VersionLimit
    BY DEF Inv
  <1> QED
    BY <1>1, DocumentsInvariant, PTL

\* The code an upload will get is not the code of any document, archived ones
\* included, whatever prefix it asks for.
THEOREM CodeFree == DocumentsSpec => []NextCodeIsFree
  <1>1. Inv => NextCodeIsFree
    BY NextCodeFree DEF Inv
  <1> QED
    BY <1>1, DocumentsInvariant, PTL

(* Documents implement the chain of evidence, step by step: an insertion   *)
(* extends it, an archiving archives, and every other step stutters.       *)
THEOREM EvidenceKept == DocumentsSpec => KeepsEvidence
  <1>1. DocumentsInit => Evidence!Init
    BY InitEvidence
  <1>2. Inv /\ [DocumentsNext]_vars => EvidenceStep
    BY NextKeepsEvidence
  <1> QED
    BY <1>1, <1>2, DocumentsInvariant, PTL
       DEF DocumentsSpec, vars, KeepsEvidence, Evidence!Spec, EvidenceStep
=============================================================================
