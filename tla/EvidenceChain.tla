----------------------------- MODULE EvidenceChain -----------------------------
(***************************************************************************)
(* What the document store promises: the contents of a document are a      *)
(* sequence that only gets longer, no content is stored twice, and an      *)
(* archived document stays archived.  deleteDocument and softDelete call   *)
(* this the chain of evidence.                                             *)
(*                                                                         *)
(* An archived document may still get a content: archiving does not stop a *)
(* replacement that was accepted before.                                   *)
(***************************************************************************)
EXTENDS Sequences

CONSTANTS Docs, Files

VARIABLES
  contents,  \* the contents of each document, oldest first
  archived   \* the archived documents

vars == <<contents, archived>>

Stored(d) == {contents[d][n] : n \in DOMAIN contents[d]}

Unused(f) == \A d \in Docs : f \notin Stored(d)

Init ==
  /\ contents = [d \in Docs |-> <<>>]
  /\ archived = {}

\* The first content of a document, or its next one.
Extend(d, f) ==
  /\ Unused(f)
  /\ contents' = [contents EXCEPT ![d] = Append(@, f)]
  /\ UNCHANGED archived

Archive(d) ==
  /\ contents[d] # <<>>
  /\ archived' = archived \cup {d}
  /\ UNCHANGED contents

Next == \E d \in Docs : Archive(d) \/ \E f \in Files : Extend(d, f)

Spec == Init /\ [][Next]_vars
=============================================================================
