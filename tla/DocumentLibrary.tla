--------------------------- MODULE DocumentLibrary ---------------------------
(***************************************************************************)
(* What the document API of one tenant promises to its users: a library    *)
(* of documents, each with the content that was uploaded for it.  A        *)
(* document appears in one step together with its content, keeps that      *)
(* content for as long as it exists, and disappears in one step.  Nothing  *)
(* here knows of file rows, deduplication, transactions or S3.             *)
(*                                                                         *)
(* DocumentStore implements this specification.                            *)
(***************************************************************************)

CONSTANTS
  DocId,    \* identifiers of documents
  Content,  \* what a document can contain
  None      \* no document under this identifier

VARIABLE lib  \* lib[d]: the content of document d, or None

LibraryTypeOK == lib \in [DocId -> Content \cup {None}]

Init == lib = [d \in DocId |-> None]

(* An upload takes effect: a new document with its content. *)
Add(d, c) ==
  /\ lib[d] = None
  /\ lib' = [lib EXCEPT ![d] = c]

(* A deletion takes effect. *)
Remove(d) ==
  /\ lib[d] # None
  /\ lib' = [lib EXCEPT ![d] = None]

Next ==
  \/ \E d \in DocId, c \in Content : Add(d, c)
  \/ \E d \in DocId : Remove(d)

Spec == Init /\ [][Next]_lib

=============================================================================
