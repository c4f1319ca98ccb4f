----------------------------- MODULE FileService ------------------------------
(***************************************************************************)
(* The services for the files and documents of one tenant                  *)
(* (services/file_service.py, services/document_service.py): the cleanup   *)
(* of orphaned files, batch by batch in one session, among clients that    *)
(* upload files, create and delete documents, and delete files.            *)
(*                                                                         *)
(* The cleanup reads the table of files page by page without an order: the *)
(* pages follow the rows as they are stored, where a deleted row leaves    *)
(* its place to the next and an updated row moves to the end.  A deletion  *)
(* is flushed by the next query of the session (autoflush), and its row is *)
(* locked from then on.  A document refers to its file by a foreign key    *)
(* (RESTRICT), and the documents that are loaded with a file are deleted   *)
(* with it (cascade).                                                      *)
(***************************************************************************)
EXTENDS Naturals, Sequences, FiniteSets

CONSTANTS
  File,      \* primary keys of files
  Doc,       \* primary keys of documents
  Client,    \* other users of the services
  BatchSize, \* batch_size of the cleanup
  MaxShifts, \* bound: so many rows the clients delete or move in a cleanup
  Nowhere,   \* the file of a document that does not exist yet
  Gone       \* the file of a document that was deleted

ASSUME BatchAssumption == BatchSize \in Nat \ {0}

ASSUME NoFileAssumption == {Nowhere, Gone} \cap File = {}

VARIABLES
  files,   \* the committed rows of files, as they are stored
  docs,    \* docs[d]: the file of document d
  scan,    \* the cleanup
  req,     \* req[c]: the request client c executes
  orphans, \* history: files without document since the cleanup began
  shifts   \* history: rows deleted or moved since the cleanup began

fileVars == <<files, docs, scan, req, orphans, shifts>>

Stored == {files[i] : i \in 1..Len(files)}

(* The relationship File.documents. *)
Documents(f) == {d \in Doc : docs[d] = f}

IsOrphaned(f) == Documents(f) = {}

Idle == [pc |-> "idle"]

Request ==
  [pc : {"insert"}, file : File]
  \cup [pc : {"delete"}, file : File, loaded : SUBSET Doc]

Finish(c) == req' = [req EXCEPT ![c] = Idle]

(* A primary key that nothing refers to. *)
FreshFile ==
  File \ (Stored \cup {docs[d] : d \in Doc} \cup orphans
          \cup scan.pending \cup scan.flushed
          \cup {scan.batch[i] : i \in 1..Len(scan.batch)}
          \cup {req[c].file : c \in {b \in Client : req[b] # Idle}})

(* The rows that are not in D, in their order. *)
Without(D) ==
  LET kept[n \in 0..Len(files)] ==
        IF n = 0 THEN <<>>
        ELSE IF files[n] \in D THEN kept[n - 1]
        ELSE Append(kept[n - 1], files[n])
  IN kept[Len(files)]

(* The cleanup holds the lock of the row. *)
Locked(f) == f \in scan.flushed

(* n rows are deleted or moved, while a cleanup runs. *)
Shift(n) ==
  shifts' = IF scan.pc \in {"fetch", "check"} THEN shifts + n ELSE shifts

-----------------------------------------------------------------------------
(***************************************************************************)
(* The clients                                                             *)
(***************************************************************************)

(* upload_file: a file without a document, until one is created.           *)
UploadFile(c) ==
  /\ req[c] = Idle
  /\ \E f \in FreshFile : files' = Append(files, f)
  /\ UNCHANGED <<docs, scan, req, orphans, shifts>>

(* create_document with new contents: file and document are one commit.    *)
CreateDocumentWithFile(c) ==
  /\ req[c] = Idle
  /\ \E f \in FreshFile, d \in Doc :
       /\ docs[d] = Nowhere
       /\ files' = Append(files, f)
       /\ docs' = [docs EXCEPT ![d] = f]
  /\ UNCHANGED <<scan, req, orphans, shifts>>

(* create_document with the contents of a file that is there.              *)
CreateDocument(c, f) ==
  /\ req[c] = Idle
  /\ f \in Stored
  /\ req' = [req EXCEPT ![c] = [pc |-> "insert", file |-> f]]
  /\ UNCHANGED <<files, docs, scan, orphans, shifts>>

(* A bug: no foreign key. *)
InsertAnyDocument(c) ==
  /\ req[c].pc = "insert"
  /\ LET f == req[c].file IN
     /\ \E d \in Doc :
          /\ docs[d] = Nowhere
          /\ docs' = [docs EXCEPT ![d] = f]
     /\ orphans' = orphans \ {f}
  /\ Finish(c)
  /\ UNCHANGED <<files, scan, shifts>>

(* The foreign key waits for a deletion that is not committed yet, and     *)
(* fails after it.                                                         *)
InsertDocument(c) ==
  /\ req[c].pc = "insert"
  /\ LET f == req[c].file IN
     /\ ~Locked(f)
     /\ IF f \in Stored
        THEN /\ \E d \in Doc :
                  /\ docs[d] = Nowhere
                  /\ docs' = [docs EXCEPT ![d] = f]
             /\ orphans' = orphans \ {f}
        ELSE UNCHANGED <<docs, orphans>>
  /\ Finish(c)
  /\ UNCHANGED <<files, scan, shifts>>

(* delete_document, which leaves the file.                                 *)
DeleteDocument(c, d) ==
  /\ req[c] = Idle
  /\ docs[d] \in File
  /\ docs' = [docs EXCEPT ![d] = Gone]
  /\ UNCHANGED <<files, scan, req, orphans, shifts>>

(* delete_file: a file with documents only by force.  These are loaded.    *)
DeleteFile(c, f, force) ==
  /\ req[c] = Idle
  /\ f \in Stored
  /\ IsOrphaned(f) \/ force
  /\ req' = [req EXCEPT ![c] = [pc |-> "delete", file |-> f,
                                loaded |-> Documents(f)]]
  /\ UNCHANGED <<files, docs, scan, orphans, shifts>>

(* The documents that were loaded are deleted with it; one that was added  *)
(* since makes the deletion fail.                                          *)
CommitDeleteFile(c) ==
  /\ req[c].pc = "delete"
  /\ shifts < MaxShifts
  /\ LET f == req[c].file IN
     /\ ~Locked(f)
     /\ IF f \in Stored /\ Documents(f) \subseteq req[c].loaded
        THEN /\ files' = Without({f})
             /\ docs' = [d \in Doc |-> IF docs[d] = f THEN Gone ELSE docs[d]]
             /\ Shift(1)
        ELSE UNCHANGED <<files, docs, shifts>>
  /\ Finish(c)
  /\ UNCHANGED <<scan, orphans>>

(* Its timestamp is stored (TsaTimestamp): the row moves.                  *)
UpdateFile(f) ==
  /\ f \in Stored /\ ~Locked(f)
  /\ shifts < MaxShifts
  /\ files[Len(files)] # f
  /\ files' = Append(Without({f}), f)
  /\ Shift(1)
  /\ UNCHANGED <<docs, scan, req, orphans>>

-----------------------------------------------------------------------------
(***************************************************************************)
(* delete_orphaned_files                                                   *)
(***************************************************************************)

NewScan(at) ==
  [pc |-> at, offset |-> 0, batch |-> <<>>, pending |-> {}, flushed |-> {}]

StartCleanup ==
  /\ scan.pc \in {"idle", "done", "failed"}
  /\ scan' = NewScan("fetch")
  /\ orphans' = {f \in Stored : IsOrphaned(f)}
  /\ shifts' = 0
  /\ UNCHANGED <<files, docs, req>>

(* OFFSET and LIMIT. *)
FetchBatch ==
  /\ scan.pc = "fetch"
  /\ LET last == IF scan.offset + BatchSize < Len(files)
                 THEN scan.offset + BatchSize ELSE Len(files)
         batch == SubSeq(files, scan.offset + 1, last)
     IN scan' = IF batch = <<>> THEN NewScan("done")
                ELSE [scan EXCEPT !.pc = "check", !.batch = batch]
  /\ UNCHANGED <<files, docs, req, orphans, shifts>>

(* The deletions that were flushed or are to be flushed pass the foreign   *)
(* key.                                                                    *)
FlushPasses == \A f \in scan.pending : IsOrphaned(f)

(* A flush fails while the next file is looked at, or at the commit, out   *)
(* of reach of the handler for one file: the cleanup ends, and its batch   *)
(* is rolled back.                                                         *)
FlushFails ==
  /\ scan.pc = "check"
  /\ ~FlushPasses
  /\ scan' = NewScan("failed")
  /\ UNCHANGED <<files, docs, req, orphans, shifts>>

(* The documents of the next file are loaded: what was to be deleted       *)
(* before is flushed.  Without documents the file is to be deleted.  (A    *)
(* file that has moved into the next batch may keep what was loaded for    *)
(* it, which matters only if it had documents then: it is spared again.)   *)
CheckFile ==
  /\ scan.pc = "check" /\ scan.batch # <<>>
  /\ FlushPasses
  /\ LET f == Head(scan.batch) IN
     scan' = [scan EXCEPT !.batch = Tail(@),
                          !.flushed = @ \cup scan.pending,
                          !.pending = IF IsOrphaned(f) THEN {f} ELSE {}]
  /\ UNCHANGED <<files, docs, req, orphans, shifts>>

(* A bug: the offset points at the last row that was read, plus one. *)
CommitAndSkip ==
  /\ scan.pc = "check" /\ scan.batch = <<>>
  /\ FlushPasses
  /\ LET deleted == scan.flushed \cup scan.pending IN
     /\ files' = Without(deleted)
     /\ Shift(Cardinality(deleted \cap Stored))
  /\ scan' = [NewScan("fetch") EXCEPT !.offset = scan.offset + BatchSize + 1]
  /\ UNCHANGED <<docs, req, orphans>>

(* The next batch begins BatchSize further, however many are gone.         *)
CommitBatch ==
  /\ scan.pc = "check" /\ scan.batch = <<>>
  /\ FlushPasses
  /\ LET deleted == scan.flushed \cup scan.pending IN
     /\ files' = Without(deleted)
     /\ Shift(Cardinality(deleted \cap Stored))
  /\ scan' = [NewScan("fetch") EXCEPT !.offset = scan.offset + BatchSize]
  /\ UNCHANGED <<docs, req, orphans>>

(* The database or the process fails: the batch is rolled back.            *)
CleanupFails ==
  /\ scan.pc \in {"fetch", "check"}
  /\ scan' = NewScan("failed")
  /\ UNCHANGED <<files, docs, req, orphans, shifts>>

FilesInit ==
  /\ files = <<>>
  /\ docs = [d \in Doc |-> Nowhere]
  /\ scan = NewScan("idle")
  /\ req = [c \in Client |-> Idle]
  /\ orphans = {}
  /\ shifts = 0

ClientStep(c) ==
  \/ UploadFile(c)
  \/ CreateDocumentWithFile(c)
  \/ \E f \in File : CreateDocument(c, f)
  \/ InsertDocument(c)
  \/ \E d \in Doc : DeleteDocument(c, d)
  \/ \E f \in File, force \in BOOLEAN : DeleteFile(c, f, force)
  \/ CommitDeleteFile(c)

CleanupStep ==
  \/ FetchBatch
  \/ CheckFile
  \/ FlushFails
  \/ CommitBatch

FilesNext ==
  \/ \E c \in Client : ClientStep(c)
  \/ \E f \in File : UpdateFile(f)
  \/ StartCleanup
  \/ CleanupStep
  \/ CleanupFails

FilesSpec == FilesInit /\ [][FilesNext]_fileVars

-----------------------------------------------------------------------------
(***************************************************************************)
(* Properties                                                              *)
(***************************************************************************)

FilesTypeOK ==
  /\ files \in Seq(File)
  /\ docs \in [Doc -> File \cup {Nowhere, Gone}]
  /\ scan \in [pc : {"idle", "fetch", "check", "done", "failed"},
               offset : Nat, batch : Seq(File), pending : SUBSET File,
               flushed : SUBSET File]
  /\ req \in [Client -> Request \cup {Idle}]
  /\ orphans \subseteq File
  /\ shifts \in Nat

(* No document loses its file: neither a cleanup that has seen the file    *)
(* without documents, nor a client that creates a document for a file that *)
(* is about to be deleted.                                                 *)
DocumentsHaveFiles == \A d \in Doc : docs[d] \in File => docs[d] \in Stored

(* Files that had no document throughout a cleanup which has ended well.   *)
Missed == {f \in orphans : scan.pc = "done" /\ f \in Stored}

(* What a cleanup leaves is bounded by the rows that were deleted (by the  *)
(* cleanup itself, for the most part) or moved while it ran: the pages     *)
(* skip one row for each.                                                  *)
MissedIsBounded == Cardinality(Missed) <= shifts
=============================================================================
