---------------------------- MODULE DocumentStore ----------------------------
(***************************************************************************)
(* The document store of one tenant: the rows of its `files` and           *)
(* `documents` tables (PostgreSQL, READ COMMITTED), the objects of its S3   *)
(* bucket, and the gunicorn workers that execute the handlers of           *)
(* routes/documents.py that upload, show, download, rename and delete a    *)
(* document, and the one of routes/files.py that deletes a file.           *)
(*                                                                         *)
(* A handler runs inside `tenant_db_session`, so its writes are seen by    *)
(* others only at the commit: the variables `file` and `doc` hold the      *)
(* COMMITTED rows, and tx[w] holds what worker w's open transaction has    *)
(* read and written so far.  One action is one statement (or a run of      *)
(* statements no other actor can observe); between two of them any other   *)
(* worker may run.  Where PostgreSQL makes a statement wait for another    *)
(* transaction (a unique index entry, a row lock, a foreign key check) the *)
(* action has a guard that is false while the other transaction is open.   *)
(*                                                                         *)
(* A content is identified with its MD5 hash, and an S3 object with its    *)
(* path (the path holds the hash of what is stored under it).              *)
(***************************************************************************)
EXTENDS Naturals, FiniteSets

CONSTANTS
  Worker,  \* request handlers that run concurrently
  Hash,    \* MD5 hashes of the uploaded contents
  FileId,  \* primary keys of `files`
  DocId,   \* primary keys of `documents`
  None     \* no row, or a field a request does not use

ASSUME NoneIsNoValue == None \notin Hash \cup FileId \cup DocId

ASSUME WorkersAreFinite == IsFiniteSet(Worker)

VARIABLES
  file,     \* file[f]: md5_hash of the committed row f of `files`, or None
  doc,      \* doc[d]: file_id of the committed row d of `documents`, or None
  s3,       \* the paths under which the bucket holds an object
  tx,       \* tx[w]: the request worker w executes
  tsaQueue  \* the files a timestamp task has been queued for

vars == <<file, doc, s3, tx, tsaQueue>>

(***************************************************************************)
(* Requests                                                                *)
(***************************************************************************)
Idle ==
  [pc |-> "idle", hash |-> None, fid |-> None, did |-> None, isNew |-> FALSE]

(* is_new_file: the upload found no row with its hash and creates one. *)
NewFileUpload ==
  [pc : {"insertFile", "putObject", "insertDocument", "commitUpload",
         "scheduleTsa"},
   hash : Hash, fid : FileId, did : DocId, isNew : {TRUE}]

ReusingUpload ==
  [pc : {"insertDocument", "commitUpload"},
   hash : Hash, fid : FileId, did : DocId, isNew : {FALSE}]

DocChange ==
  [pc : {"flushDocDelete", "commitDocDelete", "flushDocUpdate",
         "commitDocUpdate", "answerDocUpdate"},
   hash : {None}, fid : {None}, did : DocId, isNew : {FALSE}]

FileDelete ==
  [pc : {"flushFileDelete", "commitFileDelete"},
   hash : {None}, fid : FileId, did : {None}, isNew : {FALSE}]

Download ==
  [pc : {"loadFile"}, hash : {None}, fid : FileId, did : DocId,
   isNew : {FALSE}]
  \cup
  [pc : {"getObject", "signUrl"}, hash : Hash, fid : FileId, did : DocId,
   isNew : {FALSE}]

Request ==
  {Idle} \cup NewFileUpload \cup ReusingUpload \cup DocChange \cup FileDelete
    \cup Download

(* tenants/{database}/files/{md5[:2]}/{md5[2:4]}/{md5}_{file_id} *)
S3Path(h, f) == <<h, f>>

(* Worker w goes on with its request at point `to`. *)
Goto(w, to) == tx' = [tx EXCEPT ![w].pc = to]

(* The request of worker w is over; an open transaction leaves no trace. *)
Finish(w) == tx' = [tx EXCEPT ![w] = Idle]

-----------------------------------------------------------------------------
(***************************************************************************)
(* What the open transactions hold                                         *)
(***************************************************************************)

(* w has inserted row f of `files` and not committed it. *)
InsertsFile(w, f) ==
  /\ tx[w].isNew
  /\ tx[w].fid = f
  /\ tx[w].pc \in {"putObject", "insertDocument", "commitUpload"}

(* w has inserted a document that references f: it holds a key-share lock  *)
(* on row f until it ends.                                                 *)
References(w, f) == tx[w].pc = "commitUpload" /\ tx[w].fid = f

(* w has deleted row d of `documents` and holds its lock. *)
DeletesDoc(w, d) == tx[w].pc = "commitDocDelete" /\ tx[w].did = d

(* w has updated row d of `documents` and holds its lock; the update keeps *)
(* the row's key, so a key-share lock does not wait for it.                *)
UpdatesDoc(w, d) == tx[w].pc = "commitDocUpdate" /\ tx[w].did = d

(* w has deleted row f of `files` and holds its lock. *)
DeletesFile(w, f) == tx[w].pc = "commitFileDelete" /\ tx[w].fid = f

(* A bug: the insert already waits for an upload that has only queried, as *)
(* if the query took a shared lock that the insert upgrades.               *)
TempPathBusyUpgrade(w) ==
  \E v \in Worker \ {w} :
    /\ tx[v].hash = tx[w].hash
    /\ tx[v].isNew

(* The row is inserted under the path {md5}_temp first, and s3_path is     *)
(* unique: while another transaction that inserted a row with this hash is *)
(* open, the insert waits, although that row has its final path by then.   *)
TempPathBusy(w) ==
  \E v \in Worker \ {w} :
    /\ tx[v].hash = tx[w].hash
    /\ \E f \in FileId : InsertsFile(v, f)

DocRowBusy(w, d) ==
  \E v \in Worker \ {w} : DeletesDoc(v, d) \/ UpdatesDoc(v, d)

(* The documents of file f that are committed: what `file.documents`       *)
(* loads, and what the foreign key with ON DELETE RESTRICT looks for.      *)
DocumentsOf(f) == {d \in DocId : doc[d] = f}

(* Deleting row f waits for every transaction that references it, deletes  *)
(* it, or deletes one of its documents.                                    *)
FileRowBusy(w, f) ==
  \E v \in Worker \ {w} :
    \/ References(v, f)
    \/ DeletesFile(v, f)
    \/ \E d \in DocumentsOf(f) : DeletesDoc(v, d)

(* Identifiers are UUIDs: one is never drawn twice. *)
FreshFileId(f) ==
  /\ file[f] = None
  /\ \A h \in Hash : S3Path(h, f) \notin s3
  /\ \A w \in Worker : tx[w].fid # f

FreshDocId(d) ==
  /\ doc[d] = None
  /\ \A w \in Worker : tx[w].did # d

-----------------------------------------------------------------------------
(***************************************************************************)
(* POST /documents: upload_document                                        *)
(***************************************************************************)

(* session.query(File).filter_by(md5_hash=...): any row, if there are more. *)
FilesWith(h) == {f \in FileId : file[f] = h}

(* The deduplication query finds a row: the upload will reference it. *)
UploadReusingFile(w, h) ==
  /\ tx[w] = Idle
  /\ \E f \in FilesWith(h), d \in DocId :
       /\ FreshDocId(d)
       /\ tx' = [tx EXCEPT ![w] = [pc |-> "insertDocument", hash |-> h,
                                   fid |-> f, did |-> d, isNew |-> FALSE]]
  /\ UNCHANGED <<file, doc, s3, tsaQueue>>

(* A bug: the deduplication query's result is ignored. *)
UploadWithoutQuery(w, h) ==
  /\ tx[w] = Idle
  /\ \E f \in FileId, d \in DocId :
       /\ FreshFileId(f)
       /\ FreshDocId(d)
       /\ tx' = [tx EXCEPT ![w] = [pc |-> "insertFile", hash |-> h,
                                   fid |-> f, did |-> d, isNew |-> TRUE]]
  /\ UNCHANGED <<file, doc, s3, tsaQueue>>

(* It finds none: the upload will create a row. *)
UploadNewFile(w, h) ==
  /\ tx[w] = Idle
  /\ FilesWith(h) = {}
  /\ \E f \in FileId, d \in DocId :
       /\ FreshFileId(f)
       /\ FreshDocId(d)
       /\ tx' = [tx EXCEPT ![w] = [pc |-> "insertFile", hash |-> h,
                                   fid |-> f, did |-> d, isNew |-> TRUE]]
  /\ UNCHANGED <<file, doc, s3, tsaQueue>>

(* Both flushes: the row under its temporary path, then its final path. *)
InsertFile(w) ==
  /\ tx[w].pc = "insertFile"
  /\ ~TempPathBusy(w)
  /\ Goto(w, "putObject")
  /\ UNCHANGED <<file, doc, s3, tsaQueue>>

(* s3_client.upload_file succeeds, in the middle of the transaction. *)
PutObject(w) ==
  /\ tx[w].pc = "putObject"
  /\ s3' = s3 \cup {S3Path(tx[w].hash, tx[w].fid)}
  /\ Goto(w, "insertDocument")
  /\ UNCHANGED <<file, doc, tsaQueue>>

(* A bug: the handler logs the error and goes on. *)
PutObjectErrorIgnored(w) ==
  /\ tx[w].pc = "putObject"
  /\ s3' \in {s3, s3 \cup {S3Path(tx[w].hash, tx[w].fid)}}
  /\ Goto(w, "insertDocument")
  /\ UNCHANGED <<file, doc, tsaQueue>>

(* It reports an error, and the handler rolls back.  An upload that timed  *)
(* out may have stored the object all the same.                            *)
PutObjectFails(w) ==
  /\ tx[w].pc = "putObject"
  /\ s3' \in {s3, s3 \cup {S3Path(tx[w].hash, tx[w].fid)}}
  /\ Finish(w)
  /\ UNCHANGED <<file, doc, tsaQueue>>

(* A bug: file_id is a column without a foreign key. *)
NoForeignKey(w) == TRUE

(* The row the foreign key needs: w's own, or a committed one. *)
FileRowExists(w) == tx[w].isNew \/ file[tx[w].fid] # None

(* A bug: the timestamp task is queued inside the with block. *)
InsertDocumentAndSchedule(w) ==
  /\ tx[w].pc = "insertDocument"
  /\ \A v \in Worker \ {w} : ~DeletesFile(v, tx[w].fid)
  /\ FileRowExists(w)
  /\ tsaQueue' = IF tx[w].isNew THEN tsaQueue \cup {tx[w].fid} ELSE tsaQueue
  /\ Goto(w, "commitUpload")
  /\ UNCHANGED <<file, doc, s3>>

(* The foreign key check waits for a transaction that deletes the row. *)
InsertDocument(w) ==
  /\ tx[w].pc = "insertDocument"
  /\ \A v \in Worker \ {w} : ~DeletesFile(v, tx[w].fid)
  /\ FileRowExists(w)
  /\ Goto(w, "commitUpload")
  /\ UNCHANGED <<file, doc, s3, tsaQueue>>

(* The reused row is gone: foreign key violation, rollback, response 500. *)
InsertDocumentFails(w) ==
  /\ tx[w].pc = "insertDocument"
  /\ \A v \in Worker \ {w} : ~DeletesFile(v, tx[w].fid)
  /\ ~FileRowExists(w)
  /\ Finish(w)
  /\ UNCHANGED <<file, doc, s3, tsaQueue>>

(* The rows become visible together, at the end of the with block. *)
CommitUpload(w) ==
  /\ tx[w].pc = "commitUpload"
  /\ doc' = [doc EXCEPT ![tx[w].did] = tx[w].fid]
  /\ IF tx[w].isNew
     THEN file' = [file EXCEPT ![tx[w].fid] = tx[w].hash]
          /\ Goto(w, "scheduleTsa")
     ELSE UNCHANGED file /\ Finish(w)
  /\ UNCHANGED <<s3, tsaQueue>>

(* timestamp_file.apply_async, if the tenant has TSA enabled (it may not). *)
ScheduleTsa(w) ==
  /\ tx[w].pc = "scheduleTsa"
  /\ tsaQueue' \in {tsaQueue, tsaQueue \cup {tx[w].fid}}
  /\ Finish(w)
  /\ UNCHANGED <<file, doc, s3>>

-----------------------------------------------------------------------------
(***************************************************************************)
(* DELETE /documents/<id>: delete_document                                 *)
(***************************************************************************)

(* The handler has read the row (there is nothing to do if it is absent). *)
DeleteDocument(w, d) ==
  /\ tx[w] = Idle
  /\ doc[d] # None
  /\ tx' = [tx EXCEPT ![w] = [Idle EXCEPT !.pc = "flushDocDelete",
                                          !.did = d]]
  /\ UNCHANGED <<file, doc, s3, tsaQueue>>

(* DELETE FROM documents waits for the row's lock.  A row that is gone by  *)
(* then is no error: the statement matches no row, which only warns.  The  *)
(* orphan check that follows reads, and its result is only in the response.*)
FlushDocDelete(w) ==
  /\ tx[w].pc = "flushDocDelete"
  /\ ~DocRowBusy(w, tx[w].did)
  /\ Goto(w, "commitDocDelete")
  /\ UNCHANGED <<file, doc, s3, tsaQueue>>

CommitDocDelete(w) ==
  /\ tx[w].pc = "commitDocDelete"
  /\ doc' = [doc EXCEPT ![tx[w].did] = None]
  /\ Finish(w)
  /\ UNCHANGED <<file, s3, tsaQueue>>

-----------------------------------------------------------------------------
(***************************************************************************)
(* PUT /documents/<id>: update_document                                    *)
(***************************************************************************)

(* The handler has read the row and set its filename or MIME type.  With   *)
(* the values that the row has already, nothing is left to flush: the      *)
(* session emits no UPDATE and takes no lock.                              *)
UpdateDocument(w, d) ==
  /\ tx[w] = Idle
  /\ doc[d] # None
  /\ \E to \in {"flushDocUpdate", "answerDocUpdate"} :
       tx' = [tx EXCEPT ![w] = [Idle EXCEPT !.pc = to, !.did = d]]
  /\ UNCHANGED <<file, doc, s3, tsaQueue>>

(* The UPDATE waits for the row's lock, and writes no other column.        *)
FlushDocUpdate(w) ==
  /\ tx[w].pc = "flushDocUpdate"
  /\ ~DocRowBusy(w, tx[w].did)
  /\ doc[tx[w].did] # None
  /\ Goto(w, "commitDocUpdate")
  /\ UNCHANGED <<file, doc, s3, tsaQueue>>

(* The row is gone: the UPDATE matches none (StaleDataError), rollback,    *)
(* response 500.                                                           *)
FlushDocUpdateFails(w) ==
  /\ tx[w].pc = "flushDocUpdate"
  /\ ~DocRowBusy(w, tx[w].did)
  /\ doc[tx[w].did] = None
  /\ Finish(w)
  /\ UNCHANGED <<file, doc, s3, tsaQueue>>

(* The row as it was read is the answer, whatever has become of it since.  *)
AnswerDocUpdate(w) ==
  /\ tx[w].pc = "answerDocUpdate"
  /\ Finish(w)
  /\ UNCHANGED <<file, doc, s3, tsaQueue>>

CommitDocUpdate(w) ==
  /\ tx[w].pc = "commitDocUpdate"
  /\ Finish(w)
  /\ UNCHANGED <<file, doc, s3, tsaQueue>>

-----------------------------------------------------------------------------
(***************************************************************************)
(* DELETE /files/<id>: delete_file                                         *)
(***************************************************************************)

(* The handler has read the row and counted its documents; a file that has *)
(* any is refused with 400.  The loaded (empty) collection is what the     *)
(* later session.delete cascades over: it deletes no document.             *)
DeleteFile(w, f) ==
  /\ tx[w] = Idle
  /\ file[f] # None
  /\ DocumentsOf(f) = {}
  /\ tx' = [tx EXCEPT ![w] = [Idle EXCEPT !.pc = "flushFileDelete",
                                          !.fid = f]]
  /\ UNCHANGED <<file, doc, s3, tsaQueue>>

(* A bug: the handler's own count is all that protects the documents. *)
CountedOnly(f) == FALSE

(* ondelete RESTRICT: the DELETE is refused while documents reference f. *)
Restricted(f) == DocumentsOf(f) # {}

FlushFileDelete(w) ==
  /\ tx[w].pc = "flushFileDelete"
  /\ ~FileRowBusy(w, tx[w].fid)
  /\ ~Restricted(tx[w].fid)
  /\ Goto(w, "commitFileDelete")
  /\ UNCHANGED <<file, doc, s3, tsaQueue>>

(* A document was added after the count: IntegrityError, response 500. *)
FlushFileDeleteFails(w) ==
  /\ tx[w].pc = "flushFileDelete"
  /\ ~FileRowBusy(w, tx[w].fid)
  /\ Restricted(tx[w].fid)
  /\ Finish(w)
  /\ UNCHANGED <<file, doc, s3, tsaQueue>>

(* A bug: the object is deleted with the row, whoever still reads it. *)
CommitFileDeleteWithObject(w) ==
  /\ tx[w].pc = "commitFileDelete"
  /\ file' = [file EXCEPT ![tx[w].fid] = None]
  /\ s3' = s3 \ {S3Path(file[tx[w].fid], tx[w].fid)}
  /\ Finish(w)
  /\ UNCHANGED <<doc, tsaQueue>>

(* The object stays in the bucket: its deletion is not implemented. *)
CommitFileDelete(w) ==
  /\ tx[w].pc = "commitFileDelete"
  /\ file' = [file EXCEPT ![tx[w].fid] = None]
  /\ Finish(w)
  /\ UNCHANGED <<doc, s3, tsaQueue>>

-----------------------------------------------------------------------------
(***************************************************************************)
(* GET /documents/<id>: get_document, and with /download or /download-url: *)
(* download_document, get_download_url                                     *)
(***************************************************************************)

(* The handler has read the document's row. *)
ReadDocument(w, d) ==
  /\ tx[w] = Idle
  /\ doc[d] # None
  /\ tx' = [tx EXCEPT ![w] = [Idle EXCEPT !.pc = "loadFile", !.did = d,
                                          !.fid = doc[d]]]
  /\ UNCHANGED <<file, doc, s3, tsaQueue>>

(* document.file is loaded by a statement of its own, which sees the rows  *)
(* committed by then.  The handlers differ only in what follows.           *)
LoadFile(w) ==
  /\ tx[w].pc = "loadFile"
  /\ file[tx[w].fid] # None
  /\ \E to \in {"getObject", "signUrl"} :
       tx' = [tx EXCEPT ![w].pc = to, ![w].hash = file[tx[w].fid]]
  /\ UNCHANGED <<file, doc, s3, tsaQueue>>

(* The file is gone (and so was the document): document.file is None, and  *)
(* reading its s3_path raises; response 500.                               *)
LoadFileFails(w) ==
  /\ tx[w].pc = "loadFile"
  /\ file[tx[w].fid] = None
  /\ Finish(w)
  /\ UNCHANGED <<file, doc, s3, tsaQueue>>

(* get_document answers with the document, without its file if that is     *)
(* gone.                                                                   *)
ShowDocument(w) ==
  /\ tx[w].pc = "loadFile"
  /\ Finish(w)
  /\ UNCHANGED <<file, doc, s3, tsaQueue>>

(* s3_client.get_object, and the answer is streamed to the client. *)
GetObject(w) ==
  /\ tx[w].pc = "getObject"
  /\ Finish(w)
  /\ UNCHANGED <<file, doc, s3, tsaQueue>>

(* s3_client.generate_presigned_url asks nothing of the bucket: the client *)
(* is given a URL for the path, whatever is or will be under it, or a 500. *)
SignUrl(w) ==
  /\ tx[w].pc = "signUrl"
  /\ Finish(w)
  /\ UNCHANGED <<file, doc, s3, tsaQueue>>

-----------------------------------------------------------------------------
(* A statement fails, or the worker process dies: the transaction rolls    *)
(* back, or (after the commit) the rest of the handler does not happen.    *)
Abort(w) ==
  /\ tx[w].pc # "idle"
  /\ Finish(w)
  /\ UNCHANGED <<file, doc, s3, tsaQueue>>

Init ==
  /\ file = [f \in FileId |-> None]
  /\ doc = [d \in DocId |-> None]
  /\ s3 = {}
  /\ tx = [w \in Worker |-> Idle]
  /\ tsaQueue = {}

Begin(w) ==
  \/ \E h \in Hash : UploadReusingFile(w, h)
  \/ \E h \in Hash : UploadNewFile(w, h)
  \/ \E d \in DocId : DeleteDocument(w, d)
  \/ \E f \in FileId : DeleteFile(w, f)
  \/ \E d \in DocId : ReadDocument(w, d)
  \/ \E d \in DocId : UpdateDocument(w, d)

(* The statements that may have to wait for another transaction. *)
LockStep(w) ==
  \/ InsertFile(w)
  \/ InsertDocument(w)
  \/ InsertDocumentFails(w)
  \/ FlushDocDelete(w)
  \/ FlushDocUpdate(w)
  \/ FlushDocUpdateFails(w)
  \/ FlushFileDelete(w)
  \/ FlushFileDeleteFails(w)

FreeStep(w) ==
  \/ PutObject(w)
  \/ PutObjectFails(w)
  \/ CommitUpload(w)
  \/ ScheduleTsa(w)
  \/ CommitDocDelete(w)
  \/ CommitDocUpdate(w)
  \/ AnswerDocUpdate(w)
  \/ CommitFileDelete(w)
  \/ LoadFile(w)
  \/ LoadFileFails(w)
  \/ ShowDocument(w)
  \/ GetObject(w)
  \/ SignUrl(w)

Next == \E w \in Worker : Begin(w) \/ LockStep(w) \/ FreeStep(w) \/ Abort(w)

Spec == Init /\ [][Next]_vars

(* A worker that runs its request executes its next statement eventually,  *)
(* and PostgreSQL wakes a waiter when what it waits for is released.  That *)
(* a request aborts is never assumed.                                      *)
FairSpec ==
  /\ Spec
  /\ \A w \in Worker : WF_vars(FreeStep(w)) /\ SF_vars(LockStep(w))

-----------------------------------------------------------------------------
(***************************************************************************)
(* Properties                                                              *)
(***************************************************************************)

(* Every variable has its type, and every request holds the fields that    *)
(* the statement it has reached uses.                                      *)
TypeOK ==
  /\ file \in [FileId -> Hash \cup {None}]
  /\ doc \in [DocId -> FileId \cup {None}]
  /\ s3 \subseteq Hash \X FileId
  /\ tx \in [Worker -> Request]
  /\ tsaQueue \subseteq FileId

(* The content behind a row of `documents`, as a download delivers it. *)
ContentOf(d) ==
  IF doc[d] = None THEN None
  ELSE IF /\ file[doc[d]] # None
          /\ S3Path(file[doc[d]], doc[d]) \in s3
       THEN file[doc[d]]
       ELSE "lost"

Library == INSTANCE DocumentLibrary
  WITH Content <- Hash, lib <- [d \in DocId |-> ContentOf(d)]

(* The store implements the library: whatever uploads, deletes, file       *)
(* deletes, rollbacks and crashes overlap, a document appears with the     *)
(* content that was uploaded for it and keeps it until it is deleted.      *)
ImplementsLibrary == Library!Spec

(* Every committed document has its file row: the file delete of an admin, *)
(* whose count of documents is stale when its DELETE runs, never takes the *)
(* row away from a document that an upload attached to it in between.      *)
NoDanglingDocument ==
  \A d \in DocId : doc[d] # None => file[doc[d]] # None

(* Every committed file row has its object in the bucket: the upload to S3 *)
(* comes before the commit and its failure rolls the row back.             *)
FileHasObject ==
  \A f \in FileId : file[f] # None => S3Path(file[f], f) \in s3

(* A download that found its rows finds its object, and a URL is signed    *)
(* for an object that is there, even when document and file are deleted    *)
(* between the last SELECT and the request to S3.                          *)
DownloadFindsObject ==
  \A w \in Worker :
    tx[w].pc \in {"getObject", "signUrl"}
      => S3Path(tx[w].hash, tx[w].fid) \in s3

(* A timestamp task is never queued for a row that may still be rolled     *)
(* back: the task is queued after the with block has committed.            *)
TsaQueuedAfterCommit ==
  \A f \in tsaQueue, w \in Worker : ~InsertsFile(w, f)

(* Uploads of h that found no file row and have not committed theirs. *)
CreatesFileWith(h) ==
  {w \in Worker : /\ tx[w].isNew
                  /\ tx[w].hash = h
                  /\ tx[w].pc # "scheduleTsa"}

(* Deduplication up to concurrency: the file rows with one content never   *)
(* outnumber the workers, over any number of uploads.  Only uploads that   *)
(* all queried before the first of them committed can add a duplicate, so  *)
(* a deployment with one worker never stores a content twice, which        *)
(* models/file.py:62 promises of every deployment.                         *)
DuplicatesBounded ==
  \A h \in Hash :
    Cardinality(FilesWith(h)) + Cardinality(CreatesFileWith(h))
      <= Cardinality(Worker)

(* No lock is waited for in a circle or forever: every request that is     *)
(* not aborted comes to its end.                                           *)
RequestsFinish ==
  \A w \in Worker : tx[w].pc # "idle" ~> tx[w].pc = "idle"

(* A PUT that changes a document has hit a row that is still there when    *)
(* its transaction commits: from the UPDATE on, the row's lock keeps a     *)
(* concurrent deletion away.  (A PUT that changes nothing holds no lock,   *)
(* and may be answered with 200 for a document that is gone.)              *)
UpdatedDocHeld ==
  \A w \in Worker :
    tx[w].pc = "commitDocUpdate" =>
      /\ doc[tx[w].did] # None
      /\ \A v \in Worker : ~DeletesDoc(v, tx[w].did)

-----------------------------------------------------------------------------
(***************************************************************************)
(* The inductive invariant behind the safety properties                    *)
(***************************************************************************)

(* An upload that has not committed yet. *)
Uploading(w) ==
  tx[w].pc \in {"insertFile", "putObject", "insertDocument", "commitUpload"}

(* The identifier of a new file is known to its upload alone until the     *)
(* commit: no row, no document and no other request has it.                *)
NewFileIsPrivate ==
  \A w \in Worker :
    Uploading(w) /\ tx[w].isNew =>
      /\ file[tx[w].fid] = None
      /\ \A d \in DocId : doc[d] # tx[w].fid
      /\ \A v \in Worker \ {w} : tx[v].fid # tx[w].fid
      /\ tx[w].fid \notin tsaQueue

(* So is the identifier of a new document. *)
NewDocIsPrivate ==
  \A w \in Worker :
    Uploading(w) =>
      /\ doc[tx[w].did] = None
      /\ \A v \in Worker \ {w} : tx[v].did # tx[w].did

(* Past its upload to S3, a new file has its object. *)
NewFileStored ==
  \A w \in Worker :
    /\ tx[w].isNew
    /\ tx[w].pc \in {"insertDocument", "commitUpload", "scheduleTsa"}
    => S3Path(tx[w].hash, tx[w].fid) \in s3

(* The row that an upload reuses is the one its query found, or is gone,   *)
(* and cannot go once the upload's document references it.                 *)
ReusedFileHeld ==
  \A w \in Worker :
    Uploading(w) /\ ~tx[w].isNew =>
      /\ file[tx[w].fid] \in {tx[w].hash, None}
      /\ \E h \in Hash : S3Path(h, tx[w].fid) \in s3
      /\ tx[w].pc = "commitUpload" => file[tx[w].fid] # None

(* A transaction that has deleted a file row excludes every reference.     *)
DeletedFileUnreferenced ==
  \A w \in Worker :
    tx[w].pc = "commitFileDelete" =>
      /\ DocumentsOf(tx[w].fid) = {}
      /\ \A v \in Worker : ~References(v, tx[w].fid)

(* A queued file has been stored, so its identifier is never drawn again.  *)
QueuedFileStored ==
  \A f \in tsaQueue : \E h \in Hash : S3Path(h, f) \in s3

IInv ==
  /\ TypeOK
  /\ NoDanglingDocument
  /\ FileHasObject
  /\ DownloadFindsObject
  /\ NewFileIsPrivate
  /\ NewDocIsPrivate
  /\ NewFileStored
  /\ ReusedFileHeld
  /\ DeletedFileUnreferenced
  /\ QueuedFileStored
=============================================================================
