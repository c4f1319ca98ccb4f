------------------------- MODULE DocumentStore_proofs -------------------------
(***************************************************************************)
(* Proofs about DocumentStore, for any sets of workers, hashes and         *)
(* identifiers.                                                            *)
(***************************************************************************)
EXTENDS DocumentStore, FiniteSetTheorems, TLAPS

-----------------------------------------------------------------------------
(* Type correctness *)

LEMMA InitType == Init => TypeOK
  BY DEF Init, TypeOK, Request, Idle

(* The requests a worker can start are requests. *)
LEMMA BeginType ==
  ASSUME TypeOK, NEW w \in Worker, Begin(w)
  PROVE  TypeOK'
  <1>1. ASSUME NEW h \in Hash, UploadReusingFile(w, h)
        PROVE  TypeOK'
    <2>1. PICK f \in FilesWith(h), d \in DocId :
            tx' = [tx EXCEPT ![w] = [pc |-> "insertDocument", hash |-> h,
                                     fid |-> f, did |-> d, isNew |-> FALSE]]
      BY <1>1 DEF UploadReusingFile
    <2>2. [pc |-> "insertDocument", hash |-> h, fid |-> f, did |-> d,
           isNew |-> FALSE] \in Request
      BY DEF FilesWith, Request, ReusingUpload
    <2>3. QED
      BY <1>1, <2>1, <2>2 DEF TypeOK, UploadReusingFile
  <1>2. ASSUME NEW h \in Hash, UploadNewFile(w, h)
        PROVE  TypeOK'
    <2>1. PICK f \in FileId, d \in DocId :
            tx' = [tx EXCEPT ![w] = [pc |-> "insertFile", hash |-> h,
                                     fid |-> f, did |-> d, isNew |-> TRUE]]
      BY <1>2 DEF UploadNewFile
    <2>2. [pc |-> "insertFile", hash |-> h, fid |-> f, did |-> d,
           isNew |-> TRUE] \in Request
      BY DEF Request, NewFileUpload
    <2>3. QED
      BY <1>2, <2>1, <2>2 DEF TypeOK, UploadNewFile
  <1>3. ASSUME NEW d \in DocId, DeleteDocument(w, d)
        PROVE  TypeOK'
    BY <1>3 DEF TypeOK, DeleteDocument, Request, DocChange, Idle
  <1>4. ASSUME NEW f \in FileId, DeleteFile(w, f)
        PROVE  TypeOK'
    BY <1>4 DEF TypeOK, DeleteFile, Request, FileDelete, Idle
  <1>5. ASSUME NEW d \in DocId, ReadDocument(w, d)
        PROVE  TypeOK'
    BY <1>5 DEF TypeOK, ReadDocument, Request, Download, Idle
  <1>6. ASSUME NEW d \in DocId, UpdateDocument(w, d)
        PROVE  TypeOK'
    <2>1. PICK to \in {"flushDocUpdate", "answerDocUpdate"} :
            tx' = [tx EXCEPT ![w] = [Idle EXCEPT !.pc = to, !.did = d]]
      BY <1>6 DEF UpdateDocument
    <2>2. [Idle EXCEPT !.pc = to, !.did = d] \in Request
      BY DEF Idle, Request, DocChange
    <2>3. QED
      BY <1>6, <2>1, <2>2 DEF TypeOK, UpdateDocument
  <1>7. QED
    BY <1>1, <1>2, <1>3, <1>4, <1>5, <1>6 DEF Begin

(* What the program counter says of the other fields of a request. *)
LEMMA RequestFields ==
  ASSUME NEW r \in Request
  PROVE  /\ r.pc = "idle" => r = Idle
         /\ r.pc \in {"insertFile", "putObject", "scheduleTsa"} =>
              r \in NewFileUpload
         /\ r.pc \in {"insertDocument", "commitUpload"} =>
              r \in NewFileUpload \cup ReusingUpload
         /\ r.pc \in {"flushDocDelete", "commitDocDelete", "flushDocUpdate",
                    "commitDocUpdate", "answerDocUpdate"} => r \in DocChange
         /\ r.pc \in {"flushFileDelete", "commitFileDelete"} =>
              r \in FileDelete
         /\ r.pc \in {"loadFile", "getObject", "signUrl"} => r \in Download
  <1>1. CASE r = Idle
    BY <1>1 DEF Idle
  <1>2. CASE r \in NewFileUpload \cup ReusingUpload
    BY <1>2 DEF NewFileUpload, ReusingUpload
  <1>3. CASE r \in DocChange \cup FileDelete
    BY <1>3 DEF DocChange, FileDelete
  <1>4. CASE r \in Download
    BY <1>4 DEF Download
  <1>5. QED
    BY <1>1, <1>2, <1>3, <1>4 DEF Request

(* A request that goes on remains a request. *)
LEMMA StepType ==
  ASSUME TypeOK, NEW w \in Worker, LockStep(w) \/ FreeStep(w) \/ Abort(w)
  PROVE  TypeOK'
  <1>1. Idle \in Request
    BY DEF Request
  <1>2. CASE Finish(w) /\ UNCHANGED <<file, doc, s3, tsaQueue>>
    BY <1>1, <1>2 DEF TypeOK, Finish
  <1>3. CASE InsertFile(w)
    <2>1. tx[w] \in NewFileUpload
      BY <1>3, RequestFields DEF InsertFile, TypeOK
    <2>2. [tx[w] EXCEPT !.pc = "putObject"] \in Request
      BY <2>1 DEF NewFileUpload, Request
    <2>3. QED
      BY <1>3, <2>2 DEF InsertFile, TypeOK, Goto
  <1>4. CASE InsertDocument(w)
    <2>1. tx[w] \in NewFileUpload \cup ReusingUpload
      BY <1>4, RequestFields DEF InsertDocument, TypeOK
    <2>2. [tx[w] EXCEPT !.pc = "commitUpload"] \in Request
      BY <2>1 DEF NewFileUpload, ReusingUpload, Request
    <2>3. QED
      BY <1>4, <2>2 DEF InsertDocument, TypeOK, Goto
  <1>5. CASE FlushDocDelete(w)
    <2>1. tx[w] \in DocChange
      BY <1>5, RequestFields DEF FlushDocDelete, TypeOK
    <2>2. [tx[w] EXCEPT !.pc = "commitDocDelete"] \in Request
      BY <2>1 DEF DocChange, Request
    <2>3. QED
      BY <1>5, <2>2 DEF FlushDocDelete, TypeOK, Goto
  <1>6. CASE FlushFileDelete(w)
    <2>1. tx[w] \in FileDelete
      BY <1>6, RequestFields DEF FlushFileDelete, TypeOK
    <2>2. [tx[w] EXCEPT !.pc = "commitFileDelete"] \in Request
      BY <2>1 DEF FileDelete, Request
    <2>3. QED
      BY <1>6, <2>2 DEF FlushFileDelete, TypeOK, Goto
  <1>7. CASE PutObject(w)
    <2>1. tx[w] \in NewFileUpload
      BY <1>7, RequestFields DEF PutObject, TypeOK
    <2>2. /\ [tx[w] EXCEPT !.pc = "insertDocument"] \in Request
          /\ S3Path(tx[w].hash, tx[w].fid) \in Hash \X FileId
      BY <2>1 DEF NewFileUpload, Request, S3Path
    <2>3. QED
      BY <1>7, <2>2 DEF PutObject, TypeOK, Goto
  <1>8. CASE PutObjectFails(w)
    <2>1. tx[w] \in NewFileUpload
      BY <1>8, RequestFields DEF PutObjectFails, TypeOK
    <2>2. S3Path(tx[w].hash, tx[w].fid) \in Hash \X FileId
      BY <2>1 DEF NewFileUpload, S3Path
    <2>3. QED
      BY <1>1, <1>8, <2>2 DEF PutObjectFails, TypeOK, Finish
  <1>9. CASE CommitUpload(w)
    <2>1. tx[w] \in NewFileUpload \cup ReusingUpload
      BY <1>9, RequestFields DEF CommitUpload, TypeOK
    <2>2. CASE tx[w].isNew
      <3>1. tx[w] \in NewFileUpload
        BY <2>1, <2>2 DEF ReusingUpload
      <3>2. [tx[w] EXCEPT !.pc = "scheduleTsa"] \in Request
        BY <3>1 DEF NewFileUpload, Request
      <3>3. QED
        BY <1>9, <2>2, <3>1, <3>2
        DEF CommitUpload, TypeOK, Goto, NewFileUpload
    <2>3. CASE ~tx[w].isNew
      <3>1. tx[w].fid \in FileId
        BY <2>1 DEF NewFileUpload, ReusingUpload
      <3>2. QED
        BY <1>1, <1>9, <2>3, <3>1 DEF CommitUpload, TypeOK, Finish
    <2>4. QED
      BY <2>2, <2>3
  <1>10. CASE ScheduleTsa(w)
    <2>1. tx[w].fid \in FileId
      BY <1>10, RequestFields DEF ScheduleTsa, TypeOK, NewFileUpload
    <2>2. QED
      BY <1>1, <1>10, <2>1 DEF ScheduleTsa, TypeOK, Finish
  <1>11. CASE CommitDocDelete(w)
    BY <1>1, <1>11 DEF CommitDocDelete, TypeOK, Finish
  <1>12. CASE CommitFileDelete(w)
    BY <1>1, <1>12 DEF CommitFileDelete, TypeOK, Finish
  <1>13. CASE LoadFile(w)
    <2>1. tx[w] \in Download
      BY <1>13, RequestFields DEF LoadFile, TypeOK
    <2>2. PICK to \in {"getObject", "signUrl"} :
            tx' = [tx EXCEPT ![w].pc = to, ![w].hash = file[tx[w].fid]]
      BY <1>13 DEF LoadFile
    <2>3. [tx[w] EXCEPT !.pc = to, !.hash = file[tx[w].fid]] \in Request
      BY <1>13, <2>1 DEF LoadFile, TypeOK, Download, Request
    <2>4. QED
      BY <1>13, <2>2, <2>3 DEF LoadFile, TypeOK
  <1>14. CASE FlushDocUpdate(w)
    <2>1. tx[w] \in DocChange
      BY <1>14, RequestFields DEF FlushDocUpdate, TypeOK
    <2>2. [tx[w] EXCEPT !.pc = "commitDocUpdate"] \in Request
      BY <2>1 DEF DocChange, Request
    <2>3. QED
      BY <1>14, <2>2 DEF FlushDocUpdate, TypeOK, Goto
  <1>15. QED
    BY <1>2, <1>3, <1>4, <1>5, <1>6, <1>7, <1>8, <1>9, <1>10, <1>11, <1>12,
       <1>13, <1>14
    DEF LockStep, FreeStep, Abort, InsertDocumentFails, FlushFileDeleteFails,
        FlushDocUpdateFails, CommitDocUpdate, AnswerDocUpdate, LoadFileFails,
        ShowDocument, GetObject, SignUrl

LEMMA NextType == TypeOK /\ [Next]_vars => TypeOK'
  <1>1. ASSUME TypeOK, UNCHANGED vars
        PROVE  TypeOK'
    BY <1>1 DEF TypeOK, vars
  <1>2. QED
    BY <1>1, BeginType, StepType DEF Next

(* Every variable has its type, and every request has the fields that the  *)
(* statement it has reached uses.                                          *)
THEOREM TypeCorrect == Spec => []TypeOK
  <1>1. QED
    BY InitType, NextType, PTL DEF Spec
-----------------------------------------------------------------------------
(* The inductive invariant *)

(* The types of a request's fields, by its program counter. *)
LEMMA FieldTypes ==
  ASSUME NEW r \in Request
  PROVE  /\ r.pc \in {"insertFile", "putObject", "insertDocument",
                      "commitUpload", "scheduleTsa"} =>
              r.hash \in Hash /\ r.fid \in FileId /\ r.did \in DocId
         /\ r.pc \in {"flushDocDelete", "commitDocDelete", "flushDocUpdate",
                      "commitDocUpdate", "answerDocUpdate"} =>
              r.did \in DocId /\ r.fid = None
         /\ r.pc \in {"flushFileDelete", "commitFileDelete"} =>
              r.fid \in FileId /\ r.did = None
         /\ r.pc \in {"loadFile", "getObject", "signUrl"} =>
              r.fid \in FileId /\ r.did \in DocId
         /\ r.pc \in {"getObject", "signUrl"} => r.hash \in Hash
         /\ r.isNew \in BOOLEAN
         /\ r.isNew => r \in NewFileUpload
  <1>1. CASE r = Idle
    BY <1>1 DEF Idle
  <1>2. CASE r \in NewFileUpload
    BY <1>2 DEF NewFileUpload
  <1>3. CASE r \in ReusingUpload
    BY <1>3 DEF ReusingUpload
  <1>4. CASE r \in DocChange \cup FileDelete
    BY <1>4 DEF DocChange, FileDelete
  <1>5. CASE r \in Download
    BY <1>5 DEF Download
  <1>6. QED
    BY <1>1, <1>2, <1>3, <1>4, <1>5 DEF Request

LEMMA InitInv == Init => IInv
  BY InitType DEF Init, IInv, Idle, NoDanglingDocument, FileHasObject,
     DownloadFindsObject, NewFileIsPrivate, NewDocIsPrivate, NewFileStored,
     ReusedFileHeld, DeletedFileUnreferenced, QueuedFileStored, Uploading

LEMMA StutterInv == IInv /\ UNCHANGED vars => IInv'
  BY DEF vars, IInv, TypeOK, NoDanglingDocument, FileHasObject,
     DownloadFindsObject, NewFileIsPrivate, NewDocIsPrivate, NewFileStored,
     ReusedFileHeld, DeletedFileUnreferenced, QueuedFileStored, Uploading,
     DocumentsOf, References

(* Three conjuncts only relate rows, objects and queued tasks. *)
LEMMA SameRows ==
  ASSUME IInv, UNCHANGED <<file, doc, s3, tsaQueue>>
  PROVE  NoDanglingDocument' /\ FileHasObject' /\ QueuedFileStored'
  BY DEF IInv, NoDanglingDocument, FileHasObject, QueuedFileStored

(* An upload that starts takes identifiers nobody has.                     *)
LEMMA UploadReusingFileKeeps ==
  ASSUME IInv, TypeOK', NEW w \in Worker,
         NEW h \in Hash, UploadReusingFile(w, h)
  PROVE  IInv'
  <1>1. NoDanglingDocument' /\ FileHasObject' /\ QueuedFileStored'
    BY SameRows DEF UploadReusingFile
  <1>2. DownloadFindsObject'
    BY FieldTypes, NoneIsNoValue DEF IInv, TypeOK, DownloadFindsObject,
       UploadReusingFile, FreshDocId, FilesWith, Idle
  <1>3. NewFileIsPrivate'
    BY FieldTypes, NoneIsNoValue DEF IInv, TypeOK, NewFileIsPrivate,
       Uploading, UploadReusingFile, FreshDocId, FilesWith, Idle,
       NoDanglingDocument, QueuedFileStored
  <1>4. NewDocIsPrivate'
    BY FieldTypes, NoneIsNoValue DEF IInv, TypeOK, NewDocIsPrivate,
       Uploading, UploadReusingFile, FreshDocId, FilesWith, Idle
  <1>5. NewFileStored'
    BY FieldTypes, NoneIsNoValue DEF IInv, TypeOK, NewFileStored,
       UploadReusingFile, FreshDocId, FilesWith, Idle
  <1>6. ReusedFileHeld'
    BY FieldTypes, NoneIsNoValue DEF IInv, TypeOK, ReusedFileHeld,
       Uploading, UploadReusingFile, FreshDocId, FilesWith, Idle, FileHasObject
  <1>7. DeletedFileUnreferenced'
    BY FieldTypes, NoneIsNoValue DEF IInv, TypeOK, DeletedFileUnreferenced,
       DocumentsOf, References, UploadReusingFile, FreshDocId, FilesWith, Idle
  <1>8. QED
    BY <1>1, <1>2, <1>3, <1>4, <1>5, <1>6, <1>7 DEF IInv

LEMMA UploadNewFileKeeps ==
  ASSUME IInv, TypeOK', NEW w \in Worker,
         NEW h \in Hash, UploadNewFile(w, h)
  PROVE  IInv'
  <1>1. NoDanglingDocument' /\ FileHasObject' /\ QueuedFileStored'
    BY SameRows DEF UploadNewFile
  <1>2. DownloadFindsObject'
    BY FieldTypes, NoneIsNoValue DEF IInv, TypeOK, DownloadFindsObject,
       UploadNewFile, FreshFileId, FreshDocId, Idle
  <1>3. NewFileIsPrivate'
    BY FieldTypes, NoneIsNoValue DEF IInv, TypeOK, NewFileIsPrivate,
       Uploading, UploadNewFile, FreshFileId, FreshDocId, Idle,
       NoDanglingDocument, QueuedFileStored
  <1>4. NewDocIsPrivate'
    BY FieldTypes, NoneIsNoValue DEF IInv, TypeOK, NewDocIsPrivate,
       Uploading, UploadNewFile, FreshFileId, FreshDocId, Idle
  <1>5. NewFileStored'
    BY FieldTypes, NoneIsNoValue DEF IInv, TypeOK, NewFileStored,
       UploadNewFile, FreshFileId, FreshDocId, Idle
  <1>6. ReusedFileHeld'
    BY FieldTypes, NoneIsNoValue DEF IInv, TypeOK, ReusedFileHeld,
       Uploading, UploadNewFile, FreshFileId, FreshDocId, Idle, FileHasObject
  <1>7. DeletedFileUnreferenced'
    BY FieldTypes, NoneIsNoValue DEF IInv, TypeOK, DeletedFileUnreferenced,
       DocumentsOf, References, UploadNewFile, FreshFileId, FreshDocId, Idle
  <1>8. QED
    BY <1>1, <1>2, <1>3, <1>4, <1>5, <1>6, <1>7 DEF IInv

(* The other requests start with identifiers they have found in rows.      *)
LEMMA DeleteDocumentKeeps ==
  ASSUME IInv, TypeOK', NEW w \in Worker,
         NEW d \in DocId, DeleteDocument(w, d)
  PROVE  IInv'
  <1>1. NoDanglingDocument' /\ FileHasObject' /\ QueuedFileStored'
    BY SameRows DEF DeleteDocument
  <1>2. DownloadFindsObject'
    BY FieldTypes, NoneIsNoValue DEF IInv, TypeOK, DownloadFindsObject,
       DeleteDocument, Idle
  <1>3. NewFileIsPrivate'
    BY FieldTypes, NoneIsNoValue DEF IInv, TypeOK, NewFileIsPrivate,
       Uploading, DeleteDocument, Idle, NoDanglingDocument, QueuedFileStored
  <1>4. NewDocIsPrivate'
    BY FieldTypes, NoneIsNoValue DEF IInv, TypeOK, NewDocIsPrivate,
       Uploading, DeleteDocument, Idle
  <1>5. NewFileStored'
    BY FieldTypes, NoneIsNoValue DEF IInv, TypeOK, NewFileStored,
       DeleteDocument, Idle
  <1>6. ReusedFileHeld'
    BY FieldTypes, NoneIsNoValue DEF IInv, TypeOK, ReusedFileHeld,
       Uploading, DeleteDocument, Idle, FileHasObject
  <1>7. DeletedFileUnreferenced'
    BY FieldTypes, NoneIsNoValue DEF IInv, TypeOK, DeletedFileUnreferenced,
       DocumentsOf, References, DeleteDocument, Idle
  <1>8. QED
    BY <1>1, <1>2, <1>3, <1>4, <1>5, <1>6, <1>7 DEF IInv

LEMMA DeleteFileKeeps ==
  ASSUME IInv, TypeOK', NEW w \in Worker,
         NEW f \in FileId, DeleteFile(w, f)
  PROVE  IInv'
  <1>1. NoDanglingDocument' /\ FileHasObject' /\ QueuedFileStored'
    BY SameRows DEF DeleteFile
  <1>2. DownloadFindsObject'
    BY FieldTypes, NoneIsNoValue DEF IInv, TypeOK, DownloadFindsObject,
       DeleteFile, Idle
  <1>3. NewFileIsPrivate'
    BY FieldTypes, NoneIsNoValue DEF IInv, TypeOK, NewFileIsPrivate,
       Uploading, DeleteFile, Idle, NoDanglingDocument, QueuedFileStored
  <1>4. NewDocIsPrivate'
    BY FieldTypes, NoneIsNoValue DEF IInv, TypeOK, NewDocIsPrivate,
       Uploading, DeleteFile, Idle
  <1>5. NewFileStored'
    BY FieldTypes, NoneIsNoValue DEF IInv, TypeOK, NewFileStored,
       DeleteFile, Idle
  <1>6. ReusedFileHeld'
    BY FieldTypes, NoneIsNoValue DEF IInv, TypeOK, ReusedFileHeld,
       Uploading, DeleteFile, Idle, FileHasObject
  <1>7. DeletedFileUnreferenced'
    BY FieldTypes, NoneIsNoValue DEF IInv, TypeOK, DeletedFileUnreferenced,
       DocumentsOf, References, DeleteFile, Idle
  <1>8. QED
    BY <1>1, <1>2, <1>3, <1>4, <1>5, <1>6, <1>7 DEF IInv

LEMMA ReadDocumentKeeps ==
  ASSUME IInv, TypeOK', NEW w \in Worker,
         NEW d \in DocId, ReadDocument(w, d)
  PROVE  IInv'
  <1>1. NoDanglingDocument' /\ FileHasObject' /\ QueuedFileStored'
    BY SameRows DEF ReadDocument
  <1>2. DownloadFindsObject'
    BY FieldTypes, NoneIsNoValue DEF IInv, TypeOK, DownloadFindsObject,
       ReadDocument, Idle
  <1>3. NewFileIsPrivate'
    BY FieldTypes, NoneIsNoValue DEF IInv, TypeOK, NewFileIsPrivate,
       Uploading, ReadDocument, Idle, NoDanglingDocument, QueuedFileStored
  <1>4. NewDocIsPrivate'
    BY FieldTypes, NoneIsNoValue DEF IInv, TypeOK, NewDocIsPrivate,
       Uploading, ReadDocument, Idle
  <1>5. NewFileStored'
    BY FieldTypes, NoneIsNoValue DEF IInv, TypeOK, NewFileStored,
       ReadDocument, Idle
  <1>6. ReusedFileHeld'
    BY FieldTypes, NoneIsNoValue DEF IInv, TypeOK, ReusedFileHeld,
       Uploading, ReadDocument, Idle, FileHasObject
  <1>7. DeletedFileUnreferenced'
    BY FieldTypes, NoneIsNoValue DEF IInv, TypeOK, DeletedFileUnreferenced,
       DocumentsOf, References, ReadDocument, Idle
  <1>8. QED
    BY <1>1, <1>2, <1>3, <1>4, <1>5, <1>6, <1>7 DEF IInv

LEMMA UpdateDocumentKeeps ==
  ASSUME IInv, TypeOK', NEW w \in Worker,
         NEW d \in DocId, UpdateDocument(w, d)
  PROVE  IInv'
  <1>1. NoDanglingDocument' /\ FileHasObject' /\ QueuedFileStored'
    BY SameRows DEF UpdateDocument
  <1>2. DownloadFindsObject'
    BY FieldTypes, NoneIsNoValue DEF IInv, TypeOK, DownloadFindsObject,
       UpdateDocument, Idle
  <1>3. NewFileIsPrivate'
    BY FieldTypes, NoneIsNoValue DEF IInv, TypeOK, NewFileIsPrivate,
       Uploading, UpdateDocument, Idle, NoDanglingDocument, QueuedFileStored
  <1>4. NewDocIsPrivate'
    BY FieldTypes, NoneIsNoValue DEF IInv, TypeOK, NewDocIsPrivate,
       Uploading, UpdateDocument, Idle
  <1>5. NewFileStored'
    BY FieldTypes, NoneIsNoValue DEF IInv, TypeOK, NewFileStored,
       UpdateDocument, Idle
  <1>6. ReusedFileHeld'
    BY FieldTypes, NoneIsNoValue DEF IInv, TypeOK, ReusedFileHeld,
       Uploading, UpdateDocument, Idle, FileHasObject
  <1>7. DeletedFileUnreferenced'
    BY FieldTypes, NoneIsNoValue DEF IInv, TypeOK, DeletedFileUnreferenced,
       DocumentsOf, References, UpdateDocument, Idle
  <1>8. QED
    BY <1>1, <1>2, <1>3, <1>4, <1>5, <1>6, <1>7 DEF IInv

(* A request that ends without a write.                                    *)
LEMMA FinishKeeps ==
  ASSUME IInv, TypeOK', NEW w \in Worker, Finish(w),
         UNCHANGED <<file, doc, s3, tsaQueue>>
  PROVE  IInv'
  <1>1. NoDanglingDocument' /\ FileHasObject' /\ QueuedFileStored'
    BY SameRows DEF Finish
  <1>2. DownloadFindsObject'
    BY FieldTypes, NoneIsNoValue DEF IInv, TypeOK, DownloadFindsObject,
       Finish, Idle
  <1>3. NewFileIsPrivate'
    BY FieldTypes, NoneIsNoValue DEF IInv, TypeOK, NewFileIsPrivate,
       Uploading, Finish, Idle
  <1>4. NewDocIsPrivate'
    BY FieldTypes, NoneIsNoValue DEF IInv, TypeOK, NewDocIsPrivate,
       Uploading, Finish, Idle
  <1>5. NewFileStored'
    BY FieldTypes, NoneIsNoValue DEF IInv, TypeOK, NewFileStored, Finish,
       Idle
  <1>6. ReusedFileHeld'
    BY FieldTypes, NoneIsNoValue DEF IInv, TypeOK, ReusedFileHeld,
       Uploading, Finish, Idle
  <1>7. DeletedFileUnreferenced'
    BY FieldTypes, NoneIsNoValue DEF IInv, TypeOK, DeletedFileUnreferenced,
       DocumentsOf, References, Finish, Idle
  <1>8. QED
    BY <1>1, <1>2, <1>3, <1>4, <1>5, <1>6, <1>7 DEF IInv

(* A statement that takes a lock changes no committed row.                 *)
LEMMA InsertFileKeeps ==
  ASSUME IInv, TypeOK', NEW w \in Worker, InsertFile(w)
  PROVE  IInv'
  <1>1. NoDanglingDocument' /\ FileHasObject' /\ QueuedFileStored'
    BY SameRows DEF InsertFile
  <1>2. DownloadFindsObject'
    BY RequestFields DEF IInv, TypeOK, DownloadFindsObject, InsertFile, Goto
  <1>3. NewFileIsPrivate'
    BY RequestFields DEF IInv, TypeOK, NewFileIsPrivate, Uploading,
       InsertFile, Goto
  <1>4. NewDocIsPrivate'
    BY RequestFields DEF IInv, TypeOK, NewDocIsPrivate, Uploading,
       InsertFile, Goto
  <1>5. NewFileStored'
    BY RequestFields DEF IInv, TypeOK, NewFileStored, InsertFile, Goto
  <1>6. ReusedFileHeld'
    BY RequestFields DEF IInv, TypeOK, ReusedFileHeld, Uploading,
       InsertFile, Goto
  <1>7. DeletedFileUnreferenced'
    BY RequestFields DEF IInv, TypeOK, DeletedFileUnreferenced, DocumentsOf,
       References, InsertFile, Goto
  <1>8. QED
    BY <1>1, <1>2, <1>3, <1>4, <1>5, <1>6, <1>7 DEF IInv

(* The foreign key check finds the row, and no transaction deletes it.     *)
LEMMA InsertDocumentKeeps ==
  ASSUME IInv, TypeOK', NEW w \in Worker, InsertDocument(w)
  PROVE  IInv'
  <1>1. NoDanglingDocument' /\ FileHasObject' /\ QueuedFileStored'
    BY SameRows DEF InsertDocument
  <1>2. DownloadFindsObject'
    BY RequestFields DEF IInv, TypeOK, DownloadFindsObject, InsertDocument,
       Goto, FileRowExists, DeletesFile
  <1>3. NewFileIsPrivate'
    BY RequestFields DEF IInv, TypeOK, NewFileIsPrivate, Uploading,
       InsertDocument, Goto, FileRowExists, DeletesFile
  <1>4. NewDocIsPrivate'
    BY RequestFields DEF IInv, TypeOK, NewDocIsPrivate, Uploading,
       InsertDocument, Goto, FileRowExists, DeletesFile
  <1>5. NewFileStored'
    BY RequestFields DEF IInv, TypeOK, NewFileStored, InsertDocument, Goto,
       FileRowExists, DeletesFile
  <1>6. ReusedFileHeld'
    BY RequestFields DEF IInv, TypeOK, ReusedFileHeld, Uploading,
       InsertDocument, Goto, FileRowExists, DeletesFile
  <1>7. DeletedFileUnreferenced'
    BY RequestFields DEF IInv, TypeOK, DeletedFileUnreferenced, DocumentsOf,
       References, InsertDocument, Goto, FileRowExists, DeletesFile
  <1>8. QED
    BY <1>1, <1>2, <1>3, <1>4, <1>5, <1>6, <1>7 DEF IInv

LEMMA FlushDocDeleteKeeps ==
  ASSUME IInv, TypeOK', NEW w \in Worker, FlushDocDelete(w)
  PROVE  IInv'
  <1>1. NoDanglingDocument' /\ FileHasObject' /\ QueuedFileStored'
    BY SameRows DEF FlushDocDelete
  <1>2. DownloadFindsObject'
    BY RequestFields DEF IInv, TypeOK, DownloadFindsObject, FlushDocDelete,
       Goto
  <1>3. NewFileIsPrivate'
    BY RequestFields DEF IInv, TypeOK, NewFileIsPrivate, Uploading,
       FlushDocDelete, Goto
  <1>4. NewDocIsPrivate'
    BY RequestFields DEF IInv, TypeOK, NewDocIsPrivate, Uploading,
       FlushDocDelete, Goto
  <1>5. NewFileStored'
    BY RequestFields DEF IInv, TypeOK, NewFileStored, FlushDocDelete, Goto
  <1>6. ReusedFileHeld'
    BY RequestFields DEF IInv, TypeOK, ReusedFileHeld, Uploading,
       FlushDocDelete, Goto
  <1>7. DeletedFileUnreferenced'
    BY RequestFields DEF IInv, TypeOK, DeletedFileUnreferenced, DocumentsOf,
       References, FlushDocDelete, Goto
  <1>8. QED
    BY <1>1, <1>2, <1>3, <1>4, <1>5, <1>6, <1>7 DEF IInv

LEMMA FlushDocUpdateKeeps ==
  ASSUME IInv, TypeOK', NEW w \in Worker, FlushDocUpdate(w)
  PROVE  IInv'
  <1>1. NoDanglingDocument' /\ FileHasObject' /\ QueuedFileStored'
    BY SameRows DEF FlushDocUpdate
  <1>2. DownloadFindsObject'
    BY RequestFields DEF IInv, TypeOK, DownloadFindsObject, FlushDocUpdate,
       Goto
  <1>3. NewFileIsPrivate'
    BY RequestFields DEF IInv, TypeOK, NewFileIsPrivate, Uploading,
       FlushDocUpdate, Goto
  <1>4. NewDocIsPrivate'
    BY RequestFields DEF IInv, TypeOK, NewDocIsPrivate, Uploading,
       FlushDocUpdate, Goto
  <1>5. NewFileStored'
    BY RequestFields DEF IInv, TypeOK, NewFileStored, FlushDocUpdate, Goto
  <1>6. ReusedFileHeld'
    BY RequestFields DEF IInv, TypeOK, ReusedFileHeld, Uploading,
       FlushDocUpdate, Goto
  <1>7. DeletedFileUnreferenced'
    BY RequestFields DEF IInv, TypeOK, DeletedFileUnreferenced, DocumentsOf,
       References, FlushDocUpdate, Goto
  <1>8. QED
    BY <1>1, <1>2, <1>3, <1>4, <1>5, <1>6, <1>7 DEF IInv

(* Here the transaction comes to exclude every reference to the file: the  *)
(* waits are over, and RESTRICT found no document.                         *)
LEMMA FlushFileDeleteKeeps ==
  ASSUME IInv, TypeOK', NEW w \in Worker, FlushFileDelete(w)
  PROVE  IInv'
  <1>1. NoDanglingDocument' /\ FileHasObject' /\ QueuedFileStored'
    BY SameRows DEF FlushFileDelete
  <1>2. DownloadFindsObject'
    BY RequestFields DEF IInv, TypeOK, DownloadFindsObject, FlushFileDelete,
       Goto, FileRowBusy, Restricted, DocumentsOf, References
  <1>3. NewFileIsPrivate'
    BY RequestFields DEF IInv, TypeOK, NewFileIsPrivate, Uploading,
       FlushFileDelete, Goto, FileRowBusy, Restricted, DocumentsOf, References
  <1>4. NewDocIsPrivate'
    BY RequestFields DEF IInv, TypeOK, NewDocIsPrivate, Uploading,
       FlushFileDelete, Goto, FileRowBusy, Restricted, DocumentsOf, References
  <1>5. NewFileStored'
    BY RequestFields DEF IInv, TypeOK, NewFileStored, FlushFileDelete, Goto,
       FileRowBusy, Restricted, DocumentsOf, References
  <1>6. ReusedFileHeld'
    BY RequestFields DEF IInv, TypeOK, ReusedFileHeld, Uploading,
       FlushFileDelete, Goto, FileRowBusy, Restricted, DocumentsOf, References
  <1>7. DeletedFileUnreferenced'
    BY RequestFields DEF IInv, TypeOK, DeletedFileUnreferenced, DocumentsOf,
       References, FlushFileDelete, Goto, FileRowBusy, Restricted
  <1>8. QED
    BY <1>1, <1>2, <1>3, <1>4, <1>5, <1>6, <1>7 DEF IInv

LEMMA PutObjectKeeps ==
  ASSUME IInv, TypeOK', NEW w \in Worker, PutObject(w)
  PROVE  IInv'
  <1>1. NoDanglingDocument'
    BY RequestFields DEF IInv, TypeOK, NoDanglingDocument, PutObject, Goto
  <1>2. FileHasObject'
    BY RequestFields DEF IInv, TypeOK, FileHasObject, PutObject, Goto
  <1>3. DownloadFindsObject'
    BY RequestFields DEF IInv, TypeOK, DownloadFindsObject, PutObject, Goto
  <1>4. NewFileIsPrivate'
    BY RequestFields DEF IInv, TypeOK, NewFileIsPrivate, Uploading,
       PutObject, Goto
  <1>5. NewDocIsPrivate'
    BY RequestFields DEF IInv, TypeOK, NewDocIsPrivate, Uploading,
       PutObject, Goto
  <1>6. NewFileStored'
    BY RequestFields DEF IInv, TypeOK, NewFileStored, PutObject, Goto
  <1>7. ReusedFileHeld'
    BY RequestFields DEF IInv, TypeOK, ReusedFileHeld, Uploading, PutObject,
       Goto
  <1>8. DeletedFileUnreferenced'
    BY RequestFields DEF IInv, TypeOK, DeletedFileUnreferenced, DocumentsOf,
       References, PutObject, Goto
  <1>9. QueuedFileStored'
    BY RequestFields DEF IInv, TypeOK, QueuedFileStored, PutObject, Goto
  <1>10. QED
    BY <1>1, <1>2, <1>3, <1>4, <1>5, <1>6, <1>7, <1>8, <1>9 DEF IInv

LEMMA PutObjectFailsKeeps ==
  ASSUME IInv, TypeOK', NEW w \in Worker, PutObjectFails(w)
  PROVE  IInv'
  <1>1. NoDanglingDocument'
    BY FieldTypes, NoneIsNoValue DEF IInv, TypeOK, NoDanglingDocument,
       PutObjectFails, Finish, Idle
  <1>2. FileHasObject'
    BY FieldTypes, NoneIsNoValue DEF IInv, TypeOK, FileHasObject,
       PutObjectFails, Finish, Idle
  <1>3. DownloadFindsObject'
    BY FieldTypes, NoneIsNoValue DEF IInv, TypeOK, DownloadFindsObject,
       PutObjectFails, Finish, Idle
  <1>4. NewFileIsPrivate'
    BY FieldTypes, NoneIsNoValue DEF IInv, TypeOK, NewFileIsPrivate,
       Uploading, PutObjectFails, Finish, Idle
  <1>5. NewDocIsPrivate'
    BY FieldTypes, NoneIsNoValue DEF IInv, TypeOK, NewDocIsPrivate,
       Uploading, PutObjectFails, Finish, Idle
  <1>6. NewFileStored'
    BY FieldTypes, NoneIsNoValue DEF IInv, TypeOK, NewFileStored,
       PutObjectFails, Finish, Idle
  <1>7. ReusedFileHeld'
    BY FieldTypes, NoneIsNoValue DEF IInv, TypeOK, ReusedFileHeld,
       Uploading, PutObjectFails, Finish, Idle
  <1>8. DeletedFileUnreferenced'
    BY FieldTypes, NoneIsNoValue DEF IInv, TypeOK, DeletedFileUnreferenced,
       DocumentsOf, References, PutObjectFails, Finish, Idle
  <1>9. QueuedFileStored'
    BY FieldTypes, NoneIsNoValue DEF IInv, TypeOK, QueuedFileStored,
       PutObjectFails, Finish, Idle
  <1>10. QED
    BY <1>1, <1>2, <1>3, <1>4, <1>5, <1>6, <1>7, <1>8, <1>9 DEF IInv

(* The commit of an upload that creates its file row.                      *)
LEMMA CommitNewFileKeeps ==
  ASSUME IInv, TypeOK', NEW w \in Worker, CommitUpload(w), tx[w].isNew
  PROVE  IInv'
  <1>1. /\ tx[w].hash \in Hash
        /\ tx[w].fid \in FileId
        /\ tx[w].did \in DocId
        /\ tx[w].pc = "commitUpload"
    BY FieldTypes DEF CommitUpload, IInv, TypeOK
  <1>2. /\ doc' = [doc EXCEPT ![tx[w].did] = tx[w].fid]
        /\ UNCHANGED <<s3, tsaQueue>>
        /\ file' = [file EXCEPT ![tx[w].fid] = tx[w].hash]
        /\ tx' = [tx EXCEPT ![w].pc = "scheduleTsa"]
    BY DEF CommitUpload, Goto
  <1>3. NoDanglingDocument'
    BY <1>1, <1>2, FieldTypes, NoneIsNoValue DEF IInv, TypeOK,
       NoDanglingDocument, Idle, ReusedFileHeld, Uploading
  <1>4. FileHasObject'
    BY <1>1, <1>2, FieldTypes, NoneIsNoValue DEF IInv, TypeOK,
       FileHasObject, Idle, NewFileStored
  <1>5. DownloadFindsObject'
    BY <1>1, <1>2, FieldTypes, NoneIsNoValue DEF IInv, TypeOK,
       DownloadFindsObject, Idle
  <1>6. NewFileIsPrivate'
    BY <1>1, <1>2, FieldTypes, NoneIsNoValue DEF IInv, TypeOK,
       NewFileIsPrivate, Uploading, Idle, NewDocIsPrivate
  <1>7. NewDocIsPrivate'
    BY <1>1, <1>2, FieldTypes, NoneIsNoValue DEF IInv, TypeOK,
       NewDocIsPrivate, Uploading, Idle
  <1>8. NewFileStored'
    BY <1>1, <1>2, FieldTypes, NoneIsNoValue DEF IInv, TypeOK,
       NewFileStored, Idle
  <1>9. ReusedFileHeld'
    BY <1>1, <1>2, FieldTypes, NoneIsNoValue DEF IInv, TypeOK,
       ReusedFileHeld, Uploading, Idle, NewFileIsPrivate
  <1>10. DeletedFileUnreferenced'
    BY <1>1, <1>2, FieldTypes, NoneIsNoValue DEF IInv, TypeOK,
       DeletedFileUnreferenced, DocumentsOf, References, Idle
  <1>11. QueuedFileStored'
    BY <1>1, <1>2, FieldTypes, NoneIsNoValue DEF IInv, TypeOK,
       QueuedFileStored, Idle
  <1>12. QED
    BY <1>3, <1>4, <1>5, <1>6, <1>7, <1>8, <1>9, <1>10, <1>11 DEF IInv

(* The commit of an upload that reuses a file row, which is still there.   *)
LEMMA CommitReusingKeeps ==
  ASSUME IInv, TypeOK', NEW w \in Worker, CommitUpload(w), ~tx[w].isNew
  PROVE  IInv'
  <1>1. /\ tx[w].hash \in Hash
        /\ tx[w].fid \in FileId
        /\ tx[w].did \in DocId
        /\ tx[w].pc = "commitUpload"
    BY FieldTypes DEF CommitUpload, IInv, TypeOK
  <1>2. /\ doc' = [doc EXCEPT ![tx[w].did] = tx[w].fid]
        /\ UNCHANGED <<s3, tsaQueue>>
        /\ file' = file
        /\ tx' = [tx EXCEPT ![w] = Idle]
    BY DEF CommitUpload, Finish
  <1>3. NoDanglingDocument'
    BY <1>1, <1>2, FieldTypes, NoneIsNoValue DEF IInv, TypeOK,
       NoDanglingDocument, Idle, ReusedFileHeld, Uploading
  <1>4. FileHasObject'
    BY <1>1, <1>2, FieldTypes, NoneIsNoValue DEF IInv, TypeOK,
       FileHasObject, Idle, NewFileStored
  <1>5. DownloadFindsObject'
    BY <1>1, <1>2, FieldTypes, NoneIsNoValue DEF IInv, TypeOK,
       DownloadFindsObject, Idle
  <1>6. NewFileIsPrivate'
    BY <1>1, <1>2, FieldTypes, NoneIsNoValue DEF IInv, TypeOK,
       NewFileIsPrivate, Uploading, Idle, NewDocIsPrivate
  <1>7. NewDocIsPrivate'
    BY <1>1, <1>2, FieldTypes, NoneIsNoValue DEF IInv, TypeOK,
       NewDocIsPrivate, Uploading, Idle
  <1>8. NewFileStored'
    BY <1>1, <1>2, FieldTypes, NoneIsNoValue DEF IInv, TypeOK,
       NewFileStored, Idle
  <1>9. ReusedFileHeld'
    BY <1>1, <1>2, FieldTypes, NoneIsNoValue DEF IInv, TypeOK,
       ReusedFileHeld, Uploading, Idle, NewFileIsPrivate
  <1>10. DeletedFileUnreferenced'
    BY <1>1, <1>2, FieldTypes, NoneIsNoValue DEF IInv, TypeOK,
       DeletedFileUnreferenced, DocumentsOf, References, Idle
  <1>11. QueuedFileStored'
    BY <1>1, <1>2, FieldTypes, NoneIsNoValue DEF IInv, TypeOK,
       QueuedFileStored, Idle
  <1>12. QED
    BY <1>3, <1>4, <1>5, <1>6, <1>7, <1>8, <1>9, <1>10, <1>11 DEF IInv

LEMMA ScheduleTsaKeeps ==
  ASSUME IInv, TypeOK', NEW w \in Worker, ScheduleTsa(w)
  PROVE  IInv'
  <1>1. NoDanglingDocument'
    BY FieldTypes, NoneIsNoValue DEF IInv, TypeOK, NoDanglingDocument,
       ScheduleTsa, Finish, Idle
  <1>2. FileHasObject'
    BY FieldTypes, NoneIsNoValue DEF IInv, TypeOK, FileHasObject,
       ScheduleTsa, Finish, Idle
  <1>3. DownloadFindsObject'
    BY FieldTypes, NoneIsNoValue DEF IInv, TypeOK, DownloadFindsObject,
       ScheduleTsa, Finish, Idle
  <1>4. NewFileIsPrivate'
    BY FieldTypes, NoneIsNoValue DEF IInv, TypeOK, NewFileIsPrivate,
       Uploading, ScheduleTsa, Finish, Idle
  <1>5. NewDocIsPrivate'
    BY FieldTypes, NoneIsNoValue DEF IInv, TypeOK, NewDocIsPrivate,
       Uploading, ScheduleTsa, Finish, Idle
  <1>6. NewFileStored'
    BY FieldTypes, NoneIsNoValue DEF IInv, TypeOK, NewFileStored,
       ScheduleTsa, Finish, Idle
  <1>7. ReusedFileHeld'
    BY FieldTypes, NoneIsNoValue DEF IInv, TypeOK, ReusedFileHeld,
       Uploading, ScheduleTsa, Finish, Idle
  <1>8. DeletedFileUnreferenced'
    BY FieldTypes, NoneIsNoValue DEF IInv, TypeOK, DeletedFileUnreferenced,
       DocumentsOf, References, ScheduleTsa, Finish, Idle
  <1>9. QueuedFileStored'
    <2>1. tx[w] \in NewFileUpload
      BY RequestFields DEF ScheduleTsa, IInv, TypeOK
    <2>2. \E h \in Hash : S3Path(h, tx[w].fid) \in s3
      BY <2>1 DEF IInv, NewFileStored, ScheduleTsa, NewFileUpload
    <2>3. QED
      BY <2>2 DEF IInv, QueuedFileStored, ScheduleTsa
  <1>10. QED
    BY <1>1, <1>2, <1>3, <1>4, <1>5, <1>6, <1>7, <1>8, <1>9 DEF IInv

LEMMA CommitDocDeleteKeeps ==
  ASSUME IInv, TypeOK', NEW w \in Worker, CommitDocDelete(w)
  PROVE  IInv'
  <1>1. NoDanglingDocument'
    BY FieldTypes, NoneIsNoValue DEF IInv, TypeOK, NoDanglingDocument,
       CommitDocDelete, Finish, Idle
  <1>2. FileHasObject'
    BY FieldTypes, NoneIsNoValue DEF IInv, TypeOK, FileHasObject,
       CommitDocDelete, Finish, Idle
  <1>3. DownloadFindsObject'
    BY FieldTypes, NoneIsNoValue DEF IInv, TypeOK, DownloadFindsObject,
       CommitDocDelete, Finish, Idle
  <1>4. NewFileIsPrivate'
    BY FieldTypes, NoneIsNoValue DEF IInv, TypeOK, NewFileIsPrivate,
       Uploading, CommitDocDelete, Finish, Idle
  <1>5. NewDocIsPrivate'
    BY FieldTypes, NoneIsNoValue DEF IInv, TypeOK, NewDocIsPrivate,
       Uploading, CommitDocDelete, Finish, Idle
  <1>6. NewFileStored'
    BY FieldTypes, NoneIsNoValue DEF IInv, TypeOK, NewFileStored,
       CommitDocDelete, Finish, Idle
  <1>7. ReusedFileHeld'
    BY FieldTypes, NoneIsNoValue DEF IInv, TypeOK, ReusedFileHeld,
       Uploading, CommitDocDelete, Finish, Idle
  <1>8. DeletedFileUnreferenced'
    BY FieldTypes, NoneIsNoValue DEF IInv, TypeOK, DeletedFileUnreferenced,
       DocumentsOf, References, CommitDocDelete, Finish, Idle
  <1>9. QueuedFileStored'
    BY FieldTypes, NoneIsNoValue DEF IInv, TypeOK, QueuedFileStored,
       CommitDocDelete, Finish, Idle
  <1>10. QED
    BY <1>1, <1>2, <1>3, <1>4, <1>5, <1>6, <1>7, <1>8, <1>9 DEF IInv

(* The row that goes has no document, and no open upload references it.    *)
LEMMA CommitFileDeleteKeeps ==
  ASSUME IInv, TypeOK', NEW w \in Worker, CommitFileDelete(w)
  PROVE  IInv'
  <1>1. NoDanglingDocument'
    BY FieldTypes, NoneIsNoValue DEF IInv, TypeOK, NoDanglingDocument,
       CommitFileDelete, Finish, Idle, DeletedFileUnreferenced, DocumentsOf,
       References
  <1>2. FileHasObject'
    BY FieldTypes, NoneIsNoValue DEF IInv, TypeOK, FileHasObject,
       CommitFileDelete, Finish, Idle
  <1>3. DownloadFindsObject'
    BY FieldTypes, NoneIsNoValue DEF IInv, TypeOK, DownloadFindsObject,
       CommitFileDelete, Finish, Idle
  <1>4. NewFileIsPrivate'
    BY FieldTypes, NoneIsNoValue DEF IInv, TypeOK, NewFileIsPrivate,
       Uploading, CommitFileDelete, Finish, Idle
  <1>5. NewDocIsPrivate'
    BY FieldTypes, NoneIsNoValue DEF IInv, TypeOK, NewDocIsPrivate,
       Uploading, CommitFileDelete, Finish, Idle
  <1>6. NewFileStored'
    BY FieldTypes, NoneIsNoValue DEF IInv, TypeOK, NewFileStored,
       CommitFileDelete, Finish, Idle
  <1>7. ReusedFileHeld'
    BY FieldTypes, NoneIsNoValue DEF IInv, TypeOK, ReusedFileHeld,
       Uploading, CommitFileDelete, Finish, Idle, DeletedFileUnreferenced,
       DocumentsOf, References
  <1>8. DeletedFileUnreferenced'
    BY FieldTypes, NoneIsNoValue DEF IInv, TypeOK, DeletedFileUnreferenced,
       DocumentsOf, References, CommitFileDelete, Finish, Idle
  <1>9. QueuedFileStored'
    BY FieldTypes, NoneIsNoValue DEF IInv, TypeOK, QueuedFileStored,
       CommitFileDelete, Finish, Idle
  <1>10. QED
    BY <1>1, <1>2, <1>3, <1>4, <1>5, <1>6, <1>7, <1>8, <1>9 DEF IInv

LEMMA LoadFileKeeps ==
  ASSUME IInv, TypeOK', NEW w \in Worker, LoadFile(w)
  PROVE  IInv'
  <1>1. NoDanglingDocument' /\ FileHasObject' /\ QueuedFileStored'
    BY SameRows DEF LoadFile
  <1>2. DownloadFindsObject'
    <2>1. tx[w] \in Download
      BY RequestFields DEF LoadFile, IInv, TypeOK
    <2>2. tx'[w].fid = tx[w].fid /\ tx'[w].hash = file[tx[w].fid]
      BY <2>1 DEF Download, LoadFile, IInv, TypeOK
    <2>3. S3Path(tx'[w].hash, tx'[w].fid) \in s3
      BY <2>1, <2>2 DEF IInv, FileHasObject, LoadFile, Download
    <2>4. s3' = s3 /\ \A v \in Worker \ {w} : tx'[v] = tx[v]
      BY DEF LoadFile, IInv, TypeOK
    <2>5. ASSUME NEW v \in Worker, tx'[v].pc \in {"getObject", "signUrl"}
          PROVE  S3Path(tx'[v].hash, tx'[v].fid) \in s3
      <3>1. CASE v = w
        BY <2>3, <3>1
      <3>2. CASE v # w
        BY <2>4, <2>5, <3>2 DEF IInv, DownloadFindsObject
      <3>3. QED
        BY <3>1, <3>2
    <2>6. QED
      BY <2>4, <2>5 DEF DownloadFindsObject
  <1>3. NewFileIsPrivate'
    BY FieldTypes, NoneIsNoValue DEF IInv, TypeOK, NewFileIsPrivate,
       Uploading, LoadFile
  <1>4. NewDocIsPrivate'
    BY FieldTypes, NoneIsNoValue DEF IInv, TypeOK, NewDocIsPrivate,
       Uploading, LoadFile
  <1>5. NewFileStored'
    BY FieldTypes, NoneIsNoValue DEF IInv, TypeOK, NewFileStored, LoadFile
  <1>6. ReusedFileHeld'
    BY FieldTypes, NoneIsNoValue DEF IInv, TypeOK, ReusedFileHeld,
       Uploading, LoadFile
  <1>7. DeletedFileUnreferenced'
    BY FieldTypes, NoneIsNoValue DEF IInv, TypeOK, DeletedFileUnreferenced,
       DocumentsOf, References, LoadFile
  <1>8. QED
    BY <1>1, <1>2, <1>3, <1>4, <1>5, <1>6, <1>7 DEF IInv

LEMMA NextInv == IInv /\ [Next]_vars => IInv'
  <1>1. ASSUME IInv, NEW w \in Worker, Begin(w)
        PROVE  IInv'
    <2>1. TypeOK'
      BY <1>1, BeginType DEF IInv
    <2>2. QED
      BY <1>1, <2>1, UploadReusingFileKeeps, UploadNewFileKeeps,
         DeleteDocumentKeeps, DeleteFileKeeps, ReadDocumentKeeps,
         UpdateDocumentKeeps
      DEF Begin
  <1>2. ASSUME IInv, NEW w \in Worker,
               LockStep(w) \/ FreeStep(w) \/ Abort(w)
        PROVE  IInv'
    <2>1. TypeOK'
      BY <1>2, StepType DEF IInv
    <2>2. CASE LockStep(w)
      BY <1>2, <2>1, <2>2, InsertFileKeeps, InsertDocumentKeeps,
         FlushDocDeleteKeeps, FlushDocUpdateKeeps, FlushFileDeleteKeeps,
         FinishKeeps
      DEF LockStep, InsertDocumentFails, FlushDocUpdateFails,
          FlushFileDeleteFails
    <2>3. CASE FreeStep(w)
      BY <1>2, <2>1, <2>3, PutObjectKeeps, PutObjectFailsKeeps,
         CommitNewFileKeeps, CommitReusingKeeps, ScheduleTsaKeeps,
         CommitDocDeleteKeeps, CommitFileDeleteKeeps, LoadFileKeeps,
         FinishKeeps
      DEF FreeStep, CommitDocUpdate, AnswerDocUpdate, LoadFileFails,
          ShowDocument, GetObject, SignUrl
    <2>4. CASE Abort(w)
      BY <1>2, <2>1, <2>4, FinishKeeps DEF Abort
    <2>5. QED
      BY <1>2, <2>2, <2>3, <2>4
  <1>3. QED
    BY <1>1, <1>2, StutterInv DEF Next

(* The invariant is one: it holds initially and every step keeps it.       *)
THEOREM Invariant == Spec => []IInv
  <1>1. QED
    BY InitInv, NextInv, PTL DEF Spec

(* A file delete never takes the row away from a committed document.       *)
THEOREM DocumentsKeepTheirFile == Spec => []NoDanglingDocument
  <1>1. IInv => NoDanglingDocument
    BY DEF IInv
  <1>2. QED
    BY <1>1, Invariant, PTL

(* Every committed file row has its object in the bucket.                  *)
THEOREM FilesAreStored == Spec => []FileHasObject
  <1>1. IInv => FileHasObject
    BY DEF IInv
  <1>2. QED
    BY <1>1, Invariant, PTL

(* A download that found its rows finds its object.                        *)
THEOREM DownloadsSucceed == Spec => []DownloadFindsObject
  <1>1. IInv => DownloadFindsObject
    BY DEF IInv
  <1>2. QED
    BY <1>1, Invariant, PTL

(* A timestamp task is queued only for a file row that is committed.       *)
THEOREM TsaAfterCommit == Spec => []TsaQueuedAfterCommit
  <1>1. IInv => TsaQueuedAfterCommit
    BY DEF IInv, TsaQueuedAfterCommit, NewFileIsPrivate, InsertsFile,
       Uploading
  <1>2. QED
    BY <1>1, Invariant, PTL

-----------------------------------------------------------------------------
(* Updates *)

(* The row's lock excludes the deletion of the row, from either side.      *)
LEMMA NextUpdated ==
  ASSUME TypeOK, UpdatedDocHeld, TypeOK', [Next]_vars
  PROVE  UpdatedDocHeld'
  <1>1. CASE UNCHANGED vars
    BY <1>1 DEF vars, UpdatedDocHeld, DeletesDoc
  <1>2. ASSUME NEW w \in Worker, doc' = doc,
               tx'[w].pc \notin {"commitDocUpdate", "commitDocDelete"},
               \A v \in Worker \ {w} : tx'[v] = tx[v]
        PROVE  UpdatedDocHeld'
    BY <1>2 DEF UpdatedDocHeld, DeletesDoc
  <1>3. ASSUME NEW w \in Worker, Begin(w)
        PROVE  UpdatedDocHeld'
    <2>1. doc' = doc /\ \A v \in Worker \ {w} : tx'[v] = tx[v]
      BY <1>3 DEF Begin, UploadReusingFile, UploadNewFile, DeleteDocument,
         DeleteFile, ReadDocument, UpdateDocument, TypeOK
    <2>2. tx'[w].pc \in {"insertDocument", "insertFile", "flushDocDelete",
                         "flushFileDelete", "loadFile", "flushDocUpdate",
                         "answerDocUpdate"}
      <3>1. ASSUME NEW h \in Hash,
                   UploadReusingFile(w, h) \/ UploadNewFile(w, h)
            PROVE  tx'[w].pc \in {"insertDocument", "insertFile"}
        BY <3>1 DEF UploadReusingFile, UploadNewFile, TypeOK
      <3>2. ASSUME NEW d \in DocId,
                   \/ DeleteDocument(w, d) \/ ReadDocument(w, d)
                   \/ UpdateDocument(w, d)
            PROVE  tx'[w].pc \in {"flushDocDelete", "loadFile",
                                  "flushDocUpdate", "answerDocUpdate"}
        BY <3>2 DEF DeleteDocument, ReadDocument, UpdateDocument, Idle,
           TypeOK
      <3>3. ASSUME NEW f \in FileId, DeleteFile(w, f)
            PROVE  tx'[w].pc = "flushFileDelete"
        BY <3>3 DEF DeleteFile, Idle, TypeOK
      <3>4. QED
        BY <1>3, <3>1, <3>2, <3>3 DEF Begin
    <2>3. QED
      BY <1>2, <2>1, <2>2
  <1>4. ASSUME NEW w \in Worker, Finish(w)
        PROVE  /\ tx'[w].pc = "idle"
               /\ \A v \in Worker \ {w} : tx'[v] = tx[v]
    BY <1>4 DEF Finish, Idle, TypeOK
  <1>5. ASSUME NEW w \in Worker, NEW to, Goto(w, to), tx[w].pc # "idle"
        PROVE  /\ tx'[w].pc = to
               /\ tx'[w].did = tx[w].did
               /\ \A v \in Worker \ {w} : tx'[v] = tx[v]
    <2>1. tx[w] \in Request
      BY DEF TypeOK
    <2>2. DOMAIN tx[w] = {"pc", "hash", "fid", "did", "isNew"}
      BY <2>1 DEF Request, Idle, NewFileUpload, ReusingUpload, DocChange,
         FileDelete, Download
    <2>3. QED
      BY <1>5, <2>2 DEF Goto, TypeOK
  <1>6. ASSUME NEW w \in Worker, LockStep(w)
        PROVE  UpdatedDocHeld'
    <2>1. CASE InsertFile(w) \/ InsertDocument(w) \/ FlushFileDelete(w)
      BY <1>2, <1>5, <2>1 DEF InsertFile, InsertDocument, FlushFileDelete
    <2>2. CASE \/ InsertDocumentFails(w) \/ FlushDocUpdateFails(w)
               \/ FlushFileDeleteFails(w)
      BY <1>2, <1>4, <2>2
      DEF InsertDocumentFails, FlushDocUpdateFails, FlushFileDeleteFails
    <2>3. CASE FlushDocDelete(w)
      BY <1>5, <2>3 DEF FlushDocDelete, UpdatedDocHeld, DocRowBusy,
         DeletesDoc, UpdatesDoc
    <2>4. CASE FlushDocUpdate(w)
      BY <1>5, <2>4 DEF FlushDocUpdate, UpdatedDocHeld, DocRowBusy,
         DeletesDoc, UpdatesDoc
    <2>5. QED
      BY <1>6, <2>1, <2>2, <2>3, <2>4 DEF LockStep
  <1>7. ASSUME NEW w \in Worker, FreeStep(w) \/ Abort(w)
        PROVE  UpdatedDocHeld'
    <2>1. CASE PutObject(w)
      BY <1>2, <1>5, <2>1 DEF PutObject
    <2>2. CASE CommitUpload(w)
      <3>1. tx[w].fid \in FileId
        BY <2>2, FieldTypes DEF CommitUpload, TypeOK
      <3>2. /\ \A v \in Worker \ {w} : tx'[v] = tx[v]
            /\ tx'[w].pc \in {"scheduleTsa", "idle"}
        <4>1. tx[w].pc # "idle" /\ (Goto(w, "scheduleTsa") \/ Finish(w))
          BY <2>2 DEF CommitUpload
        <4>2. CASE Goto(w, "scheduleTsa")
          BY <1>5, <4>1, <4>2
        <4>3. CASE Finish(w)
          BY <1>4, <4>3
        <4>4. QED
          BY <4>1, <4>2, <4>3
      <3>3. \A d \in DocId : doc[d] # None => doc'[d] # None
        BY <2>2, <3>1, NoneIsNoValue DEF CommitUpload, TypeOK
      <3>4. \A v \in Worker : tx[v].pc = "commitDocUpdate" =>
                                tx[v].did \in DocId
        BY FieldTypes DEF TypeOK
      <3>5. QED
        BY <3>2, <3>3, <3>4 DEF UpdatedDocHeld, DeletesDoc
    <2>3. CASE CommitDocDelete(w)
      <3>1. /\ \A v \in Worker \ {w} : tx'[v] = tx[v]
            /\ tx'[w].pc = "idle"
            /\ doc' = [doc EXCEPT ![tx[w].did] = None]
            /\ DeletesDoc(w, tx[w].did)
        BY <1>4, <2>3 DEF CommitDocDelete, DeletesDoc
      <3>2. QED
        BY <3>1 DEF UpdatedDocHeld, DeletesDoc, TypeOK
    <2>4. CASE LoadFile(w)
      <3>1. tx[w] \in Download
        BY <2>4, RequestFields DEF LoadFile, TypeOK
      <3>2. tx'[w].pc \in {"getObject", "signUrl"}
        BY <2>4, <3>1 DEF LoadFile, Download, TypeOK
      <3>3. doc' = doc /\ \A v \in Worker \ {w} : tx'[v] = tx[v]
        BY <2>4 DEF LoadFile, TypeOK
      <3>4. QED
        BY <1>2, <3>2, <3>3
    <2>5. CASE Finish(w) /\ doc' = doc
      BY <1>2, <1>4, <2>5
    <2>6. QED
      BY <1>7, <2>1, <2>2, <2>3, <2>4, <2>5
      DEF FreeStep, Abort, PutObjectFails, ScheduleTsa, CommitDocUpdate,
          AnswerDocUpdate, CommitFileDelete, LoadFileFails, ShowDocument, GetObject, SignUrl
  <1>8. QED
    BY <1>1, <1>3, <1>6, <1>7 DEF Next

(* An update that changes a document has hit a row that is there until its *)
(* commit.                                                                 *)
THEOREM UpdatesHitRows == Spec => []UpdatedDocHeld
  <1>1. Init => UpdatedDocHeld
    BY DEF Init, Idle, UpdatedDocHeld
  <1>2. TypeOK /\ UpdatedDocHeld /\ [Next]_vars => UpdatedDocHeld'
    BY NextType, NextUpdated
  <1>3. QED
    BY <1>1, <1>2, TypeCorrect, PTL DEF Spec

-----------------------------------------------------------------------------
(* Deduplication *)

(* The bound, and that it is about finite sets. *)
DuplicatesInv ==
  /\ \A h \in Hash : IsFiniteSet(FilesWith(h))
  /\ DuplicatesBounded

(* There are no more creators than workers. *)
LEMMA CreatorsBounded ==
  ASSUME NEW h \in Hash
  PROVE  /\ IsFiniteSet(CreatesFileWith(h))
         /\ Cardinality(CreatesFileWith(h)) \in Nat
         /\ Cardinality(CreatesFileWith(h)) <= Cardinality(Worker)
         /\ Cardinality(Worker) \in Nat
  <1>1. CreatesFileWith(h) \in SUBSET Worker
    BY DEF CreatesFileWith
  <1>2. QED
    BY <1>1, WorkersAreFinite, FS_Subset, FS_CardinalityType

(* A step that adds neither a row nor a creator keeps the bound. *)
LEMMA FewerKeep ==
  ASSUME NEW h \in Hash, DuplicatesInv,
         FilesWith(h)' \subseteq FilesWith(h),
         CreatesFileWith(h)' \subseteq CreatesFileWith(h)
  PROVE  /\ IsFiniteSet(FilesWith(h)')
         /\ Cardinality(FilesWith(h)') + Cardinality(CreatesFileWith(h)')
              <= Cardinality(Worker)
  <1>1. /\ IsFiniteSet(FilesWith(h)) /\ IsFiniteSet(CreatesFileWith(h))
        /\ Cardinality(FilesWith(h)) + Cardinality(CreatesFileWith(h))
             <= Cardinality(Worker)
    BY CreatorsBounded DEF DuplicatesInv, DuplicatesBounded
  <1>2. /\ IsFiniteSet(FilesWith(h)')
        /\ Cardinality(FilesWith(h)') <= Cardinality(FilesWith(h))
    BY <1>1, FS_Subset
  <1>3. /\ IsFiniteSet(CreatesFileWith(h)')
        /\ Cardinality(CreatesFileWith(h)')
             <= Cardinality(CreatesFileWith(h))
    BY <1>1, FS_Subset
  <1>4. /\ Cardinality(FilesWith(h)) \in Nat
        /\ Cardinality(FilesWith(h)') \in Nat
        /\ Cardinality(CreatesFileWith(h)) \in Nat
        /\ Cardinality(CreatesFileWith(h)') \in Nat
        /\ Cardinality(Worker) \in Nat
    BY <1>1, <1>2, <1>3, FS_CardinalityType, WorkersAreFinite
  <1>5. QED
    BY <1>1, <1>2, <1>3, <1>4

(* The query finds no row: whoever creates one, there is none yet. *)
LEMMA UploadNewFileBounded ==
  ASSUME IInv, DuplicatesInv, NEW w \in Worker, NEW g \in Hash,
         UploadNewFile(w, g), NEW h \in Hash
  PROVE  /\ IsFiniteSet(FilesWith(h)')
         /\ Cardinality(FilesWith(h)') + Cardinality(CreatesFileWith(h)')
              <= Cardinality(Worker)
  <1>1. FilesWith(h)' = FilesWith(h)
    BY DEF UploadNewFile, FilesWith
  <1>2. CASE h = g
    <2>1. FilesWith(h)' = {}
      BY <1>1, <1>2 DEF UploadNewFile
    <2>2. IsFiniteSet(FilesWith(h)') /\ Cardinality(FilesWith(h)') = 0
      BY <2>1, FS_EmptySet
    <2>3. CreatesFileWith(h)' \in SUBSET Worker
      BY DEF CreatesFileWith
    <2>4. /\ Cardinality(CreatesFileWith(h)') <= Cardinality(Worker)
          /\ Cardinality(CreatesFileWith(h)') \in Nat
      BY <2>3, WorkersAreFinite, FS_Subset, FS_CardinalityType
    <2>5. QED
      BY <2>2, <2>4
  <1>3. CASE h # g
    <2>1. CreatesFileWith(h)' \subseteq CreatesFileWith(h)
      BY <1>3 DEF UploadNewFile, CreatesFileWith, IInv, TypeOK
    <2>2. QED
      BY <1>1, <2>1, FewerKeep
  <1>4. QED
    BY <1>2, <1>3

(* The commit of a new row makes its creator one of the rows. *)
LEMMA CommitNewFileBounded ==
  ASSUME IInv, DuplicatesInv, NEW w \in Worker, CommitUpload(w),
         tx[w].isNew, NEW h \in Hash
  PROVE  /\ IsFiniteSet(FilesWith(h)')
         /\ Cardinality(FilesWith(h)') + Cardinality(CreatesFileWith(h)')
              <= Cardinality(Worker)
  <1>1. PICK g \in Hash, f \in FileId : /\ g = tx[w].hash
                                       /\ f = tx[w].fid
    BY FieldTypes DEF CommitUpload, IInv, TypeOK
  <1>2. /\ tx[w].pc = "commitUpload"
        /\ file' = [file EXCEPT ![f] = g]
        /\ tx' = [tx EXCEPT ![w].pc = "scheduleTsa"]
    BY <1>1 DEF CommitUpload, Goto
  <1>3. file[f] = None
    BY <1>1, <1>2 DEF IInv, NewFileIsPrivate, Uploading
  <1>4. file \in [FileId -> Hash \cup {None}] /\ tx \in [Worker -> Request]
    BY DEF IInv, TypeOK
  <1>5. CASE h = g
    <2>1. FilesWith(h)' = FilesWith(h) \cup {f} /\ f \notin FilesWith(h)
      BY <1>2, <1>3, <1>4, <1>5, NoneIsNoValue DEF FilesWith
    <2>2. /\ w \in CreatesFileWith(h)
          /\ CreatesFileWith(h)' = CreatesFileWith(h) \ {w}
      BY <1>1, <1>2, <1>4, <1>5 DEF CreatesFileWith
    <2>3. /\ IsFiniteSet(FilesWith(h)) /\ IsFiniteSet(CreatesFileWith(h))
          /\ Cardinality(FilesWith(h)) + Cardinality(CreatesFileWith(h))
               <= Cardinality(Worker)
      BY CreatorsBounded DEF DuplicatesInv, DuplicatesBounded
    <2>4. /\ IsFiniteSet(FilesWith(h)')
          /\ Cardinality(FilesWith(h)') = Cardinality(FilesWith(h)) + 1
      BY <2>1, <2>3, FS_AddElement
    <2>5. Cardinality(CreatesFileWith(h)')
            = Cardinality(CreatesFileWith(h)) - 1
      BY <2>2, <2>3, FS_RemoveElement
    <2>6. /\ Cardinality(FilesWith(h)) \in Nat
          /\ Cardinality(CreatesFileWith(h)) \in Nat
          /\ Cardinality(Worker) \in Nat
      BY <2>3, FS_CardinalityType, WorkersAreFinite
    <2>7. QED
      BY <2>3, <2>4, <2>5, <2>6
  <1>6. CASE h # g
    <2>1. FilesWith(h)' = FilesWith(h)
      BY <1>2, <1>3, <1>4, <1>6, NoneIsNoValue DEF FilesWith
    <2>2. CreatesFileWith(h)' \subseteq CreatesFileWith(h)
      BY <1>1, <1>2, <1>4, <1>6 DEF CreatesFileWith
    <2>3. QED
      BY <2>1, <2>2, FewerKeep
  <1>7. QED
    BY <1>5, <1>6

(* A request that begins is no creator, unless it is such an upload. *)
LEMMA BeginCreatesNone ==
  ASSUME IInv, NEW w \in Worker, Begin(w),
         ~\E g \in Hash : UploadNewFile(w, g)
  PROVE  /\ file' = file
         /\ ~tx'[w].isNew
         /\ \A v \in Worker \ {w} : tx'[v] = tx[v]
  <1>1. tx \in [Worker -> Request]
    BY DEF IInv, TypeOK
  <1>2. ASSUME NEW g \in Hash, UploadReusingFile(w, g)
        PROVE  /\ file' = file
               /\ ~tx'[w].isNew
               /\ \A v \in Worker \ {w} : tx'[v] = tx[v]
    BY <1>1, <1>2 DEF UploadReusingFile
  <1>3. ASSUME NEW d \in DocId,
               \/ DeleteDocument(w, d) \/ UpdateDocument(w, d)
               \/ ReadDocument(w, d)
        PROVE  /\ file' = file
               /\ ~tx'[w].isNew
               /\ \A v \in Worker \ {w} : tx'[v] = tx[v]
    BY <1>1, <1>3 DEF DeleteDocument, UpdateDocument, ReadDocument, Idle
  <1>4. ASSUME NEW f \in FileId, DeleteFile(w, f)
        PROVE  /\ file' = file
               /\ ~tx'[w].isNew
               /\ \A v \in Worker \ {w} : tx'[v] = tx[v]
    BY <1>1, <1>4 DEF DeleteFile, Idle
  <1>5. QED
    BY <1>2, <1>3, <1>4 DEF Begin

(* Worker w ends or goes on without creating a row. *)
LEMMA OthersAddNone ==
  ASSUME IInv, NEW w \in Worker, NEW h \in Hash,
         Begin(w) \/ LockStep(w) \/ FreeStep(w) \/ Abort(w),
         ~\E g \in Hash : UploadNewFile(w, g),
         ~(CommitUpload(w) /\ tx[w].isNew)
  PROVE  /\ FilesWith(h)' \subseteq FilesWith(h)
         /\ CreatesFileWith(h)' \subseteq CreatesFileWith(h)
  <1>1. /\ file \in [FileId -> Hash \cup {None}]
        /\ tx \in [Worker -> Request]
    BY DEF IInv, TypeOK
  <1>2. ASSUME Begin(w)
        PROVE  /\ file' = file
               /\ CreatesFileWith(h)' \subseteq CreatesFileWith(h)
    BY <1>1, <1>2, BeginCreatesNone DEF CreatesFileWith
  <1>3. ASSUME \/ InsertFile(w) \/ InsertDocument(w) \/ PutObject(w)
               \/ FlushDocDelete(w) \/ FlushDocUpdate(w)
               \/ FlushFileDelete(w)
        PROVE  /\ file' = file
               /\ tx[w].pc # "scheduleTsa"
               /\ \E to : tx' = [tx EXCEPT ![w].pc = to]
    BY <1>3 DEF InsertFile, InsertDocument, PutObject, FlushDocDelete,
       FlushDocUpdate, FlushFileDelete, Goto
  <1>4. ASSUME \/ InsertDocumentFails(w) \/ FlushDocUpdateFails(w)
               \/ FlushFileDeleteFails(w) \/ Abort(w)
               \/ PutObjectFails(w) \/ ScheduleTsa(w)
               \/ CommitUpload(w) /\ ~tx[w].isNew
               \/ CommitDocDelete(w) \/ CommitDocUpdate(w)
               \/ AnswerDocUpdate(w)
               \/ LoadFileFails(w) \/ ShowDocument(w)
               \/ GetObject(w) \/ SignUrl(w)
        PROVE  file' = file /\ Finish(w)
    BY <1>4 DEF InsertDocumentFails, FlushDocUpdateFails,
       FlushFileDeleteFails, Abort, PutObjectFails, ScheduleTsa,
       CommitUpload, CommitDocDelete, CommitDocUpdate, AnswerDocUpdate,
       LoadFileFails, ShowDocument, GetObject, SignUrl
  <1>5. ASSUME file' = file
        PROVE  FilesWith(h)' \subseteq FilesWith(h)
    BY <1>5 DEF FilesWith
  <1>6. ASSUME NEW to, tx' = [tx EXCEPT ![w].pc = to],
               tx[w].pc # "scheduleTsa"
        PROVE  CreatesFileWith(h)' \subseteq CreatesFileWith(h)
    BY <1>1, <1>6 DEF CreatesFileWith
  <1>7. ASSUME Finish(w)
        PROVE  CreatesFileWith(h)' \subseteq CreatesFileWith(h)
    BY <1>1, <1>7 DEF Finish, Idle, CreatesFileWith
  <1>8. CASE LoadFile(w)
    <2>1. file' = file
      BY <1>8 DEF LoadFile
    <2>2. ~tx[w].isNew
      BY <1>1, <1>8, FieldTypes DEF LoadFile, NewFileUpload
    <2>3. PICK to : tx' = [tx EXCEPT ![w].pc = to,
                                     ![w].hash = file[tx[w].fid]]
      BY <1>8 DEF LoadFile
    <2>4. CreatesFileWith(h)' \subseteq CreatesFileWith(h)
      BY <1>1, <2>2, <2>3 DEF CreatesFileWith
    <2>5. QED
      BY <1>5, <2>1, <2>4
  <1>9. CASE CommitFileDelete(w)
    <2>1. FilesWith(h)' \subseteq FilesWith(h)
      BY <1>1, <1>9, NoneIsNoValue DEF CommitFileDelete, FilesWith
    <2>2. QED
      BY <1>7, <1>9, <2>1 DEF CommitFileDelete
  <1>10. QED
    BY <1>2, <1>3, <1>4, <1>5, <1>6, <1>7, <1>8, <1>9
    DEF LockStep, FreeStep

LEMMA NextDuplicates ==
  ASSUME IInv, DuplicatesInv, [Next]_vars
  PROVE  DuplicatesInv'
  <1> SUFFICES ASSUME NEW h \in Hash
               PROVE  /\ IsFiniteSet(FilesWith(h)')
                      /\ Cardinality(FilesWith(h)')
                           + Cardinality(CreatesFileWith(h)')
                           <= Cardinality(Worker)
    BY DEF DuplicatesInv, DuplicatesBounded
  <1>1. CASE UNCHANGED vars
    <2>1. /\ FilesWith(h)' \subseteq FilesWith(h)
          /\ CreatesFileWith(h)' \subseteq CreatesFileWith(h)
      BY <1>1 DEF vars, FilesWith, CreatesFileWith
    <2>2. QED
      BY <2>1, FewerKeep
  <1>2. ASSUME NEW w \in Worker,
               Begin(w) \/ LockStep(w) \/ FreeStep(w) \/ Abort(w)
        PROVE  /\ IsFiniteSet(FilesWith(h)')
               /\ Cardinality(FilesWith(h)')
                    + Cardinality(CreatesFileWith(h)')
                    <= Cardinality(Worker)
    <2>1. CASE \E g \in Hash : UploadNewFile(w, g)
      BY <2>1, UploadNewFileBounded
    <2>2. CASE CommitUpload(w) /\ tx[w].isNew
      BY <2>2, CommitNewFileBounded
    <2>3. CASE /\ ~\E g \in Hash : UploadNewFile(w, g)
               /\ ~(CommitUpload(w) /\ tx[w].isNew)
      <3>1. /\ FilesWith(h)' \subseteq FilesWith(h)
            /\ CreatesFileWith(h)' \subseteq CreatesFileWith(h)
        BY <1>2, <2>3, OthersAddNone
      <3>2. QED
        BY <3>1, FewerKeep
    <2>4. QED
      BY <2>1, <2>2, <2>3
  <1>3. QED
    BY <1>1, <1>2 DEF Next

(* However many uploads of one content overlap, its rows never outnumber   *)
(* the workers: only uploads that all queried before the first commit      *)
(* create duplicates.                                                      *)
THEOREM DuplicatesAreBounded == Spec => []DuplicatesBounded
  <1>1. ASSUME Init
        PROVE  DuplicatesInv
    <2>1. ASSUME NEW h \in Hash
          PROVE  FilesWith(h) = {} /\ CreatesFileWith(h) = {}
      BY <1>1, NoneIsNoValue DEF Init, FilesWith, CreatesFileWith, Idle
    <2>2. Cardinality(Worker) \in Nat
      BY WorkersAreFinite, FS_CardinalityType
    <2>3. QED
      BY <2>1, <2>2, FS_EmptySet DEF DuplicatesInv, DuplicatesBounded
  <1>2. DuplicatesInv => DuplicatesBounded
    BY DEF DuplicatesInv
  <1>3. QED
    BY <1>1, <1>2, NextDuplicates, Invariant, PTL DEF Spec

-----------------------------------------------------------------------------
(* The refinement *)

(* While the invariant holds, no content is lost. *)
LEMMA Contents ==
  ASSUME IInv, NEW d \in DocId
  PROVE  ContentOf(d) = IF doc[d] = None THEN None ELSE file[doc[d]]
  BY DEF ContentOf, IInv, TypeOK, NoDanglingDocument, FileHasObject

LEMMA ContentsNext ==
  ASSUME IInv', NEW d \in DocId
  PROVE  ContentOf(d)' = IF doc'[d] = None THEN None ELSE file'[doc'[d]]
  BY DEF ContentOf, IInv, TypeOK, NoDanglingDocument, FileHasObject

(* A step after which every document has the content it had is a stutter.  *)
LEMMA SameContents ==
  ASSUME \A d \in DocId : ContentOf(d)' = ContentOf(d)
  PROVE  UNCHANGED [d \in DocId |-> ContentOf(d)]
  OBVIOUS

(* An upload that commits adds its document to the library.                *)
LEMMA CommitUploadAdds ==
  ASSUME IInv, IInv', NEW w \in Worker, CommitUpload(w)
  PROVE  Library!Next
  <1>1. PICK d \in DocId, f \in FileId, h \in Hash :
          /\ d = tx[w].did
          /\ f = tx[w].fid
          /\ h = tx[w].hash
    BY FieldTypes DEF CommitUpload, IInv, TypeOK
  <1>2. /\ doc[d] = None
        /\ doc' = [doc EXCEPT ![d] = f]
    BY <1>1 DEF IInv, NewDocIsPrivate, Uploading, CommitUpload
  <1>3. /\ file' = file \/ file' = [file EXCEPT ![f] = h]
        /\ file'[f] = h
        /\ \A e \in DocId : doc[e] # None => file'[doc[e]] = file[doc[e]]
    <2>1. CASE tx[w].isNew
      <3>1. \A e \in DocId : doc[e] # f
        BY <1>1, <2>1 DEF IInv, NewFileIsPrivate, Uploading, CommitUpload
      <3>2. file' = [file EXCEPT ![f] = h]
        BY <1>1, <2>1 DEF CommitUpload
      <3>3. QED
        BY <3>1, <3>2 DEF IInv, TypeOK
    <2>2. CASE ~tx[w].isNew
      <3>1. file[f] = h
        BY <1>1, <2>2
        DEF IInv, ReusedFileHeld, Uploading, CommitUpload
      <3>2. QED
        BY <2>2, <3>1 DEF CommitUpload
    <2>3. QED
      BY <2>1, <2>2, FieldTypes DEF IInv, TypeOK
  <1>4. /\ ContentOf(d) = None
        /\ ContentOf(d)' = h
        /\ \A e \in DocId \ {d} : ContentOf(e)' = ContentOf(e)
    BY <1>2, <1>3, Contents, ContentsNext, NoneIsNoValue DEF IInv, TypeOK
  <1>5. Library!Add(d, h)
    BY <1>4 DEF Library!Add
  <1>6. QED
    BY <1>5 DEF Library!Next

(* A document delete that commits removes it, or finds that it is gone.    *)
LEMMA CommitDocDeleteRemoves ==
  ASSUME IInv, IInv', NEW w \in Worker, CommitDocDelete(w)
  PROVE  Library!Next \/ UNCHANGED [d \in DocId |-> ContentOf(d)]
  <1>1. PICK d \in DocId : /\ doc' = [doc EXCEPT ![d] = None]
                           /\ file' = file
    BY FieldTypes DEF CommitDocDelete, IInv, TypeOK
  <1>2. /\ ContentOf(d)' = None
        /\ \A e \in DocId \ {d} : ContentOf(e)' = ContentOf(e)
    BY <1>1, Contents, ContentsNext DEF IInv, TypeOK
  <1>3. CASE ContentOf(d) = None
    BY <1>2, <1>3, SameContents
  <1>4. CASE ContentOf(d) # None
    <2>1. Library!Remove(d)
      <3>1. [e \in DocId |-> ContentOf(e)][d] # None
        BY <1>4
      <3>2. [e \in DocId |-> ContentOf(e)]' =
              [[e \in DocId |-> ContentOf(e)] EXCEPT ![d] = None]
        BY <1>2
      <3>3. QED
        BY <3>1, <3>2 DEF Library!Remove
    <2>2. QED
      BY <2>1 DEF Library!Next
  <1>5. QED
    BY <1>3, <1>4

(* The row that a file delete takes away is the content of no document.    *)
LEMMA CommitFileDeleteStutters ==
  ASSUME IInv, IInv', NEW w \in Worker, CommitFileDelete(w)
  PROVE  UNCHANGED [d \in DocId |-> ContentOf(d)]
  <1>1. /\ tx[w].fid \in FileId
        /\ file' = [file EXCEPT ![tx[w].fid] = None]
        /\ doc' = doc
    BY FieldTypes DEF CommitFileDelete, IInv, TypeOK
  <1>2. \A d \in DocId : doc[d] # tx[w].fid
    BY DEF CommitFileDelete, IInv, DeletedFileUnreferenced, DocumentsOf
  <1>3. \A d \in DocId : ContentOf(d)' = ContentOf(d)
    BY <1>1, <1>2, Contents, ContentsNext DEF IInv, TypeOK
  <1>4. QED
    BY <1>3, SameContents

(* Every other step leaves the library as it is: what it writes is not     *)
(* committed, or is an object that no committed row needs.                 *)
LEMMA SameRowsStutter ==
  ASSUME IInv, IInv', UNCHANGED <<file, doc>>
  PROVE  UNCHANGED [d \in DocId |-> ContentOf(d)]
  <1>1. \A d \in DocId : ContentOf(d)' = ContentOf(d)
    BY Contents, ContentsNext
  <1>2. QED
    BY <1>1, SameContents

LEMMA StepRefines ==
  ASSUME IInv, IInv', [Next]_vars
  PROVE  [Library!Next]_[d \in DocId |-> ContentOf(d)]
  <1>1. CASE UNCHANGED vars
    BY <1>1, SameRowsStutter DEF vars
  <1>2. CASE \E w \in Worker : CommitUpload(w)
    BY <1>2, CommitUploadAdds
  <1>3. CASE \E w \in Worker : CommitDocDelete(w)
    BY <1>3, CommitDocDeleteRemoves
  <1>4. CASE \E w \in Worker : CommitFileDelete(w)
    BY <1>4, CommitFileDeleteStutters
  <1>5. ASSUME NEW w \in Worker,
               Begin(w) \/ LockStep(w) \/ FreeStep(w) \/ Abort(w),
               ~CommitUpload(w), ~CommitDocDelete(w), ~CommitFileDelete(w)
        PROVE  UNCHANGED <<file, doc>>
    <2>1. CASE Begin(w)
      <3>1. ASSUME NEW h \in Hash,
                   UploadReusingFile(w, h) \/ UploadNewFile(w, h)
            PROVE  UNCHANGED <<file, doc>>
        BY <3>1 DEF UploadReusingFile, UploadNewFile
      <3>2. ASSUME NEW d \in DocId,
                   \/ DeleteDocument(w, d) \/ ReadDocument(w, d)
                   \/ UpdateDocument(w, d)
            PROVE  UNCHANGED <<file, doc>>
        BY <3>2 DEF DeleteDocument, ReadDocument, UpdateDocument
      <3>3. ASSUME NEW f \in FileId, DeleteFile(w, f)
            PROVE  UNCHANGED <<file, doc>>
        BY <3>3 DEF DeleteFile
      <3>4. QED
        BY <2>1, <3>1, <3>2, <3>3 DEF Begin
    <2>2. CASE LockStep(w)
      BY <2>2 DEF LockStep, InsertFile, InsertDocument,
         InsertDocumentFails, FlushDocDelete, FlushDocUpdate,
         FlushDocUpdateFails, FlushFileDelete, FlushFileDeleteFails
    <2>3. CASE FreeStep(w)
      BY <1>5, <2>3 DEF FreeStep, PutObject, PutObjectFails, ScheduleTsa,
         CommitDocUpdate, AnswerDocUpdate, LoadFile, LoadFileFails,
         ShowDocument, GetObject, SignUrl
    <2>4. CASE Abort(w)
      BY <2>4 DEF Abort
    <2>5. QED
      BY <1>5, <2>1, <2>2, <2>3, <2>4
  <1>6. QED
    BY <1>1, <1>2, <1>3, <1>4, <1>5, SameRowsStutter DEF Next

LEMMA InitRefines == Init => Library!Init
  BY DEF Init, Library!Init, ContentOf

(* The store implements the library of documents.                          *)
THEOREM StoreImplementsLibrary == Spec => ImplementsLibrary
  <1>1. QED
    BY InitRefines, StepRefines, Invariant, PTL
    DEF Spec, ImplementsLibrary, Library!Spec

=============================================================================
