----------------------------- MODULE DocumentApi -----------------------------
(***************************************************************************)
(* The two write requests of the HTTP API: POST /documents (ingest.py) and *)
(* POST /documents/{id}/upload (upload.py).  Each request runs once, in    *)
(* its own coroutine and its own database session; a client that tries     *)
(* again is another request.                                               *)
(***************************************************************************)
EXTENDS DocumentStore

CONSTANT Ingests        \* ingest requests

ASSUME ApiAssumption == None \notin Ingests

VARIABLES ingestPc,     \* where each ingest request stands
          ingestDoc,    \* the document it created
          uploadPc,     \* where each upload request stands
          uploadPath,   \* the path it writes; its first part is the document
          uploadSeen    \* the file_path its session loaded

ingestVars == <<ingestPc, ingestDoc>>
uploadVars == <<uploadPc, uploadPath, uploadSeen>>
apiVars == <<ingestVars, uploadVars>>

IngestStates == {"new", "enqueue", "markFailed", "done"}
UploadStates == {"new", "save", "lookup", "update", "enqueue", "commit",
                 "accepted", "failed"}
OpenTransaction == {"update", "enqueue", "commit"}

ApiTypeOK ==
    /\ ingestPc \in [Ingests -> IngestStates]
    /\ ingestDoc \in [Ingests -> Docs \cup {None}]
    /\ uploadPc \in [Uploads -> UploadStates]
    /\ uploadPath \in [Uploads -> Paths \cup {None}]
    /\ uploadSeen \in [Uploads -> Paths \cup {None}]

ApiInit ==
    /\ ingestPc = [i \in Ingests |-> "new"]
    /\ ingestDoc = [i \in Ingests |-> None]
    /\ uploadPc = [u \in Uploads |-> "new"]
    /\ uploadPath = [u \in Uploads |-> None]
    /\ uploadSeen = [u \in Uploads |-> None]

IngestGoto(i, next) == ingestPc' = [ingestPc EXCEPT ![i] = next]
UploadGoto(u, next) == uploadPc' = [uploadPc EXCEPT ![u] = next]
UploadDoc(u) == uploadPath[u][1]

-----------------------------------------------------------------------------
(* ingest: the INSERT either commits or violates the unique index, and     *)
(* then the existing document is returned and nothing is enqueued.         *)
Ingest(i, d) ==
    /\ ingestPc[i] = "new"
    /\ CreateDocument(d)
    /\ ingestDoc' = [ingestDoc EXCEPT ![i] = d]
    /\ IngestGoto(i, "enqueue")
    /\ UNCHANGED uploadVars

IngestDuplicate(i, d) ==
    /\ ingestPc[i] = "new"
    /\ status[d] # "ABSENT"
    /\ IngestGoto(i, "done")
    /\ UNCHANGED <<storeVars, ingestDoc, uploadVars>>

EnqueueIngest(i) ==
    /\ ingestPc[i] = "enqueue"
    /\ enqueued' = enqueued \cup {ingestDoc[i]}
    /\ IngestGoto(i, "done")
    /\ UNCHANGED <<rowVars, files, ingestDoc, uploadVars>>

(* The RPUSH raises, perhaps after it took effect.                         *)
EnqueueIngestFails(i) ==
    /\ ingestPc[i] = "enqueue"
    /\ "redis" \in Faults
    /\ \E pushed \in SUBSET {ingestDoc[i]} : enqueued' = enqueued \cup pushed
    /\ IngestGoto(i, "markFailed")
    /\ UNCHANGED <<rowVars, files, ingestDoc, uploadVars>>

(* update_status in the session that created the row: what it checks is    *)
(* the PENDING document it still holds, whatever became of the row.        *)
MarkEnqueueFailed(i) ==
    LET d == ingestDoc[i] IN
    /\ ingestPc[i] = "markFailed"
    /\ Unlocked(d)
    /\ UpdateAllowed("PENDING", "FAILED", retryCount[d])
    /\ WriteStatus(d, "FAILED", [status |-> "PENDING", path |-> None])
    /\ IngestGoto(i, "done")
    /\ UNCHANGED <<retryCount, lock, files, enqueued, ingestDoc, uploadVars>>

(* Backpressure turns the request away, the API process dies, or the       *)
(* database fails the last transaction (logged as critical).               *)
EndIngest(i) ==
    /\ \/ ingestPc[i] = "new"
       \/ "crash" \in Faults /\ ingestPc[i] \in {"enqueue", "markFailed"}
       \/ "db" \in Faults /\ ingestPc[i] = "markFailed"
    /\ IngestGoto(i, "done")
    /\ UNCHANGED <<storeVars, ingestDoc, uploadVars>>

-----------------------------------------------------------------------------
(* upload: save_file opens the path for writing, which truncates the file  *)
(* that has this name, or makes a new one, ...                             *)
OpenFile(u, path) ==
    /\ uploadPc[u] = "new"
    /\ status[path[1]] # "ABSENT"
    /\ disk' = [disk EXCEPT ![path] = Torn]
    /\ writers' = [writers EXCEPT ![path] = @ \cup {u}]
    /\ uploadPath' = [uploadPath EXCEPT ![u] = path]
    /\ UploadGoto(u, "save")
    /\ UNCHANGED <<rowVars, enqueued, ingestVars, uploadSeen>>

(* Mutant: the copy is not waited for.                                     *)
SaveFileUnfinished(u) ==
    /\ uploadPc[u] = "save"
    /\ UploadGoto(u, "lookup")
    /\ UNCHANGED <<storeVars, ingestVars, uploadPath, uploadSeen>>

(* u, if it was saving, has the file open no more; nor has anybody, if u   *)
(* was the last.                                                           *)
CloseFile(u) ==
    writers' = [p \in Paths |->
                 IF {v \in writers[p] : uploadPc[v] = "save"} = {u} THEN {} ELSE writers[p]]

(* ... and copies the content in, in a thread and outside any transaction. *)
(* Threads that have one file open write over each other, from its start:  *)
(* then it holds the text of any of them, or parts of several.  A file     *)
(* that was deleted since it was opened stays deleted.                     *)
SaveFile(u) ==
    LET path == uploadPath[u]
        result == CASE u \notin writers[path] -> {disk[path]}
                    [] writers[path] = {u} -> {u}
                    [] OTHER -> writers[path] \cup {Torn} IN
    /\ uploadPc[u] = "save"
    /\ \E t \in result : disk' = [disk EXCEPT ![path] = t]
    /\ CloseFile(u)
    /\ UploadGoto(u, "lookup")
    /\ UNCHANGED <<rowVars, enqueued, ingestVars, uploadPath, uploadSeen>>

(* The transaction begins with a plain SELECT, which sees committed rows   *)
(* and locks nothing.                                                      *)
LookupDocument(u) ==
    /\ uploadPc[u] = "lookup"
    /\ status[UploadDoc(u)] \notin {"PROCESSING", "DONE"}
    /\ uploadSeen' = [uploadSeen EXCEPT ![u] = filePath[UploadDoc(u)]]
    /\ UploadGoto(u, "update")
    /\ UNCHANGED <<storeVars, ingestVars, uploadPath>>

(* ProcessingConflict: answered 409; the file stays where it was saved.    *)
UploadConflict(u) ==
    /\ uploadPc[u] = "lookup"
    /\ status[UploadDoc(u)] \in {"PROCESSING", "DONE"}
    /\ UploadGoto(u, "failed")
    /\ UNCHANGED <<storeVars, ingestVars, uploadPath, uploadSeen>>

(* update_file_path: the flush sends an UPDATE, which takes the row, only  *)
(* when the path differs from the one loaded.                              *)
UpdateFilePath(u) ==
    LET d == UploadDoc(u) IN
    /\ uploadPc[u] = "update"
    /\ uploadSeen[u] # uploadPath[u] => Unlocked(d)
    /\ lock' = [lock EXCEPT ![d] = IF uploadSeen[u] # uploadPath[u] THEN u ELSE @]
    /\ UploadGoto(u, "enqueue")
    /\ UNCHANGED <<status, filePath, retryCount, files, enqueued, ingestVars,
                   uploadPath, uploadSeen>>

(* The RPUSH comes before the commit.                                      *)
EnqueueUpload(u) ==
    /\ uploadPc[u] = "enqueue"
    /\ enqueued' = enqueued \cup {UploadDoc(u)}
    /\ UploadGoto(u, "commit")
    /\ UNCHANGED <<rowVars, files, ingestVars, uploadPath, uploadSeen>>

(* Mutant: the transaction stays open.                                     *)
KeepRow(u) == UNCHANGED lock

ReleaseRow(u) == lock' = [d \in Docs |-> IF lock[d] = u THEN None ELSE lock[d]]

CommitUpload(u) ==
    /\ uploadPc[u] = "commit"
    /\ filePath' = [d \in Docs |-> IF lock[d] = u THEN uploadPath[u] ELSE filePath[d]]
    /\ ReleaseRow(u)
    /\ UploadGoto(u, "accepted")
    /\ UNCHANGED <<status, retryCount, files, enqueued, ingestVars, uploadPath, uploadSeen>>

(* Mutant: the failed upload takes its file back.                          *)
EnqueueUploadFailsAndUnlinks(u) ==
    /\ uploadPc[u] = "enqueue"
    /\ "redis" \in Faults
    /\ \E pushed \in SUBSET {UploadDoc(u)} : enqueued' = enqueued \cup pushed
    /\ DeleteFile(uploadPath[u])
    /\ ReleaseRow(u)
    /\ UploadGoto(u, "failed")
    /\ UNCHANGED <<status, filePath, retryCount, ingestVars, uploadPath, uploadSeen>>

(* The RPUSH raises, perhaps after it took effect: rolled back.            *)
EnqueueUploadFails(u) ==
    /\ uploadPc[u] = "enqueue"
    /\ "redis" \in Faults
    /\ \E pushed \in SUBSET {UploadDoc(u)} : enqueued' = enqueued \cup pushed
    /\ ReleaseRow(u)
    /\ UploadGoto(u, "failed")
    /\ UNCHANGED <<status, filePath, retryCount, files, ingestVars, uploadPath, uploadSeen>>

(* Backpressure, a failing save, a failing transaction or a dying process. *)
AbortUpload(u) ==
    /\ \/ uploadPc[u] = "new"
       \/ "file" \in Faults /\ uploadPc[u] = "save"
       \/ "db" \in Faults /\ uploadPc[u] \in {"lookup"} \cup OpenTransaction
       \/ "crash" \in Faults /\ uploadPc[u] \in {"save", "lookup"} \cup OpenTransaction
    /\ CloseFile(u)
    /\ ReleaseRow(u)
    /\ UploadGoto(u, "failed")
    /\ UNCHANGED <<status, filePath, retryCount, disk, enqueued, ingestVars,
                   uploadPath, uploadSeen>>

ApiStep ==
    \/ \E i \in Ingests :
         \/ \E d \in Docs : Ingest(i, d) \/ IngestDuplicate(i, d)
         \/ EnqueueIngest(i) \/ EnqueueIngestFails(i)
         \/ MarkEnqueueFailed(i) \/ EndIngest(i)
    \/ \E u \in Uploads :
         \/ \E path \in Paths : OpenFile(u, path)
         \/ SaveFile(u) \/ LookupDocument(u) \/ UploadConflict(u)
         \/ UpdateFilePath(u) \/ EnqueueUpload(u) \/ EnqueueUploadFails(u)
         \/ CommitUpload(u) \/ AbortUpload(u)
=============================================================================
