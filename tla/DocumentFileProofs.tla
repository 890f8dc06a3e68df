-------------------------- MODULE DocumentFileProofs --------------------------
(***************************************************************************)
(* Theorems about the upload directory of DocumentService: which file a    *)
(* row, a worker and an upload name, when a file is on disk, whole, and    *)
(* who is to delete it.                                                    *)
(***************************************************************************)
EXTENDS DocumentServiceProofs

USE DEF files

(* An upload of this path was committed.                                   *)
Taken(p) == \E u \in Uploads : uploadPc[u] = "accepted" /\ uploadPath[u] = p

(* Who knows which path: a row names a path of its own document that an    *)
(* upload was accepted for, and sessions know no other; a row is locked by *)
(* an upload of it that is on its way to commit, and such an upload has    *)
(* the row unless it found its own path there already.                     *)
RowPaths == \A d \in Docs : filePath[d] # None => filePath[d][1] = d /\ Taken(filePath[d])
WorkerPaths ==
    \A w \in Workers :
        cache[w].path # None => cache[w].path[1] = job[w] /\ Taken(cache[w].path)
SeenPaths == \A u \in Uploads : uploadSeen[u] # None => Taken(uploadSeen[u])
LockedRows ==
    \A d \in Docs, u \in Uploads :
        lock[d] = u => uploadPc[u] \in {"enqueue", "commit"} /\ UploadDoc(u) = d
LockOrSeen ==
    \A u \in Uploads : uploadPc[u] \in {"enqueue", "commit"} =>
        lock[UploadDoc(u)] = u \/ uploadSeen[u] = uploadPath[u]
NewHasNoPath == \A u \in Uploads : uploadPc[u] = "new" => uploadPath[u] = None

PathInv == RowPaths /\ WorkerPaths /\ SeenPaths /\ LockedRows /\ LockOrSeen /\ NewHasNoPath

(* A worker deletes only the path its session holds or, in a new session,  *)
(* the one it finds in the row.                                            *)
Known(w, p) == job[w] \in Docs /\ p \in {cache[w].path, filePath[job[w]]}

LEMMA DeletedFile ==
  ASSUME NEW path, DeleteFile(path), NEW p \in Paths
  PROVE  disk'[p] = disk[p] \/ (disk'[p] = None /\ p = path)
  BY StoreAssumption DEF DeleteFile

LEMMA WorkerFiles ==
  ASSUME TypeInv, NEW w \in Workers, WorkerStep(w)
  PROVE  /\ UNCHANGED <<lock, enqueued>>
         /\ \A d \in Docs : filePath'[d] \in {filePath[d], None}
         /\ \A v \in Workers : v # w => cache'[v] = cache[v] /\ text'[v] = text[v]
         /\ cache'[w].path = None \/ (job'[w] = job[w] /\ Known(w, cache'[w].path))
         /\ \A p \in Paths : \/ disk'[p] = disk[p]
                             \/ /\ disk'[p] = None /\ Known(w, p)
                                /\ pc[w] \notin {"idle", "begin", "claim"}
<1> USE DEF storeVars, rowVars, sessionVars, Goto, Known, TypeInv, TypeOK, Grounded,
            StoreTypeOK, WorkerTypeOK, NoCache, RowOf
<1>1. CASE ReadRetryKey(w) \/ ClaimRefused(w) \/ ReadFile(w) \/ IndexChunks(w)
  BY <1>1 DEF ReadRetryKey, ClaimRefused, ReadFile, IndexChunks
<1>2. CASE Claim(w) \/ ClaimFails(w)
  BY <1>2 DEF Claim, ClaimFails, WriteStatus
<1>3. CASE ReadFileFails(w) \/ IndexChunksFails(w) \/ Unlink(w)
  <2>1. DeleteFile(cache[w].path)
    BY <1>3 DEF ReadFileFails, IndexChunksFails, Unlink, FailProcessing
  <2> QED
    BY <1>3, <2>1, DeletedFile DEF ReadFileFails, IndexChunksFails, Unlink, FailProcessing,
                                   CloseSession
<1>4. CASE Finish(w) \/ FinishFails(w)
  BY <1>4, DeletedFile DEF Finish, FinishFails, WriteStatus
<1>5. CASE MarkFailedRead(w)
  <2>1. PICK seen \in {RowOf(job[w]), cache[w]} :
               DeleteFile(seen.path) /\ cache' = [cache EXCEPT ![w] = seen]
    BY <1>5 DEF MarkFailedRead
  <2> QED
    BY <1>5, <2>1, DeletedFile DEF MarkFailedRead
<1>6. CASE MarkFailedCommit(w) \/ MarkFailedRefused(w) \/ MarkFailedFails(w)
  BY <1>6 DEF MarkFailedCommit, MarkFailedRefused, MarkFailedFails, WriteStatus,
              LeaveMarkFailed, Release, CloseSession
<1>7. CASE \/ ClearRetry(w) \/ ClearRetryFails(w) \/ IncrRetry(w) \/ PushDlq(w)
           \/ AcknowledgeDeadLetter(w) \/ Acknowledge(w) \/ Abandon(w)
  BY <1>7 DEF ClearRetry, ClearRetryFails, IncrRetry, PushDlq, AcknowledgeDeadLetter, Acknowledge, Abandon, Release,
              CloseSession
<1> QED
  BY <1>1, <1>2, <1>3, <1>4, <1>5, <1>6, <1>7 DEF WorkerStep, WorkerRuns, WorkerFault

LEMMA WorkerPathInv ==
  ASSUME TypeInv, PathInv, NEW w \in Workers, WorkerStep(w), UNCHANGED apiVars
  PROVE  PathInv'
<1> USE DEF PathInv, apiVars, uploadVars
<1>1. RowPaths'
  BY WorkerFiles DEF RowPaths, Taken
<1>2. WorkerPaths'
  BY WorkerFiles, OtherWorkersStay DEF RowPaths, WorkerPaths, Taken, Known
<1>3. SeenPaths' /\ LockedRows' /\ LockOrSeen' /\ NewHasNoPath'
  BY WorkerFiles DEF SeenPaths, LockedRows, LockOrSeen, NewHasNoPath, Taken, UploadDoc
<1> QED
  BY <1>1, <1>2, <1>3

(* A path once taken stays taken.                                          *)
LEMMA TakenStays ==
  ASSUME TypeInv, NewHasNoPath, ApiStep, NEW p, Taken(p)
  PROVE  Taken(p)'
<1> USE DEF TypeInv, TypeOK, ApiTypeOK, UploadGoto
<1> PICK v \in Uploads : uploadPc[v] = "accepted" /\ uploadPath[v] = p
  BY DEF Taken
<1> SUFFICES uploadPc'[v] = "accepted" /\ uploadPath'[v] = p
  BY DEF Taken
<1>1. ASSUME NEW u \in Uploads,
             \/ \E path \in Paths : OpenFile(u, path)
             \/ SaveFile(u) \/ LookupDocument(u) \/ UploadConflict(u) \/ UpdateFilePath(u)
             \/ EnqueueUpload(u) \/ EnqueueUploadFails(u) \/ CommitUpload(u) \/ AbortUpload(u)
      PROVE  uploadPc'[v] = "accepted" /\ uploadPath'[v] = p
  BY <1>1 DEF OpenFile, SaveFile, LookupDocument, UploadConflict, UpdateFilePath, EnqueueUpload,
              EnqueueUploadFails, CommitUpload, AbortUpload, OpenTransaction
<1>2. CASE UNCHANGED uploadVars
  BY <1>2 DEF uploadVars
<1> QED
  BY <1>1, <1>2 DEF ApiStep, Ingest, IngestDuplicate, EnqueueIngest, EnqueueIngestFails,
                    MarkEnqueueFailed, EndIngest

LEMMA ApiPathInv ==
  ASSUME TypeInv, PathInv, ApiStep, UNCHANGED workerVars
  PROVE  PathInv'
<1> USE DEF PathInv, TypeInv, TypeOK, StoreTypeOK, ApiTypeOK, UploadGoto, UploadDoc
<1>1. WorkerPaths'
  BY TakenStays DEF WorkerPaths, workerVars, sessionVars
<1>2. ASSUME UNCHANGED <<filePath, lock, uploadVars>>
      PROVE  PathInv'
  BY <1>1, <1>2 DEF uploadVars, RowPaths, SeenPaths, LockedRows, LockOrSeen, NewHasNoPath, Taken
<1>3. ASSUME NEW u \in Uploads, NEW path \in Paths, OpenFile(u, path)
      PROVE  PathInv'
  <2>1. UNCHANGED <<filePath, lock, uploadSeen>>
    BY <1>3 DEF OpenFile, rowVars
  <2>2. \A d \in Docs : lock[d] # u
    BY <1>3 DEF OpenFile, LockedRows
  <2>3. RowPaths' /\ SeenPaths'
    BY <2>1, TakenStays DEF RowPaths, SeenPaths
  <2>4. LockedRows' /\ LockOrSeen' /\ NewHasNoPath'
    BY <1>3, <2>1, <2>2 DEF OpenFile, LockedRows, LockOrSeen, NewHasNoPath
  <2> QED
    BY <1>1, <2>3, <2>4
<1>4. ASSUME NEW u \in Uploads, SaveFile(u) \/ UploadConflict(u)
      PROVE  PathInv'
  <2>1. UNCHANGED <<filePath, lock, uploadSeen, uploadPath>>
    BY <1>4 DEF SaveFile, UploadConflict, storeVars, rowVars
  <2>2. RowPaths' /\ SeenPaths'
    BY <2>1, TakenStays DEF RowPaths, SeenPaths
  <2>3. LockedRows' /\ LockOrSeen' /\ NewHasNoPath'
    BY <1>4, <2>1 DEF SaveFile, UploadConflict, LockedRows, LockOrSeen, NewHasNoPath
  <2> QED
    BY <1>1, <2>2, <2>3
<1>5. ASSUME NEW u \in Uploads, LookupDocument(u)
      PROVE  PathInv'
  <2>1. UNCHANGED <<filePath, lock, uploadPath>> /\ UploadDoc(u) \in Docs
    BY <1>5 DEF LookupDocument, storeVars, rowVars, Grounded, Paths
  <2>2. RowPaths'
    BY <2>1, TakenStays DEF RowPaths
  <2>3. SeenPaths'
    BY <1>5, <2>1, TakenStays DEF LookupDocument, RowPaths, SeenPaths
  <2>4. LockedRows' /\ LockOrSeen' /\ NewHasNoPath'
    BY <1>5, <2>1 DEF LookupDocument, LockedRows, LockOrSeen, NewHasNoPath
  <2> QED
    BY <1>1, <2>2, <2>3, <2>4
<1>6. ASSUME NEW u \in Uploads, UpdateFilePath(u)
      PROVE  PathInv'
  <2>1. UNCHANGED <<filePath, uploadPath, uploadSeen>> /\ UploadDoc(u) \in Docs
    BY <1>6 DEF UpdateFilePath, Grounded, Paths
  <2>2. RowPaths' /\ SeenPaths'
    BY <2>1, TakenStays DEF RowPaths, SeenPaths
  <2>3. NewHasNoPath'
    BY <1>6, <2>1 DEF UpdateFilePath, NewHasNoPath
  <2>4. LockedRows' /\ LockOrSeen'
    <3>1. CASE uploadSeen[u] = uploadPath[u]
      BY <1>6, <2>1, <3>1 DEF UpdateFilePath, LockedRows, LockOrSeen
    <3>2. CASE uploadSeen[u] # uploadPath[u]
      BY <1>6, <2>1, <3>2, StoreAssumption
         DEF UpdateFilePath, Unlocked, LockedRows, LockOrSeen, Contents
    <3> QED
      BY <3>1, <3>2
  <2> QED
    BY <1>1, <2>2, <2>3, <2>4
<1>7. ASSUME NEW u \in Uploads, EnqueueUpload(u)
      PROVE  PathInv'
  <2>1. UNCHANGED <<filePath, lock, uploadPath, uploadSeen>>
    BY <1>7 DEF EnqueueUpload, rowVars
  <2>2. RowPaths' /\ SeenPaths'
    BY <2>1, TakenStays DEF RowPaths, SeenPaths
  <2>3. LockedRows' /\ LockOrSeen' /\ NewHasNoPath'
    BY <1>7, <2>1 DEF EnqueueUpload, LockedRows, LockOrSeen, NewHasNoPath
  <2> QED
    BY <1>1, <2>2, <2>3
<1>8. ASSUME NEW u \in Uploads, EnqueueUploadFails(u) \/ AbortUpload(u)
      PROVE  PathInv'
  <2>1. UNCHANGED <<filePath, uploadPath, uploadSeen>> /\ ReleaseRow(u)
    BY <1>8 DEF EnqueueUploadFails, AbortUpload
  <2>2. RowPaths' /\ SeenPaths'
    BY <2>1, TakenStays DEF RowPaths, SeenPaths
  <2>3. uploadPc' = [uploadPc EXCEPT ![u] = "failed"]
    BY <1>8 DEF EnqueueUploadFails, AbortUpload
  <2>4. LockedRows' /\ NewHasNoPath'
    BY <2>1, <2>3, StoreAssumption DEF ReleaseRow, LockedRows, NewHasNoPath, Contents
  <2>5. LockOrSeen'
    BY <2>1, <2>3 DEF ReleaseRow, LockOrSeen, Grounded, Paths
  <2> QED
    BY <1>1, <2>2, <2>4, <2>5
<1>9. ASSUME NEW u \in Uploads, CommitUpload(u)
      PROVE  PathInv'
  <2>1. UNCHANGED <<uploadPath, uploadSeen>> /\ ReleaseRow(u)
    BY <1>9 DEF CommitUpload
  <2>2. SeenPaths'
    BY <2>1, TakenStays DEF SeenPaths
  <2>3. uploadPc' = [uploadPc EXCEPT ![u] = "accepted"]
    BY <1>9 DEF CommitUpload
  <2>4. Taken(uploadPath[u])'
    BY <2>1, <2>3 DEF Taken
  <2>5. \A d \in Docs : \/ filePath'[d] = filePath[d]
                        \/ filePath'[d] = uploadPath[u] /\ uploadPath[u][1] = d
    BY <1>9 DEF CommitUpload, LockedRows
  <2>6. RowPaths'
    BY <2>1, <2>4, <2>5, TakenStays DEF RowPaths
  <2>7. LockedRows' /\ NewHasNoPath'
    BY <2>1, <2>3, StoreAssumption DEF ReleaseRow, LockedRows, NewHasNoPath, Contents
  <2>8. LockOrSeen'
    BY <2>1, <2>3 DEF ReleaseRow, LockOrSeen, Grounded, Paths
  <2> QED
    BY <1>1, <2>2, <2>6, <2>7, <2>8
<1>10. ASSUME NEW i \in Ingests,
              \/ \E d \in Docs : Ingest(i, d) \/ IngestDuplicate(i, d)
              \/ EnqueueIngest(i) \/ EnqueueIngestFails(i)
              \/ MarkEnqueueFailed(i) \/ EndIngest(i)
       PROVE  UNCHANGED <<filePath, lock, uploadVars>>
  BY <1>10 DEF Ingest, CreateDocument, IngestDuplicate, EnqueueIngest, EnqueueIngestFails,
               MarkEnqueueFailed, WriteStatus, EndIngest, storeVars, rowVars
<1> QED
  <2> HIDE DEF PathInv, TypeInv
  <2>1. CASE \E i \in Ingests :
                \/ \E d \in Docs : Ingest(i, d) \/ IngestDuplicate(i, d)
                \/ EnqueueIngest(i) \/ EnqueueIngestFails(i)
                \/ MarkEnqueueFailed(i) \/ EndIngest(i)
    BY <1>2, <1>10, <2>1
  <2>2. ASSUME NEW u \in Uploads,
               \/ \E path \in Paths : OpenFile(u, path)
               \/ SaveFile(u) \/ LookupDocument(u) \/ UploadConflict(u) \/ UpdateFilePath(u)
               \/ EnqueueUpload(u) \/ EnqueueUploadFails(u) \/ CommitUpload(u)
               \/ AbortUpload(u)
        PROVE  PathInv'
    BY <1>3, <1>4, <1>5, <1>6, <1>7, <1>8, <1>9, <2>2
  <2> QED
    BY <2>1, <2>2 DEF ApiStep

LEMMA PathInvariant == Spec => []PathInv
<1>1. Init => PathInv
  BY StoreAssumption DEF Init, StoreInit, WorkerInit, ApiInit, NoCache, PathInv, RowPaths,
     WorkerPaths, SeenPaths, LockedRows, LockOrSeen, NewHasNoPath, Contents
<1>2. TypeInv /\ NothingCached /\ PathInv /\ [Next]_vars => PathInv'
  <2> SUFFICES ASSUME TypeInv, NothingCached, PathInv, [Next]_vars PROVE PathInv'
    OBVIOUS
  <2>1. ASSUME NEW w \in Workers, NEW d \in Docs, Deliver(w, d), UNCHANGED apiVars
        PROVE  PathInv'
    <3>1. cache[w].path = None
      BY <2>1 DEF Deliver, NothingCached, NoCache
    <3> QED
      BY <2>1, <3>1 DEF Deliver, storeVars, rowVars, apiVars, uploadVars, PathInv, RowPaths,
         WorkerPaths, SeenPaths, LockedRows, LockOrSeen, NewHasNoPath, Taken, UploadDoc, TypeInv,
         TypeOK, WorkerTypeOK
  <2>2. ASSUME NEW w \in Workers, WorkerStep(w), UNCHANGED apiVars
        PROVE  PathInv'
    BY <2>2, WorkerPathInv
  <2>3. CASE ApiNext
    BY <2>3, ApiPathInv DEF ApiNext
  <2>4. CASE UNCHANGED <<filePath, lock, workerVars, apiVars>>
    BY <2>4 DEF workerVars, sessionVars, apiVars, uploadVars, PathInv, RowPaths, WorkerPaths,
                SeenPaths, LockedRows, LockOrSeen, NewHasNoPath, Taken, UploadDoc
  <2> QED
    BY <2>1, <2>2, <2>3, <2>4 DEF Next, WorkerNext, Retry, RetryDocument, vars, storeVars, rowVars
<1> QED
  BY <1>1, <1>2, TypeCorrect, NothingCachedInvariant, PTL DEF Spec

-----------------------------------------------------------------------------
(* Where a text can come from.  What writes a file was uploaded to its     *)
(* path.  A file that is whole holds what was uploaded to its path; one    *)
(* that is not is that of an upload that is still saving it, or gave up,   *)
(* or two wrote it.  A worker and the points of a document have a text of  *)
(* that document.                                                          *)
Uploaded(p) == {u \in Uploads : uploadPath[u] = p}

Origin(d, t) == IF t = Torn THEN SharedName(d) ELSE \E n \in Names : UploadedAs(t, d, n)

WritersUploaded == \A p \in Paths : writers[p] \subseteq Uploaded(p)
WholeFiles == \A p \in Paths : disk[p] \in Uploads => disk[p] \in Uploaded(p)
TornFiles ==
    \A p \in Paths : disk[p] = Torn =>
        \E u \in Uploaded(p) : \/ uploadPc[u] = "failed"
                               \/ uploadPc[u] = "save" /\ u \in writers[p]
                               \/ \E v \in Uploaded(p) : u # v
FileInv == WritersUploaded /\ WholeFiles /\ TornFiles

IdleHasNoText == \A w \in Workers : pc[w] = "idle" => text[w] = None
TextOrigin == \A w \in Workers : text[w] # None => Origin(job[w], text[w])
IndexOrigin ==
    \A d \in Docs, c \in ChunkIds : index[d][c] # None => Origin(d, index[d][c])
TextInv == IdleHasNoText /\ TextOrigin /\ IndexOrigin

(* Where the text of a worker comes from.                                  *)
LEMMA WorkerTexts ==
  ASSUME TypeInv, NEW w \in Workers, WorkerStep(w)
  PROVE  /\ pc'[w] = "idle" => text'[w] = None
         /\ \/ text'[w] = None
            \/ job'[w] = job[w] /\ text'[w] = text[w]
            \/ /\ job'[w] = job[w] /\ cache[w].path \in Paths
               /\ text'[w] = disk[cache[w].path]
<1> USE DEF Goto, sessionVars, Release, FailProcessing, LeaveMarkFailed, CloseSession, TypeInv,
            TypeOK, WorkerTypeOK
<1>1. CASE ReadFile(w)
  BY <1>1 DEF ReadFile, Cached
<1>2. CASE \/ ReadRetryKey(w) \/ Claim(w) \/ ClaimRefused(w) \/ ClaimFails(w)
           \/ ReadFileFails(w) \/ IndexChunks(w) \/ IndexChunksFails(w) \/ Finish(w)
           \/ FinishFails(w) \/ Unlink(w)
  BY <1>2 DEF ReadRetryKey, Claim, ClaimRefused, ClaimFails, ReadFileFails, IndexChunks,
              IndexChunksFails, Finish, FinishFails, Unlink
<1>3. CASE \/ MarkFailedRead(w) \/ MarkFailedCommit(w) \/ MarkFailedRefused(w)
           \/ MarkFailedFails(w)
  BY <1>3 DEF MarkFailedRead, MarkFailedCommit, MarkFailedRefused, MarkFailedFails
<1>4. CASE \/ ClearRetry(w) \/ ClearRetryFails(w) \/ IncrRetry(w) \/ PushDlq(w)
           \/ AcknowledgeDeadLetter(w) \/ Acknowledge(w) \/ Abandon(w)
  BY <1>4 DEF ClearRetry, ClearRetryFails, IncrRetry, PushDlq, AcknowledgeDeadLetter, Acknowledge, Abandon
<1> QED
  BY <1>1, <1>2, <1>3, <1>4 DEF WorkerStep, WorkerRuns, WorkerFault

(* What a worker finds in the file of its job came from an upload of its   *)
(* document.                                                               *)
LEMMA FileOrigin ==
  ASSUME TypeInv, PathInv, FileInv, NEW w \in Workers, cache[w].path \in Paths,
         disk[cache[w].path] # None
  PROVE  Origin(job[w], disk[cache[w].path])
<1> DEFINE p == cache[w].path
<1>1. PICK n \in Names : p = <<job[w], n>>
  BY StoreAssumption DEF PathInv, WorkerPaths, Paths
<1>2. CASE disk[p] = Torn
  <2>1. PICK u \in Uploads, v \in Uploads : u # v /\ uploadPath[u] = p /\ uploadPath[v] = p
    <3>1. PICK u \in Uploaded(p) : \/ uploadPc[u] \in {"save", "failed"}
                                   \/ \E v \in Uploaded(p) : u # v
      BY <1>2 DEF FileInv, TornFiles
    <3>2. PICK v \in Uploads : uploadPc[v] = "accepted" /\ uploadPath[v] = p
      BY StoreAssumption DEF PathInv, WorkerPaths, Taken
    <3>3. CASE uploadPc[u] \in {"save", "failed"}
      BY <3>1, <3>2, <3>3 DEF Uploaded
    <3>4. CASE \E v0 \in Uploaded(p) : u # v0
      BY <3>1, <3>4 DEF Uploaded
    <3> QED
      BY <3>1, <3>3, <3>4
  <2>2. SharedName(job[w])
    BY <1>1, <2>1 DEF SharedName, UploadedAs
  <2> QED
    BY <1>2, <2>2 DEF Origin
<1>3. CASE disk[p] \in Uploads
  BY <1>1, <1>3, StoreAssumption DEF FileInv, WholeFiles, Uploaded, Origin, UploadedAs
<1> QED
  BY <1>2, <1>3 DEF TypeInv, TypeOK, StoreTypeOK, Contents

(* What a worker changes in the index is set to the text it holds.         *)
LEMMA WorkerPoints ==
  ASSUME TypeInv, NEW w \in Workers, WorkerStep(w), NEW d \in Docs, NEW c \in ChunkIds,
         index'[d][c] # index[d][c]
  PROVE  job[w] = d /\ text[w] \in Contents /\ index'[d][c] = text[w]
<1> USE DEF UpsertChunks, TypeInv, TypeOK, WorkerTypeOK, Grounded
<1>1. CASE IndexChunks(w)
  BY <1>1 DEF IndexChunks
<1>2. CASE IndexChunksFails(w)
  BY <1>2 DEF IndexChunksFails
<1>3. CASE UNCHANGED index
  BY <1>3
<1> QED
  BY <1>1, <1>2, <1>3
     DEF WorkerStep, WorkerRuns, WorkerFault, ReadRetryKey, Claim, ClaimRefused, ClaimFails,
         ReadFile, ReadFileFails, Finish, FinishFails, Unlink, MarkFailedRead,
         MarkFailedCommit, MarkFailedRefused, MarkFailedFails, ClearRetry, ClearRetryFails,
         IncrRetry, PushDlq, AcknowledgeDeadLetter, Acknowledge, Abandon

(* Only a deletion takes uploads from the writers of a file.               *)
LEMMA WorkerWriters ==
  ASSUME TypeInv, NEW w \in Workers, WorkerStep(w), NEW p \in Paths
  PROVE  writers'[p] = writers[p] \/ (writers'[p] = {} /\ disk'[p] = None)
<1>1. ASSUME NEW path, DeleteFile(path)
      PROVE  writers'[p] = writers[p] \/ (writers'[p] = {} /\ disk'[p] = None)
  BY <1>1 DEF DeleteFile
<1>2. CASE UNCHANGED writers
  BY <1>2
<1> QED
  BY <1>1, <1>2
     DEF WorkerStep, WorkerRuns, WorkerFault, ReadRetryKey, Claim, ClaimRefused, ClaimFails,
         ReadFile, ReadFileFails, FailProcessing, IndexChunks, IndexChunksFails, Finish,
         FinishFails, Unlink, MarkFailedRead, MarkFailedCommit, MarkFailedRefused,
         MarkFailedFails, ClearRetry, ClearRetryFails, IncrRetry, PushDlq,
         AcknowledgeDeadLetter, Acknowledge, Abandon, storeVars, rowVars

LEMMA WorkerOrigins ==
  ASSUME TypeInv, PathInv, FileInv, TextInv, NEW w \in Workers, WorkerStep(w),
         UNCHANGED apiVars
  PROVE  FileInv' /\ TextInv'
<1>1. UNCHANGED <<uploadPath, uploadPc>>
  BY DEF apiVars, uploadVars
<1>2. \A d, t : Origin(d, t)' <=> Origin(d, t)
  BY <1>1 DEF Origin, SharedName, UploadedAs
<1>3. FileInv'
  <2>1. \A p : Uploaded(p)' = Uploaded(p)
    BY <1>1 DEF Uploaded
  <2>2. WritersUploaded'
    BY <2>1, WorkerWriters DEF FileInv, WritersUploaded
  <2>3. \A p \in Paths : disk'[p] \in {disk[p], None}
    BY WorkerFiles
  <2>4. None \notin Uploads /\ None # Torn
    BY StoreAssumption DEF Contents
  <2>5. WholeFiles'
    BY <2>1, <2>3, <2>4 DEF FileInv, WholeFiles
  <2>6. TornFiles'
    BY <1>1, <2>1, <2>3, <2>4, WorkerWriters DEF FileInv, TornFiles
  <2> QED
    BY <2>2, <2>5, <2>6 DEF FileInv
<1>4. IdleHasNoText'
  BY WorkerTexts, WorkerFiles, OtherWorkersStay DEF TextInv, IdleHasNoText
<1>5. ASSUME NEW v \in Workers, text'[v] # None
      PROVE  Origin(job'[v], text'[v])
  <2>1. CASE v = w
    <3>1. CASE job'[w] = job[w] /\ text'[w] = text[w]
      BY <1>5, <2>1, <3>1 DEF TextInv, TextOrigin
    <3>2. CASE job'[w] = job[w] /\ cache[w].path \in Paths /\ text'[w] = disk[cache[w].path]
      BY <1>5, <2>1, <3>2, FileOrigin
    <3> QED
      BY <1>5, <2>1, <3>1, <3>2, WorkerTexts
  <2>2. CASE v # w
    <3>1. text'[v] = text[v] /\ job'[v] = job[v]
      BY <2>2, WorkerFiles, OtherWorkersStay
    <3> QED
      BY <1>5, <3>1 DEF TextInv, TextOrigin
  <2> QED
    BY <2>1, <2>2
<1>6. TextOrigin'
  BY <1>2, <1>5 DEF TextOrigin
<1>7. ASSUME NEW d \in Docs, NEW c \in ChunkIds, index'[d][c] # None
      PROVE  Origin(d, index'[d][c])
  <2>1. CASE index'[d][c] = index[d][c]
    BY <1>7, <2>1 DEF TextInv, IndexOrigin
  <2>2. CASE index'[d][c] # index[d][c]
    BY <1>7, <2>2, WorkerPoints DEF TextInv, TextOrigin
  <2> QED
    BY <2>1, <2>2
<1>8. IndexOrigin'
  BY <1>2, <1>7 DEF IndexOrigin
<1> QED
  BY <1>3, <1>4, <1>6, <1>8 DEF TextInv

(* Once an upload has a path it keeps it, and an upload that is over stays *)
(* so.                                                                     *)
LEMMA UploadKeepsPath ==
  ASSUME TypeInv, PathInv, ApiStep, NEW u \in Uploads, uploadPath[u] # None
  PROVE  /\ uploadPath'[u] = uploadPath[u]
         /\ uploadPc[u] \in {"accepted", "failed"} => uploadPc'[u] = uploadPc[u]
<1> USE DEF TypeInv, TypeOK, ApiTypeOK, UploadGoto
<1>1. ASSUME NEW v \in Uploads,
             \/ \E path \in Paths : OpenFile(v, path)
             \/ SaveFile(v) \/ LookupDocument(v) \/ UploadConflict(v) \/ UpdateFilePath(v)
             \/ EnqueueUpload(v) \/ EnqueueUploadFails(v) \/ CommitUpload(v) \/ AbortUpload(v)
      PROVE  /\ uploadPath'[u] = uploadPath[u]
             /\ uploadPc[u] \in {"accepted", "failed"} => uploadPc'[u] = uploadPc[u]
  BY <1>1 DEF OpenFile, SaveFile, LookupDocument, UploadConflict, UpdateFilePath, EnqueueUpload,
              EnqueueUploadFails, CommitUpload, AbortUpload, OpenTransaction, PathInv,
              NewHasNoPath
<1>2. CASE UNCHANGED uploadVars
  BY <1>2 DEF uploadVars
<1> QED
  BY <1>1, <1>2 DEF ApiStep, Ingest, IngestDuplicate, EnqueueIngest, EnqueueIngestFails,
                    MarkEnqueueFailed, EndIngest

(* What is in the file when u has saved: its text, or that of another who  *)
(* wrote the file at the same time, or parts.                              *)
Saved(u, t) ==
    \/ t = u
    \/ \E v \in writers[uploadPath[u]] :
          v # u /\ t \in writers[uploadPath[u]] \cup {Torn} /\ u \in writers[uploadPath[u]]

(* What an API request does to the files.                                  *)
LEMMA ApiFiles ==
  ASSUME TypeInv, ApiStep
  PROVE  \/ UNCHANGED <<disk, uploadPc>>
         \/ \E u \in Uploads :
              \/ /\ uploadPc[u] = "new" /\ uploadPc' = [uploadPc EXCEPT ![u] = "save"]
                 /\ \E path \in Paths :
                       /\ uploadPath' = [uploadPath EXCEPT ![u] = path]
                       /\ disk' = [disk EXCEPT ![path] = Torn]
                       /\ u \in writers'[path]
                       /\ status[path[1]] # "ABSENT"
              \/ /\ uploadPc[u] = "save" /\ uploadPc' = [uploadPc EXCEPT ![u] = "lookup"]
                 /\ uploadPath[u] \in Paths /\ UNCHANGED uploadPath
                 /\ \/ UNCHANGED disk /\ u \notin writers[uploadPath[u]]
                    \/ \E t \in Contents : /\ Saved(u, t)
                                           /\ disk' = [disk EXCEPT ![uploadPath[u]] = t]
              \/ /\ UNCHANGED <<disk, uploadPath>>
                 /\ \E next \in UploadStates \ {"new", "save"} :
                       uploadPc' = [uploadPc EXCEPT ![u] = next]
                 /\ uploadPc[u] \in {"new", "save"} => uploadPc'[u] = "failed"
                 /\ uploadPc[u] \notin {"accepted", "failed"}
<1> USE DEF TypeInv, TypeOK, ApiTypeOK, UploadGoto, UploadStates
<1>1. ASSUME NEW u \in Uploads, NEW path \in Paths, OpenFile(u, path)
      PROVE  /\ uploadPc[u] = "new" /\ uploadPc' = [uploadPc EXCEPT ![u] = "save"]
             /\ uploadPath' = [uploadPath EXCEPT ![u] = path]
             /\ disk' = [disk EXCEPT ![path] = Torn] /\ u \in writers'[path]
             /\ status[path[1]] # "ABSENT"
  BY <1>1 DEF OpenFile, StoreTypeOK
<1>2. ASSUME NEW u \in Uploads, SaveFile(u)
      PROVE  /\ uploadPc[u] = "save" /\ uploadPc' = [uploadPc EXCEPT ![u] = "lookup"]
             /\ uploadPath[u] \in Paths /\ UNCHANGED uploadPath
             /\ \/ UNCHANGED disk /\ u \notin writers[uploadPath[u]]
                \/ \E t \in Contents : /\ Saved(u, t)
                                       /\ disk' = [disk EXCEPT ![uploadPath[u]] = t]
  <2>1. /\ uploadPc[u] = "save" /\ uploadPc' = [uploadPc EXCEPT ![u] = "lookup"]
        /\ uploadPath[u] \in Paths /\ UNCHANGED uploadPath
    BY <1>2 DEF SaveFile, Grounded
  <2>2. /\ writers[uploadPath[u]] \subseteq Uploads
        /\ disk \in [Paths -> Contents \cup {None}]
    BY <2>1 DEF StoreTypeOK
  <2>3. CASE u \notin writers[uploadPath[u]]
    BY <1>2, <2>1, <2>2, <2>3 DEF SaveFile
  <2>4. CASE writers[uploadPath[u]] = {u}
    BY <1>2, <2>1, <2>4 DEF SaveFile, Saved, Contents
  <2>5. CASE u \in writers[uploadPath[u]] /\ writers[uploadPath[u]] # {u}
    <3>1. PICK t \in writers[uploadPath[u]] \cup {Torn} :
                 disk' = [disk EXCEPT ![uploadPath[u]] = t]
      BY <1>2, <2>5 DEF SaveFile
    <3>2. PICK v \in writers[uploadPath[u]] : v # u
      BY <2>5
    <3> QED
      BY <2>1, <2>2, <2>5, <3>1, <3>2 DEF Saved, Contents
  <2> QED
    BY <2>3, <2>4, <2>5
<1>3. ASSUME NEW u \in Uploads,
             \/ LookupDocument(u) \/ UploadConflict(u) \/ UpdateFilePath(u)
             \/ EnqueueUpload(u) \/ EnqueueUploadFails(u) \/ CommitUpload(u) \/ AbortUpload(u)
      PROVE  /\ UNCHANGED <<disk, uploadPath>>
             /\ \E next \in UploadStates \ {"new", "save"} :
                   uploadPc' = [uploadPc EXCEPT ![u] = next]
             /\ uploadPc[u] \in {"new", "save"} => uploadPc'[u] = "failed"
             /\ uploadPc[u] \notin {"accepted", "failed"}
  BY <1>3 DEF LookupDocument, UploadConflict, UpdateFilePath, EnqueueUpload, EnqueueUploadFails,
              CommitUpload, AbortUpload, OpenTransaction, storeVars, rowVars
<1>4. ASSUME NEW i \in Ingests,
             \/ \E d \in Docs : Ingest(i, d) \/ IngestDuplicate(i, d)
             \/ EnqueueIngest(i) \/ EnqueueIngestFails(i)
             \/ MarkEnqueueFailed(i) \/ EndIngest(i)
      PROVE  UNCHANGED <<disk, uploadPc>>
  BY <1>4 DEF Ingest, CreateDocument, IngestDuplicate, EnqueueIngest, EnqueueIngestFails,
              MarkEnqueueFailed, EndIngest, storeVars, uploadVars
<1> HIDE DEF UploadStates
<1> QED
  BY <1>1, <1>2, <1>3, <1>4 DEF ApiStep

(* Who writes a file has it for its path, and goes on writing it until it  *)
(* has saved or given up.                                                  *)
LEMMA ApiWriters ==
  ASSUME TypeInv, ApiStep, NEW p \in Paths
  PROVE  /\ writers'[p] \subseteq writers[p] \cup {u \in Uploads : uploadPath'[u] = p}
         /\ \A u \in writers[p] : uploadPc[u] = "save" /\ uploadPc'[u] = "save"
                                     => u \in writers'[p]
<1> USE DEF TypeInv, TypeOK, StoreTypeOK, ApiTypeOK, UploadGoto
<1>1. ASSUME NEW u \in Uploads, NEW path \in Paths, OpenFile(u, path)
      PROVE  /\ writers'[p] \subseteq writers[p] \cup {v \in Uploads : uploadPath'[v] = p}
             /\ writers[p] \subseteq writers'[p]
  BY <1>1 DEF OpenFile
<1>2. ASSUME NEW u \in Uploads, CloseFile(u), uploadPc'[u] # "save",
             NEW v \in writers[p], uploadPc[v] = "save", uploadPc'[v] = "save"
      PROVE  v \in writers'[p]
  BY <1>2 DEF CloseFile
<1>3. ASSUME NEW u \in Uploads, SaveFile(u) \/ AbortUpload(u)
      PROVE  CloseFile(u) /\ uploadPc'[u] # "save" /\ writers'[p] \subseteq writers[p]
  BY <1>3 DEF SaveFile, AbortUpload, CloseFile
<1>4. CASE UNCHANGED writers
  BY <1>4
<1> QED
  <2> HIDE DEF TypeInv
  <2> QED
    BY <1>1, <1>2, <1>3, <1>4
       DEF ApiStep, Ingest, CreateDocument, IngestDuplicate, EnqueueIngest, EnqueueIngestFails,
           MarkEnqueueFailed, EndIngest, LookupDocument, UploadConflict, UpdateFilePath,
           EnqueueUpload, EnqueueUploadFails, CommitUpload, storeVars

LEMMA ApiOrigins ==
  ASSUME TypeInv, PathInv, FileInv, TextInv, ApiStep, UNCHANGED workerVars
  PROVE  FileInv' /\ TextInv'
<1>1. \A p \in Paths : Uploaded(p) \subseteq Uploaded(p)'
  BY UploadKeepsPath, StoreAssumption DEF Uploaded
<1>2. ASSUME NEW d \in Docs, NEW t \in Contents, Origin(d, t)
      PROVE  Origin(d, t)'
  <2>1. \A n \in Names : <<d, n>> \in Paths
    BY DEF Paths
  <2>2. CASE t = Torn
    BY <1>1, <1>2, <2>1, <2>2 DEF Origin, SharedName, UploadedAs, Uploaded
  <2>3. CASE t # Torn
    BY <1>1, <1>2, <2>1, <2>3 DEF Origin, UploadedAs, Uploaded, Contents
  <2> QED
    BY <2>2, <2>3
<1>3. WritersUploaded'
  BY <1>1, ApiWriters DEF FileInv, WritersUploaded, Uploaded, TypeInv, TypeOK, StoreTypeOK
<1>4. WholeFiles' /\ TornFiles'
  <2> DEFINE Whole(p) == disk'[p] \in Uploads => disk'[p] \in Uploaded(p)'
             Witness(p) == \E u \in Uploaded(p)' :
                              \/ uploadPc'[u] = "failed"
                              \/ uploadPc'[u] = "save" /\ u \in writers'[p]
                              \/ \E v \in Uploaded(p)' : u # v
             Good(p) == Whole(p) /\ (disk'[p] = Torn => Witness(p))
  <2> SUFFICES ASSUME NEW p \in Paths PROVE Good(p)
    BY DEF WholeFiles, TornFiles
  <2>1. ASSUME disk'[p] = disk[p],
               \A u \in Uploads : u \in writers[p] /\ uploadPc[u] = "save"
                                     => uploadPc'[u] \in {"save", "failed"},
               \A u \in Uploads : uploadPc[u] = "failed" => uploadPc'[u] = "failed"
        PROVE  Good(p)
    <3>1. Whole(p)
      BY <1>1, <2>1 DEF FileInv, WholeFiles
    <3>2. ASSUME disk[p] = Torn
          PROVE  Witness(p)
      <4>1. PICK u \in Uploaded(p) : \/ uploadPc[u] = "failed"
                                     \/ uploadPc[u] = "save" /\ u \in writers[p]
                                     \/ \E v \in Uploaded(p) : u # v
        BY <3>2 DEF FileInv, TornFiles
      <4>2. u \in Uploads /\ u \in Uploaded(p)'
        BY <1>1 DEF Uploaded
      <4>3. CASE uploadPc[u] = "failed"
        BY <2>1, <4>2, <4>3
      <4>4. CASE uploadPc[u] = "save" /\ u \in writers[p]
        BY <2>1, <4>2, <4>4, ApiWriters
      <4>5. CASE \E v \in Uploaded(p) : u # v
        BY <1>1, <4>2, <4>5
      <4> QED
        BY <4>1, <4>3, <4>4, <4>5
    <3> QED
      BY <2>1, <3>1, <3>2
  <2>2. CASE UNCHANGED <<disk, uploadPc>>
    BY <2>1, <2>2
  <2>3. ASSUME NEW u \in Uploads, NEW path \in Paths,
               uploadPc[u] = "new", uploadPc' = [uploadPc EXCEPT ![u] = "save"],
               uploadPath' = [uploadPath EXCEPT ![u] = path],
               disk' = [disk EXCEPT ![path] = Torn], u \in writers'[path]
        PROVE  Good(p)
    <3>1. CASE p = path
      <4>1. u \in Uploaded(p)' /\ uploadPc'[u] = "save" /\ disk'[p] = Torn
        BY <2>3, <3>1 DEF Uploaded, TypeInv, TypeOK, StoreTypeOK, ApiTypeOK
      <4> QED
        BY <2>3, <3>1, <4>1, StoreAssumption
    <3>2. CASE p # path
      BY <2>1, <2>3, <3>2 DEF TypeInv, TypeOK, StoreTypeOK, ApiTypeOK
    <3> QED
      BY <3>1, <3>2
  <2>4. ASSUME NEW u \in Uploads, uploadPc[u] = "save",
               uploadPc' = [uploadPc EXCEPT ![u] = "lookup"], uploadPath[u] \in Paths,
               UNCHANGED uploadPath
        PROVE  /\ UNCHANGED disk /\ u \notin writers[uploadPath[u]] => Good(p)
               /\ \A t \in Contents :
                     Saved(u, t) /\ disk' = [disk EXCEPT ![uploadPath[u]] = t] => Good(p)
    <3> DEFINE path == uploadPath[u]
    <3>1. \A v \in Uploads : v # u => uploadPc'[v] = uploadPc[v]
      BY <2>4 DEF TypeInv, TypeOK, ApiTypeOK
    <3>2. u \in Uploaded(path) /\ writers[path] \subseteq Uploaded(path)
      BY <2>4 DEF Uploaded, FileInv, WritersUploaded
    <3>3. p # path => u \notin writers[p]
      BY DEF FileInv, WritersUploaded, Uploaded
    <3>4. CASE UNCHANGED disk /\ u \notin writers[path]
      BY <2>1, <2>4, <3>1, <3>3, <3>4
    <3>5. ASSUME NEW t \in Contents, Saved(u, t), disk' = [disk EXCEPT ![path] = t]
          PROVE  Good(p)
      <4>1. CASE p # path
        BY <2>1, <2>4, <3>1, <3>3, <3>5, <4>1 DEF TypeInv, TypeOK, StoreTypeOK
      <4>2. CASE p = path
        <5>1. disk'[p] = t
          BY <2>4, <3>5, <4>2 DEF TypeInv, TypeOK, StoreTypeOK
        <5>2. t \in Uploads => t \in Uploaded(p)'
          BY <1>1, <3>2, <3>5, <4>2, StoreAssumption DEF Saved
        <5>3. t = Torn => Witness(p)
          BY <1>1, <3>2, <3>5, <4>2, StoreAssumption DEF Saved
        <5> QED
          BY <5>1, <5>2, <5>3
      <4> QED
        BY <4>1, <4>2
    <3> QED
      BY <3>4, <3>5
  <2>5. ASSUME NEW u \in Uploads, UNCHANGED <<disk, uploadPath>>,
               NEW next \in UploadStates \ {"new", "save"},
               uploadPc' = [uploadPc EXCEPT ![u] = next],
               uploadPc[u] \in {"new", "save"} => uploadPc'[u] = "failed",
               uploadPc[u] \notin {"accepted", "failed"}
        PROVE  Good(p)
    BY <2>1, <2>5 DEF TypeInv, TypeOK, ApiTypeOK
  <2> QED
    <3> HIDE DEF Good
    <3> QED
      BY <2>2, <2>3, <2>4, <2>5, ApiFiles
<1>5. UNCHANGED <<pc, job, text, index>>
  BY DEF workerVars, sessionVars
<1>6. TextInv'
  <2>1. IdleHasNoText'
    BY <1>5 DEF TextInv, IdleHasNoText
  <2>2. TextOrigin'
    <3> SUFFICES ASSUME NEW w \in Workers, text[w] # None
                 PROVE  Origin(job[w], text[w])'
      BY <1>5 DEF TextOrigin, Origin, SharedName, UploadedAs
    <3>1. job[w] \in Docs /\ text[w] \in Contents
      BY DEF TextInv, IdleHasNoText, TypeInv, TypeOK, Grounded, WorkerTypeOK
    <3>2. \A d \in Docs, t \in Contents : Origin(d, t) => Origin(d, t)'
      BY <1>2
    <3> QED
      BY <1>5, <3>1, <3>2 DEF TextInv, TextOrigin, Origin, SharedName, UploadedAs
  <2>3. IndexOrigin'
    <3> SUFFICES ASSUME NEW d \in Docs, NEW c \in ChunkIds, index[d][c] # None
                 PROVE  Origin(d, index[d][c])'
      BY <1>5 DEF IndexOrigin, Origin, SharedName, UploadedAs
    <3>1. index[d][c] \in Contents
      BY DEF TypeInv, TypeOK, WorkerTypeOK
    <3>2. \A t \in Contents : Origin(d, t) => Origin(d, t)'
      BY <1>2
    <3> QED
      BY <1>5, <3>1, <3>2 DEF TextInv, IndexOrigin, Origin, SharedName, UploadedAs
  <2> QED
    BY <2>1, <2>2, <2>3 DEF TextInv
<1> QED
  BY <1>3, <1>4, <1>6 DEF FileInv

LEMMA OriginInvariant == Spec => [](FileInv /\ TextInv)
<1>1. Init => FileInv /\ TextInv
  BY StoreAssumption DEF Init, StoreInit, WorkerInit, FileInv, WritersUploaded, WholeFiles,
     TornFiles, TextInv, IdleHasNoText, TextOrigin, IndexOrigin, Contents
<1>2. TypeInv /\ PathInv /\ FileInv /\ TextInv /\ [Next]_vars => FileInv' /\ TextInv'
  <2> SUFFICES ASSUME TypeInv, PathInv, FileInv, TextInv, [Next]_vars
               PROVE  FileInv' /\ TextInv'
    OBVIOUS
  <2>1. ASSUME UNCHANGED <<disk, writers, text, index, apiVars>>,
               \A v \in Workers : text[v] # None => job'[v] = job[v],
               \A v \in Workers : pc'[v] = "idle" => pc[v] = "idle"
        PROVE  FileInv' /\ TextInv'
    <3>1. FileInv'
      BY <2>1 DEF FileInv, WritersUploaded, WholeFiles, TornFiles, Uploaded, apiVars, uploadVars
    <3>2. TextInv'
      BY <2>1 DEF TextInv, IdleHasNoText, TextOrigin, IndexOrigin, Origin, SharedName,
                  UploadedAs, apiVars, uploadVars
    <3> QED
      BY <3>1, <3>2
  <2>2. ASSUME NEW w \in Workers, NEW d \in Docs, Deliver(w, d), UNCHANGED apiVars
        PROVE  FileInv' /\ TextInv'
    <3>1. UNCHANGED <<disk, writers, text, index>>
      BY <2>2 DEF Deliver, storeVars
    <3>2. \A v \in Workers : text[v] # None => job'[v] = job[v]
      BY <2>2 DEF Deliver, TextInv, IdleHasNoText, TypeInv, TypeOK, WorkerTypeOK
    <3>3. \A v \in Workers : pc'[v] = "idle" => pc[v] = "idle"
      BY <2>2 DEF Deliver, Goto, TypeInv, TypeOK, WorkerTypeOK
    <3> QED
      BY <2>1, <2>2, <3>1, <3>2, <3>3
  <2>3. ASSUME NEW w \in Workers, WorkerStep(w), UNCHANGED apiVars
        PROVE  FileInv' /\ TextInv'
    BY <2>3, WorkerOrigins
  <2>4. CASE ApiNext
    BY <2>4, ApiOrigins DEF ApiNext
  <2>5. CASE UNCHANGED <<disk, writers, workerVars, apiVars>>
    BY <2>1, <2>5 DEF workerVars, sessionVars
  <2> QED
    BY <2>2, <2>3, <2>4, <2>5 DEF Next, WorkerNext, Retry, RetryDocument, vars, storeVars
<1> QED
  BY <1>1, <1>2, TypeCorrect, PathInvariant, PTL DEF Spec

(* Whatever fails, a worker reads half a text, or a mixture, only if two   *)
(* uploads of its document have one file name.                             *)
THEOREM OnlySameNameTears == Spec => []TornNeedsSameName
<1>1. TextInv => TornNeedsSameName
  BY StoreAssumption DEF TextInv, TextOrigin, Origin, TornNeedsSameName, Contents
<1> QED
  BY <1>1, OriginInvariant, PTL

(* Without retry_document, the index of a DONE document holds nothing, or  *)
(* exactly the chunks of one text; and that is the whole text of one       *)
(* upload of this document, unless two uploads of it have one file name.   *)
THEOREM DoneIndexIsWhole ==
  ASSUME ~ OperatorRetry
  PROVE  Spec => []DoneIndexIsOneText
<1>1. TypeInv /\ IndexInv /\ TextInv => DoneIndexIsOneText
  <2> SUFFICES ASSUME IndexInv, TextInv, NEW d \in Docs, status[d] = "DONE", ~ Blank(d)
               PROVE  \E t \in Contents : Holds(d, t) /\ Origin(d, t)
    BY DEF DoneIndexIsOneText, Blank, Holds, Origin
  <2>1. PICK t \in Contents : Holds(d, t)
    BY DEF IndexInv, DoneHoldsOne
  <2>2. PICK c \in ChunkIds : index[d][c] # None
    BY DEF Blank
  <2>3. index[d][c] = t
    BY <2>1, <2>2 DEF Holds
  <2> QED
    BY <2>1, <2>2, <2>3 DEF TextInv, IndexOrigin
<1> QED
  BY <1>1, IndexInvariant, OriginInvariant, TypeCorrect, PTL

-----------------------------------------------------------------------------
(* A document that was enqueued, ingested, uploaded to or delivered has a  *)
(* row.                                                                    *)
Created ==
    /\ \A d \in enqueued : status[d] # "ABSENT"
    /\ \A i \in Ingests : ingestDoc[i] \in Docs => status[ingestDoc[i]] # "ABSENT"
    /\ \A u \in Uploads : uploadPath[u] \in Paths => status[UploadDoc(u)] # "ABSENT"
    /\ \A w \in Workers : job[w] \in Docs => status[job[w]] # "ABSENT"

LEMMA RowsStay ==
  ASSUME NEW d \in Docs, Moves(d), status[d] # "ABSENT"
  PROVE  status'[d] # "ABSENT"
  BY DEF Moves, Stutters, Appears, Overwrites, Claims, Reopens

LEMMA ApiCreated ==
  ASSUME TypeInv, PathInv, Created, ApiStep, UNCHANGED workerVars, \A d \in Docs : Moves(d)
  PROVE  Created'
<1> USE DEF Created, TypeInv, TypeOK, StoreTypeOK, ApiTypeOK, UploadDoc, workerVars, sessionVars
<1> DEFINE Rows == /\ \A d \in enqueued : status'[d] # "ABSENT"
                   /\ \A i \in Ingests : ingestDoc[i] \in Docs => status'[ingestDoc[i]] # "ABSENT"
                   /\ \A u \in Uploads : uploadPath[u] \in Paths
                                             => status'[uploadPath[u][1]] # "ABSENT"
                   /\ \A w \in Workers : job[w] \in Docs => status'[job[w]] # "ABSENT"
<1>1. Rows
  BY RowsStay DEF Paths
<1>2. ASSUME NEW i \in Ingests, NEW d \in Docs, Ingest(i, d)
      PROVE  Created'
  <2>1. status'[d] # "ABSENT" /\ ingestDoc' = [ingestDoc EXCEPT ![i] = d]
    BY <1>2 DEF Ingest, CreateDocument
  <2> QED
    BY <1>1, <1>2, <2>1 DEF Ingest, CreateDocument, uploadVars
<1>3. ASSUME NEW i \in Ingests, \/ EnqueueIngest(i) \/ EnqueueIngestFails(i)
      PROVE  Created'
  <2>1. ingestDoc[i] \in Docs /\ enqueued' \subseteq enqueued \cup {ingestDoc[i]}
    BY <1>3 DEF EnqueueIngest, EnqueueIngestFails, Grounded
  <2> QED
    BY <1>1, <1>3, <2>1 DEF EnqueueIngest, EnqueueIngestFails, uploadVars
<1>4. ASSUME NEW u \in Uploads, \/ EnqueueUpload(u) \/ EnqueueUploadFails(u)
      PROVE  Created'
  <2>1. uploadPath[u] \in Paths /\ enqueued' \subseteq enqueued \cup {uploadPath[u][1]}
    BY <1>4 DEF EnqueueUpload, EnqueueUploadFails, Grounded
  <2> QED
    BY <1>1, <1>4, <2>1 DEF EnqueueUpload, EnqueueUploadFails, ingestVars
<1>5. ASSUME NEW u \in Uploads, NEW path \in Paths, OpenFile(u, path)
      PROVE  Created'
  <2>1. status'[path[1]] # "ABSENT" /\ uploadPath' = [uploadPath EXCEPT ![u] = path]
    BY <1>5 DEF OpenFile, rowVars
  <2> QED
    BY <1>1, <1>5, <2>1 DEF OpenFile, ingestVars
<1>6. CASE UNCHANGED <<enqueued, ingestDoc, uploadPath>>
  BY <1>1, <1>6
<1> QED
  <2> HIDE DEF TypeInv, Created, Rows
  <2> QED
    BY <1>2, <1>3, <1>4, <1>5, <1>6
       DEF ApiStep, IngestDuplicate, MarkEnqueueFailed, EndIngest, SaveFile, LookupDocument,
           UploadConflict, UpdateFilePath, CommitUpload, AbortUpload, storeVars, ingestVars,
           uploadVars

LEMMA CreatedInvariant == Spec => []Created
<1>1. Init => Created
  BY StoreAssumption DEF Init, StoreInit, WorkerInit, ApiInit, Created
<1>2. TypeInv /\ PathInv /\ Created /\ [Next]_vars => Created'
  <2> SUFFICES ASSUME TypeInv, PathInv, Created, [Next]_vars PROVE Created'
    OBVIOUS
  <2>1. \A d \in Docs : Moves(d)
    BY DocumentMoves
  <2>2. ASSUME UNCHANGED <<enqueued, apiVars>>,
               \A w \in Workers : job'[w] \in enqueued \cup {job[w], None}
        PROVE  Created'
    BY <2>1, <2>2, RowsStay, StoreAssumption
       DEF Created, TypeInv, TypeOK, StoreTypeOK, apiVars, ingestVars, uploadVars, UploadDoc,
           Paths
  <2>3. ASSUME NEW w \in Workers, NEW d \in Docs, Deliver(w, d), UNCHANGED apiVars
        PROVE  Created'
    BY <2>2, <2>3 DEF Deliver, storeVars, TypeInv, TypeOK, WorkerTypeOK
  <2>4. ASSUME NEW w \in Workers, WorkerStep(w), UNCHANGED apiVars
        PROVE  Created'
    <3>1. \A v \in Workers : job'[v] \in {job[v], None}
      BY <2>4, WorkerKeepsJob, OtherWorkersStay
    <3> QED
      BY <2>2, <2>4, <3>1, WorkerFiles
  <2>5. CASE ApiNext
    BY <2>1, <2>5, ApiCreated DEF ApiNext
  <2>6. CASE UNCHANGED <<enqueued, workerVars, apiVars>>
    BY <2>2, <2>6 DEF workerVars, sessionVars
  <2> QED
    BY <2>3, <2>4, <2>5, <2>6 DEF Next, WorkerNext, Retry, RetryDocument, vars, storeVars
<1> QED
  BY <1>1, <1>2, TypeCorrect, PathInvariant, PTL DEF Spec

-----------------------------------------------------------------------------
(* A document has been begun when its row is there and not PENDING: for    *)
(* good, without retry_document.  As long as the database does not fail,   *)
(* a worker that got past its claim, and a failure that was counted, mean  *)
(* that the document was begun; so only files of such documents are        *)
(* deleted, and an upload keeps its file until its row names it.           *)
Begun(d) == status[d] \notin {"ABSENT", "PENDING"}

BegunInv ==
    /\ \A w \in Workers : pc[w] \notin {"idle", "begin", "claim"} => Begun(job[w])
    /\ \A d \in Docs : retryKey[d] > 0 => Begun(d)

UploadOnDisk ==
    \A u \in Uploads :
        uploadPc[u] \in {"save", "lookup", "update", "enqueue", "commit"} /\ ~ Begun(UploadDoc(u))
            => disk[uploadPath[u]] # None

PendingInv == BegunInv /\ UploadOnDisk /\ PendingFileOnDisk

LEMMA BegunStays ==
  ASSUME ~ OperatorRetry, NEW d \in Docs, Moves(d), Begun(d)
  PROVE  Begun(d)'
  BY DEF Begun, Moves, Stutters, Appears, Overwrites, Claims, Reopens

(* How a worker gets past its claim, and when it counts a failure.         *)
LEMMA WorkerBegins ==
  ASSUME TypeInv, Created, BegunInv, "db" \notin Faults, NEW w \in Workers, WorkerStep(w)
  PROVE  /\ pc'[w] \notin {"idle", "begin", "claim"}
               => job'[w] = job[w] /\ (Begun(job[w]) \/ Begun(job[w])')
         /\ \A d \in Docs : retryKey'[d] > 0 => retryKey[d] > 0 \/ Begun(d)
<1> USE StoreAssumption
        DEF Goto, sessionVars, redisVars, Release, FailProcessing, LeaveMarkFailed, TypeInv, TypeOK,
            Grounded, WorkerTypeOK, BegunInv
<1>1. CASE ReadRetryKey(w)
  BY <1>1 DEF ReadRetryKey
<1>2. CASE Claim(w)
  <2>1. status'[job[w]] = "PROCESSING"
    BY <1>2, WriteStatusMoves DEF Claim
  <2> QED
    BY <1>2, <2>1 DEF Claim, Begun
<1>3. CASE ClaimRefused(w)
  <2>1. status[job[w]] \notin {"ABSENT", "PENDING"}
    BY <1>3 DEF ClaimRefused, Claimable, UpdateAllowed, Created
  <2> QED
    BY <1>3, <2>1 DEF ClaimRefused, Begun
<1>4. CASE \/ ClaimFails(w) \/ FinishFails(w) \/ MarkFailedFails(w)
  BY <1>4 DEF ClaimFails, FinishFails, MarkFailedFails
<1>5. CASE \/ ReadFile(w) \/ ReadFileFails(w) \/ IndexChunks(w) \/ IndexChunksFails(w)
           \/ Finish(w) \/ Unlink(w)
  BY <1>5 DEF ReadFile, ReadFileFails, IndexChunks, IndexChunksFails, Finish, Unlink
<1>6. CASE MarkFailedRead(w) \/ MarkFailedCommit(w) \/ MarkFailedRefused(w)
  BY <1>6 DEF MarkFailedRead, MarkFailedCommit, MarkFailedRefused
<1>7. CASE ClearRetry(w) \/ ClearRetryFails(w)
  BY <1>7 DEF ClearRetry, ClearRetryFails
<1>8. CASE IncrRetry(w)
  BY <1>8 DEF IncrRetry
<1>9. CASE PushDlq(w) \/ AcknowledgeDeadLetter(w) \/ Acknowledge(w) \/ Abandon(w)
  BY <1>9 DEF PushDlq, AcknowledgeDeadLetter, Acknowledge, Abandon
<1> QED
  BY <1>1, <1>2, <1>3, <1>4, <1>5, <1>6, <1>7, <1>8, <1>9 DEF WorkerStep, WorkerRuns, WorkerFault

LEMMA WorkerPending ==
  ASSUME TypeInv, PathInv, Created, PendingInv, "db" \notin Faults, ~ OperatorRetry,
         \A d \in Docs : Moves(d), NEW w \in Workers, WorkerStep(w), UNCHANGED apiVars
  PROVE  PendingInv'
<1> USE DEF PendingInv, apiVars, uploadVars
<1>1. \A d \in Docs : ~ Begun(d)' => ~ Begun(d)
  BY BegunStays
<1>2. \A v \in Workers : pc[v] # "idle" => job[v] \in Docs
  BY DEF TypeInv, Grounded
<1>3. BegunInv'
  <2>1. ASSUME NEW v \in Workers, pc'[v] \notin {"idle", "begin", "claim"}
        PROVE  Begun(job[v])'
    <3>1. CASE v = w
      <4>1. pc[w] # "idle"
        BY DEF WorkerStep, WorkerRuns, WorkerFault, ReadRetryKey, Claim, ClaimRefused,
               ClaimFails, ReadFile, ReadFileFails, IndexChunks, IndexChunksFails, Finish,
               FinishFails, Unlink, MarkFailedRead, MarkFailedCommit, MarkFailedRefused,
               MarkFailedFails, ClearRetry, ClearRetryFails, IncrRetry, PushDlq, AcknowledgeDeadLetter, Acknowledge,
               Abandon
      <4>2. job'[w] = job[w] /\ (Begun(job[w]) \/ Begun(job[w])')
        BY <2>1, <3>1, WorkerBegins
      <4>3. Begun(job[w]) => status'[job[w]] \notin {"ABSENT", "PENDING"}
        BY <1>1, <1>2, <4>1 DEF Begun
      <4> QED
        BY <3>1, <4>2, <4>3 DEF Begun
    <3>2. CASE v # w
      <4>1. pc[v] = pc'[v] /\ job[v] = job'[v]
        BY <3>2, OtherWorkersStay
      <4>2. Begun(job[v]) /\ job[v] \in Docs
        BY <1>2, <2>1, <4>1 DEF BegunInv
      <4> QED
        BY <1>1, <4>1, <4>2 DEF Begun
    <3> QED
      BY <3>1, <3>2
  <2>2. \A d \in Docs : retryKey'[d] > 0 => Begun(d)'
    BY <1>1, WorkerBegins DEF BegunInv
  <2> QED
    BY <2>1, <2>2 DEF BegunInv
<1>4. ASSUME NEW p \in Paths, disk[p] # None, disk'[p] = None
      PROVE  Begun(p[1])
  <2>1. Known(w, p) /\ pc[w] \notin {"idle", "begin", "claim"}
    BY <1>4, WorkerFiles
  <2>2. p[1] = job[w]
    BY <2>1, StoreAssumption DEF Known, PathInv, RowPaths, WorkerPaths
  <2> QED
    BY <2>1, <2>2 DEF BegunInv
<1>5. UploadOnDisk'
  <2> SUFFICES ASSUME NEW u \in Uploads, ~ Begun(UploadDoc(u))',
                      uploadPc[u] \in {"save", "lookup", "update", "enqueue", "commit"}
               PROVE  disk'[uploadPath[u]] # None
    BY DEF UploadOnDisk
  <2>1. uploadPath[u] \in Paths /\ UploadDoc(u) \in Docs
    BY DEF TypeInv, Grounded, UploadDoc, Paths
  <2>2. ~ Begun(UploadDoc(u))
    BY <1>1, <2>1 DEF Begun, UploadDoc
  <2> QED
    BY <1>4, <2>1, <2>2 DEF UploadOnDisk, UploadDoc
<1>6. PendingFileOnDisk'
  <2> SUFFICES ASSUME NEW d \in Docs, status'[d] = "PENDING", filePath'[d] # None
               PROVE  disk'[filePath'[d]] # None
    BY DEF PendingFileOnDisk
  <2>1. ~ Begun(d) /\ filePath'[d] = filePath[d] /\ filePath[d] \in Paths
    BY <1>1, WorkerFiles DEF Begun, TypeInv, TypeOK, StoreTypeOK
  <2>2. filePath[d][1] = d /\ status[d] # "ABSENT"
    BY <2>1, StoreAssumption DEF PathInv, RowPaths, Taken, Created, UploadDoc
  <2> QED
    BY <1>4, <2>1, <2>2 DEF PendingFileOnDisk, Begun
<1> QED
  BY <1>3, <1>5, <1>6

(* A path enters a row only by the commit of an upload.                    *)
LEMMA ApiRows ==
  ASSUME TypeInv, PathInv, ApiStep, NEW d \in Docs
  PROVE  \/ filePath'[d] = filePath[d]
         \/ \E u \in Uploads : /\ uploadPc[u] = "commit" /\ uploadPc'[u] = "accepted"
                               /\ UploadDoc(u) = d /\ uploadPath[u] \in Paths
                               /\ UNCHANGED <<disk, uploadPath>>
                               /\ filePath'[d] = uploadPath[u]
<1> USE DEF TypeInv, TypeOK, StoreTypeOK, ApiTypeOK
<1>1. ASSUME NEW u \in Uploads, CommitUpload(u), filePath'[d] # filePath[d]
      PROVE  /\ uploadPc[u] = "commit" /\ uploadPc'[u] = "accepted"
             /\ UploadDoc(u) = d /\ uploadPath[u] \in Paths
             /\ UNCHANGED <<disk, uploadPath>>
             /\ filePath'[d] = uploadPath[u]
  BY <1>1 DEF CommitUpload, UploadGoto, PathInv, LockedRows, Grounded
<1>2. ASSUME NEW i \in Ingests, MarkEnqueueFailed(i)
      PROVE  filePath'[d] = filePath[d]
  BY <1>2 DEF MarkEnqueueFailed, WriteStatus
<1>3. CASE UNCHANGED filePath
  BY <1>3
<1> HIDE DEF TypeInv
<1> QED
  BY <1>1, <1>2, <1>3
     DEF ApiStep, Ingest, CreateDocument, IngestDuplicate, EnqueueIngest, EnqueueIngestFails,
         EndIngest, OpenFile, SaveFile, LookupDocument, UploadConflict, UpdateFilePath,
         EnqueueUpload, EnqueueUploadFails, AbortUpload, storeVars, rowVars

LEMMA ApiKeepsFiles ==
  ASSUME TypeInv, ApiStep, NEW p \in Paths, disk[p] # None
  PROVE  disk'[p] # None
<1> USE StoreAssumption DEF TypeInv, TypeOK, StoreTypeOK, ApiTypeOK, Contents
<1>1. CASE UNCHANGED disk
  BY <1>1
<1>2. ASSUME NEW q \in Paths, NEW t \in Contents, disk' = [disk EXCEPT ![q] = t]
      PROVE  disk'[p] # None
  BY <1>2
<1> HIDE DEF TypeInv
<1> QED
  BY <1>1, <1>2, ApiFiles

LEMMA ApiPending ==
  ASSUME TypeInv, PathInv, Created, PendingInv, ~ OperatorRetry, ApiStep, UNCHANGED workerVars,
         \A d \in Docs : Moves(d)
  PROVE  PendingInv'
<1> USE DEF PendingInv
<1>1. \A d \in Docs : ~ Begun(d)' => ~ Begun(d)
  BY BegunStays
<1>2. BegunInv'
  <2>1. \A w \in Workers : pc[w] # "idle" => job[w] \in Docs
    BY DEF TypeInv, Grounded
  <2> QED
    BY <1>1, <2>1 DEF BegunInv, workerVars, sessionVars, redisVars, Begun
<1>3. UploadOnDisk'
  <2> SUFFICES ASSUME NEW u \in Uploads, ~ Begun(UploadDoc(u))',
                      uploadPc'[u] \in {"save", "lookup", "update", "enqueue", "commit"}
               PROVE  disk'[uploadPath'[u]] # None
    BY DEF UploadOnDisk
  <2>1. ASSUME uploadPc[u] \in {"save", "lookup", "update", "enqueue", "commit"}
        PROVE  disk'[uploadPath'[u]] # None
    <3>1. uploadPath[u] \in Paths /\ UploadDoc(u) \in Docs
      BY <2>1 DEF TypeInv, Grounded, UploadDoc, Paths
    <3>2. uploadPath'[u] = uploadPath[u]
      BY <3>1, UploadKeepsPath, StoreAssumption
    <3>3. ~ Begun(UploadDoc(u))
      BY <1>1, <3>1, <3>2 DEF Begun, UploadDoc
    <3> QED
      BY <2>1, <3>1, <3>2, <3>3, ApiKeepsFiles DEF UploadOnDisk
  <2>2. ASSUME NEW v \in Uploads, NEW path \in Paths,
               uploadPc[v] = "new", uploadPc' = [uploadPc EXCEPT ![v] = "save"],
               uploadPath' = [uploadPath EXCEPT ![v] = path],
               disk' = [disk EXCEPT ![path] = Torn],
               uploadPc[u] \notin {"save", "lookup", "update", "enqueue", "commit"}
        PROVE  disk'[uploadPath'[u]] # None
    BY <2>2, StoreAssumption DEF TypeInv, TypeOK, StoreTypeOK, ApiTypeOK, Contents
  <2>3. ASSUME NEW v \in Uploads, NEW next \in UploadStates \ {"new", "save"},
               uploadPc' = [uploadPc EXCEPT ![v] = next],
               uploadPc[v] \in {"new", "save"} => uploadPc'[v] = "failed",
               uploadPc[v] \notin {"accepted", "failed"}
        PROVE  uploadPc[u] \in {"save", "lookup", "update", "enqueue", "commit"}
    BY <2>3 DEF TypeInv, TypeOK, ApiTypeOK, UploadStates
  <2>4. ASSUME NEW v \in Uploads, uploadPc[v] = "save",
               uploadPc' = [uploadPc EXCEPT ![v] = "lookup"]
        PROVE  uploadPc[u] \in {"save", "lookup", "update", "enqueue", "commit"}
    BY <2>4 DEF TypeInv, TypeOK, ApiTypeOK
  <2> QED
    BY <2>1, <2>2, <2>3, <2>4, ApiFiles
<1>4. PendingFileOnDisk'
  <2> SUFFICES ASSUME NEW d \in Docs, status'[d] = "PENDING", filePath'[d] # None
               PROVE  disk'[filePath'[d]] # None
    BY DEF PendingFileOnDisk
  <2>1. ~ Begun(d)
    BY <1>1 DEF Begun
  <2>2. CASE filePath'[d] = filePath[d]
    <3>1. filePath[d] \in Paths
      BY <2>2 DEF TypeInv, TypeOK, StoreTypeOK
    <3>2. status[d] # "ABSENT"
      BY <2>2, <3>1 DEF PathInv, RowPaths, Taken, Created, UploadDoc
    <3> QED
      BY <2>1, <2>2, <3>1, <3>2, ApiKeepsFiles DEF PendingFileOnDisk, Begun
  <2>3. ASSUME NEW u \in Uploads, uploadPc[u] = "commit", UploadDoc(u) = d,
               uploadPath[u] \in Paths, UNCHANGED <<disk, uploadPath>>,
               filePath'[d] = uploadPath[u]
        PROVE  disk'[filePath'[d]] # None
    BY <2>1, <2>3 DEF UploadOnDisk
  <2> QED
    BY <2>2, <2>3, ApiRows
<1> QED
  BY <1>2, <1>3, <1>4

(* Without retry_document and as long as the database does not fail, the   *)
(* file of a PENDING row is on disk for the worker that will claim it:     *)
(* crashes, resent commands, redeliveries and refused uploads included.    *)
THEOREM PendingKeepsFile ==
  ASSUME "db" \notin Faults, ~ OperatorRetry
  PROVE  Spec => []PendingFileOnDisk
<1>1. Init => PendingInv
  BY DEF Init, StoreInit, WorkerInit, ApiInit, PendingInv, BegunInv, UploadOnDisk,
         PendingFileOnDisk
<1>2. TypeInv /\ PathInv /\ Created /\ PendingInv /\ [Next]_vars => PendingInv'
  <2> SUFFICES ASSUME TypeInv, PathInv, Created, PendingInv, [Next]_vars PROVE PendingInv'
    OBVIOUS
  <2>1. \A d \in Docs : Moves(d)
    BY DocumentMoves
  <2>2. ASSUME NEW w \in Workers, NEW d \in Docs, Deliver(w, d), UNCHANGED apiVars
        PROVE  PendingInv'
    <3>1. UNCHANGED <<status, filePath, disk, retryKey, uploadPc, uploadPath>>
      BY <2>2 DEF Deliver, storeVars, rowVars, redisVars, apiVars, uploadVars
    <3>2. \A v \in Workers : pc'[v] \notin {"idle", "begin", "claim"}
                               => pc'[v] = pc[v] /\ job'[v] = job[v]
      BY <2>2 DEF Deliver, Goto, TypeInv, TypeOK, WorkerTypeOK
    <3> QED
      BY <3>1, <3>2 DEF PendingInv, BegunInv, Begun, UploadOnDisk, UploadDoc, PendingFileOnDisk
  <2>3. ASSUME NEW w \in Workers, WorkerStep(w), UNCHANGED apiVars
        PROVE  PendingInv'
    BY <2>1, <2>3, WorkerPending
  <2>4. CASE ApiNext
    BY <2>1, <2>4, ApiPending DEF ApiNext
  <2>5. CASE UNCHANGED vars
    BY <2>5 DEF vars, storeVars, rowVars, workerVars, sessionVars, redisVars, apiVars,
                uploadVars, PendingInv, BegunInv, Begun, UploadOnDisk, UploadDoc,
                PendingFileOnDisk
  <2> QED
    BY <2>2, <2>3, <2>4, <2>5 DEF Next, WorkerNext, Retry
<1>3. PendingInv => PendingFileOnDisk
  BY DEF PendingInv
<1> QED
  BY <1>1, <1>2, <1>3, TypeCorrect, PathInvariant, CreatedInvariant, PTL DEF Spec

-----------------------------------------------------------------------------
(* A file that nobody needs to answer for: an upload that is not accepted  *)
(* has written it, or its document has taken two uploads.                  *)
TakenTwice(d) == \E u, v \in Uploads : u # v /\ Accepted(u, d) /\ Accepted(v, d)
Excused(p) ==
    \/ \E u \in Uploads : uploadPath[u] = p /\ uploadPc[u] # "accepted"
    \/ TakenTwice(p[1])

(* The path in the session of a worker that failed has been deleted; it is *)
(* there again only if another upload wrote it.                            *)
Discarded ==
    \A w \in Workers, p \in Paths :
        pc[w] \in {"failRead", "failWrite", "dlqWrite"} /\ cache[w].path = p /\ disk[p] # None
            => Excused(p)

OwnerInv == FileHasOwner /\ Discarded

LEMMA DeletedForSure ==
  ASSUME "file" \notin Faults, NEW p \in Paths, DeleteFile(p)
  PROVE  disk'[p] = None
  BY DEF DeleteFile

(* What a worker without crashes and file errors does with the path in its *)
(* session: it lets go of it only after deleting the file, it clears the   *)
(* row only for it, and when it fails it has just deleted it.              *)
LEMMA WorkerOwns ==
  ASSUME TypeInv, NothingCached, "crash" \notin Faults, "file" \notin Faults,
         NEW w \in Workers, WorkerStep(w), NEW p \in Paths
  PROVE  /\ cache[w].path = p /\ cache'[w].path # p
               => disk'[p] = None \/ pc[w] \in {"failRead", "failWrite", "dlqWrite"}
         /\ pc'[w] \in {"failRead", "failWrite", "dlqWrite"} /\ cache'[w].path = p
               => \/ disk'[p] = None
                  \/ /\ pc[w] \in {"failRead", "failWrite", "dlqWrite"}
                     /\ cache[w].path = p
<1> USE StoreAssumption
        DEF Goto, sessionVars, Release, LeaveMarkFailed, CloseSession, TypeInv, TypeOK,
            WorkerTypeOK, NothingCached, NoCache
<1>1. CASE ReadRetryKey(w) \/ Claim(w) \/ ClaimRefused(w) \/ ClaimFails(w)
  BY <1>1 DEF ReadRetryKey, Claim, ClaimRefused, ClaimFails
<1>2. CASE ReadFile(w) \/ IndexChunks(w) \/ Finish(w)
  BY <1>2 DEF ReadFile, IndexChunks, Finish
<1>3. CASE ReadFileFails(w) \/ IndexChunksFails(w) \/ FinishFails(w) \/ Unlink(w)
  <2>1. DeleteFile(cache[w].path)
    BY <1>3 DEF ReadFileFails, IndexChunksFails, FailProcessing, FinishFails, Unlink
  <2>2. cache[w].path = p => disk'[p] = None
    BY <2>1, DeletedForSure
  <2> QED
    BY <1>3, <2>2 DEF ReadFileFails, IndexChunksFails, FailProcessing, FinishFails, Unlink
<1>4. CASE MarkFailedRead(w)
  <2>1. PICK seen \in {RowOf(job[w]), cache[w]} :
               /\ DeleteFile(seen.path) /\ cache' = [cache EXCEPT ![w] = seen]
               /\ cache[w] # NoCache => seen = cache[w]
    BY <1>4 DEF MarkFailedRead
  <2>2. seen.path = p => disk'[p] = None
    BY <2>1, DeletedForSure
  <2> QED
    BY <1>4, <2>1, <2>2 DEF MarkFailedRead
<1>5. CASE MarkFailedCommit(w) \/ MarkFailedRefused(w) \/ MarkFailedFails(w)
  <2>1. pc[w] \in {"failRead", "failWrite", "dlqRead", "dlqWrite"}
    BY <1>5 DEF MarkFailedCommit, MarkFailedRefused, MarkFailedFails, MarkingFailed
  <2>2. pc'[w] \in {"incr", "dlqAck", "idle"}
    BY <1>5 DEF MarkFailedCommit, MarkFailedRefused, MarkFailedFails
  <2>3. pc[w] = "dlqRead" => cache[w].path = None
    OBVIOUS
  <2> QED
    BY <2>1, <2>2, <2>3
<1>6. CASE \/ ClearRetry(w) \/ ClearRetryFails(w) \/ IncrRetry(w) \/ PushDlq(w)
           \/ AcknowledgeDeadLetter(w) \/ Acknowledge(w) \/ Abandon(w)
  BY <1>6 DEF ClearRetry, ClearRetryFails, IncrRetry, PushDlq, AcknowledgeDeadLetter, Acknowledge, Abandon
<1> QED
  BY <1>1, <1>2, <1>3, <1>4, <1>5, <1>6 DEF WorkerStep, WorkerRuns, WorkerFault

LEMMA WorkerClearsRow ==
  ASSUME TypeInv, "file" \notin Faults, NEW w \in Workers, WorkerStep(w), NEW d \in Docs,
         filePath'[d] # filePath[d]
  PROVE  /\ job[w] = d /\ cache[w].path \in Paths
         /\ \/ pc[w] \in {"failWrite", "dlqWrite"}
            \/ cache'[w] = cache[w]
            \/ disk'[cache[w].path] = None
<1> USE DEF TypeInv, TypeOK, StoreTypeOK, WorkerTypeOK, storeVars, rowVars, sessionVars
<1>1. CASE Claim(w) \/ ClaimFails(w)
  BY <1>1 DEF Claim, ClaimFails, WriteStatus
<1>2. CASE Finish(w) \/ FinishFails(w)
  <2>1. job[w] = d /\ cache[w].path \in Paths
    BY <1>2 DEF Finish, FinishFails, WriteStatus, Cached
  <2>2. cache'[w] = cache[w] \/ DeleteFile(cache[w].path)
    BY <1>2 DEF Finish, FinishFails
  <2> QED
    BY <2>1, <2>2, DeletedForSure
<1>3. CASE MarkFailedCommit(w) \/ MarkFailedFails(w)
  <2>1. pc[w] \in {"failWrite", "dlqWrite"} /\ WriteStatus(job[w], "FAILED", cache[w])
    BY <1>3 DEF MarkFailedCommit, MarkFailedFails
  <2> QED
    BY <2>1 DEF WriteStatus, Cached
<1>4. CASE UNCHANGED filePath
  BY <1>4
<1> QED
  BY <1>1, <1>2, <1>3, <1>4
     DEF WorkerStep, WorkerRuns, WorkerFault, ReadRetryKey, ClaimRefused, ReadFile,
         ReadFileFails, FailProcessing, IndexChunks, IndexChunksFails, Unlink, MarkFailedRead,
         MarkFailedRefused, ClearRetry, ClearRetryFails, IncrRetry, PushDlq, AcknowledgeDeadLetter, Acknowledge,
         Abandon

(* Two paths of one document that were taken were taken by two uploads.    *)
LEMMA TwoPathsTaken ==
  ASSUME NEW p \in Paths, NEW q \in Paths, p # q, p[1] = q[1], Taken(p), Taken(q)
  PROVE  TakenTwice(p[1])
  BY DEF Taken, TakenTwice, Accepted, UploadDoc

LEMMA WorkerOwner ==
  ASSUME TypeInv, NothingCached, PathInv, OwnerInv, "crash" \notin Faults, "file" \notin Faults,
         NEW w \in Workers, WorkerStep(w), UNCHANGED apiVars
  PROVE  OwnerInv'
<1> USE DEF OwnerInv
<1>1. \A p : Excused(p)' <=> Excused(p)
  BY DEF Excused, TakenTwice, Accepted, UploadDoc, apiVars, uploadVars
<1>2. \A p \in Paths : disk'[p] # None => disk[p] # None
  BY WorkerFiles
<1>3. FileHasOwner'
  <2> SUFFICES ASSUME NEW p \in Paths, disk'[p] # None
               PROVE  \/ filePath'[p[1]] = p
                      \/ \E v \in Workers : cache'[v].path = p
                      \/ Excused(p)'
    BY DEF FileHasOwner, Excused, TakenTwice
  <2>1. p[1] \in Docs /\ p # None
    BY StoreAssumption DEF Paths
  <2>2. CASE filePath[p[1]] = p /\ filePath'[p[1]] # p
    <3> DEFINE q == cache[w].path
    <3>1. /\ job[w] = p[1] /\ q \in Paths
          /\ pc[w] \in {"failWrite", "dlqWrite"} \/ cache'[w] = cache[w] \/ disk'[q] = None
      BY <2>1, <2>2, WorkerClearsRow
    <3>2. Taken(p) /\ Taken(q) /\ q[1] = p[1]
      BY <2>1, <2>2, <3>1, StoreAssumption DEF PathInv, RowPaths, WorkerPaths
    <3>3. CASE p = q
      BY <1>1, <1>2, <3>1, <3>3 DEF Discarded
    <3>4. CASE p # q
      BY <1>1, <3>1, <3>2, <3>4, TwoPathsTaken DEF Excused
    <3> QED
      BY <3>3, <3>4
  <2>3. ASSUME NEW v \in Workers, cache[v].path = p
        PROVE  cache'[v].path = p \/ Excused(p)
    <3>1. CASE v = w
      BY <1>2, <2>3, <3>1, WorkerOwns DEF Discarded
    <3>2. CASE v # w
      BY <2>3, <3>2, WorkerFiles
    <3> QED
      BY <3>1, <3>2
  <2>4. \/ filePath[p[1]] = p
        \/ \E v \in Workers : cache[v].path = p
        \/ Excused(p)
    BY <1>2 DEF FileHasOwner, Excused, TakenTwice
  <2> QED
    BY <1>1, <2>2, <2>3, <2>4
<1>4. Discarded'
  <2> SUFFICES ASSUME NEW v \in Workers, NEW p \in Paths,
                      pc'[v] \in {"failRead", "failWrite", "dlqWrite"},
                      cache'[v].path = p, disk'[p] # None
               PROVE  Excused(p)'
    BY DEF Discarded
  <2>1. pc[v] \in {"failRead", "failWrite", "dlqWrite"} /\ cache[v].path = p
    <3>1. CASE v = w
      BY <3>1, WorkerOwns
    <3>2. CASE v # w
      BY <3>2, WorkerFiles, OtherWorkersStay
    <3> QED
      BY <3>1, <3>2
  <2> QED
    BY <1>1, <1>2, <2>1 DEF Discarded
<1> QED
  BY <1>3, <1>4

LEMMA AcceptedByCommit ==
  ASSUME TypeInv, ApiStep, NEW u \in Uploads, uploadPc[u] # "accepted", uploadPc'[u] = "accepted"
  PROVE  CommitUpload(u) /\ uploadPath[u] \in Paths /\ uploadPath'[u] = uploadPath[u]
<1> USE DEF TypeInv, TypeOK, ApiTypeOK, UploadGoto
<1>1. ASSUME NEW v \in Uploads,
             \/ \E path \in Paths : OpenFile(v, path)
             \/ SaveFile(v) \/ LookupDocument(v) \/ UploadConflict(v) \/ UpdateFilePath(v)
             \/ EnqueueUpload(v) \/ EnqueueUploadFails(v) \/ AbortUpload(v)
      PROVE  FALSE
  BY <1>1 DEF OpenFile, SaveFile, LookupDocument, UploadConflict, UpdateFilePath, EnqueueUpload,
              EnqueueUploadFails, AbortUpload
<1>2. ASSUME NEW v \in Uploads, CommitUpload(v)
      PROVE  CommitUpload(u) /\ uploadPath[u] \in Paths /\ uploadPath'[u] = uploadPath[u]
  BY <1>2 DEF CommitUpload, Grounded
<1>3. CASE UNCHANGED uploadVars
  BY <1>3 DEF uploadVars
<1> HIDE DEF TypeInv
<1> QED
  BY <1>1, <1>2, <1>3 DEF ApiStep, Ingest, IngestDuplicate, EnqueueIngest, EnqueueIngestFails,
                          MarkEnqueueFailed, EndIngest

(* When an upload is committed for a document that had taken a path, the   *)
(* document has taken two uploads.                                         *)
LEMMA SecondCommit ==
  ASSUME TypeInv, PathInv, ApiStep, NEW u \in Uploads, uploadPath[u] \in Paths,
         uploadPc[u] # "accepted", uploadPc'[u] = "accepted", NEW p \in Paths, Taken(p),
         p[1] = UploadDoc(u)
  PROVE  TakenTwice(p[1])'
<1>1. PICK v \in Uploads : uploadPc[v] = "accepted" /\ uploadPath[v] = p
  BY DEF Taken
<1>2. u # v
  BY <1>1
<1>3. uploadPath'[u] = uploadPath[u] /\ uploadPath'[v] = p /\ uploadPc'[v] = "accepted"
  BY <1>1, UploadKeepsPath, StoreAssumption
<1> QED
  BY <1>2, <1>3 DEF TakenTwice, Accepted, UploadDoc

LEMMA ApiExcuses ==
  ASSUME TypeInv, PathInv, ApiStep, NEW p \in Paths, Excused(p)
  PROVE  \/ Excused(p)'
         \/ \E u \in Uploads : /\ CommitUpload(u) /\ uploadPath[u] = p
                               /\ uploadPc[u] # "accepted" /\ uploadPc'[u] = "accepted"
<1>1. CASE TakenTwice(p[1])
  <2>1. PICK u \in Uploads, v \in Uploads : u # v /\ Accepted(u, p[1]) /\ Accepted(v, p[1])
    BY <1>1 DEF TakenTwice
  <2>2. uploadPath[u] # None /\ uploadPath[v] # None
    BY <2>1, StoreAssumption DEF Accepted, TypeInv, Grounded
  <2>3. Accepted(u, p[1])' /\ Accepted(v, p[1])'
    BY <2>1, <2>2, UploadKeepsPath DEF Accepted, UploadDoc
  <2> QED
    BY <2>1, <2>3 DEF Excused, TakenTwice
<1>2. ASSUME NEW u \in Uploads, uploadPath[u] = p, uploadPc[u] # "accepted"
      PROVE  Excused(p)' \/ (CommitUpload(u) /\ uploadPc'[u] = "accepted")
  <2>1. uploadPath'[u] = p
    BY <1>2, UploadKeepsPath, StoreAssumption
  <2> QED
    BY <1>2, <2>1, AcceptedByCommit DEF Excused
<1> QED
  BY <1>1, <1>2 DEF Excused

LEMMA ApiOwner ==
  ASSUME TypeInv, PathInv, OwnerInv, ApiStep, UNCHANGED workerVars
  PROVE  OwnerInv'
<1> USE DEF OwnerInv
<1>1. ASSUME NEW p \in Paths, disk[p] = None, disk'[p] # None
      PROVE  Excused(p)'
  <2>1. ASSUME NEW u \in Uploads, uploadPath'[u] = p, uploadPc'[u] # "accepted"
        PROVE  Excused(p)'
    BY <2>1 DEF Excused
  <2>2. ASSUME NEW u \in Uploads, NEW path \in Paths,
               uploadPc' = [uploadPc EXCEPT ![u] = "save"],
               uploadPath' = [uploadPath EXCEPT ![u] = path],
               disk' = [disk EXCEPT ![path] = Torn]
        PROVE  Excused(p)'
    BY <1>1, <2>1, <2>2 DEF TypeInv, TypeOK, StoreTypeOK, ApiTypeOK
  <2>3. ASSUME NEW u \in Uploads, uploadPath[u] \in Paths, NEW t \in Contents,
               uploadPc' = [uploadPc EXCEPT ![u] = "lookup"],
               disk' = [disk EXCEPT ![uploadPath[u]] = t], UNCHANGED uploadPath
        PROVE  Excused(p)'
    BY <1>1, <2>1, <2>3 DEF TypeInv, TypeOK, StoreTypeOK, ApiTypeOK
  <2> QED
    BY <1>1, <2>2, <2>3, ApiFiles
<1>2. FileHasOwner'
  <2> SUFFICES ASSUME NEW p \in Paths, disk'[p] # None
               PROVE  \/ filePath'[p[1]] = p
                      \/ \E v \in Workers : cache'[v].path = p
                      \/ Excused(p)'
    BY DEF FileHasOwner, Excused, TakenTwice
  <2>1. p[1] \in Docs /\ p # None
    BY StoreAssumption DEF Paths
  <2>2. CASE disk[p] = None
    BY <1>1, <2>2
  <2>3. ASSUME filePath[p[1]] = p, filePath'[p[1]] # p
        PROVE  Excused(p)'
    <3>1. Taken(p)
      BY <2>1, <2>3 DEF PathInv, RowPaths
    <3>2. PICK u \in Uploads : /\ uploadPc[u] = "commit" /\ uploadPc'[u] = "accepted"
                               /\ UploadDoc(u) = p[1] /\ uploadPath[u] \in Paths
      BY <2>1, <2>3, ApiRows
    <3> QED
      BY <3>1, <3>2, SecondCommit DEF Excused
  <2>4. ASSUME NEW v \in Workers, cache[v].path = p
        PROVE  cache'[v].path = p
    BY <2>4 DEF workerVars, sessionVars
  <2>5. ASSUME NEW u \in Uploads, CommitUpload(u), uploadPath[u] = p, uploadPc[u] # "accepted",
               uploadPc'[u] = "accepted"
        PROVE  filePath'[p[1]] = p \/ Excused(p)'
    <3>1. CASE lock[p[1]] = u
      BY <2>1, <2>5, <3>1 DEF CommitUpload
    <3>2. CASE lock[p[1]] # u
      <4>1. uploadSeen[u] = p
        BY <2>5, <3>2 DEF CommitUpload, PathInv, LockOrSeen, UploadDoc
      <4>2. Taken(p)
        BY <2>1, <4>1 DEF PathInv, SeenPaths
      <4> QED
        BY <2>5, <4>2, SecondCommit DEF Excused, UploadDoc
    <3> QED
      BY <3>1, <3>2
  <2>6. disk[p] # None => \/ filePath[p[1]] = p
                          \/ \E v \in Workers : cache[v].path = p
                          \/ Excused(p)
    BY DEF FileHasOwner, Excused, TakenTwice
  <2> QED
    BY <2>2, <2>3, <2>4, <2>5, <2>6, ApiExcuses
<1>3. Discarded'
  <2> SUFFICES ASSUME NEW v \in Workers, NEW p \in Paths,
                      pc[v] \in {"failRead", "failWrite", "dlqWrite"},
                      cache[v].path = p, disk'[p] # None
               PROVE  Excused(p)'
    BY DEF Discarded, workerVars, sessionVars
  <2>1. CASE disk[p] = None
    BY <1>1, <2>1
  <2>2. CASE disk[p] # None
    <3>1. Taken(p) /\ Excused(p)
      BY <2>2, StoreAssumption DEF Discarded, PathInv, WorkerPaths
    <3>2. ASSUME NEW u \in Uploads, uploadPath[u] = p, uploadPc[u] # "accepted",
                 uploadPc'[u] = "accepted"
          PROVE  Excused(p)'
      BY <3>1, <3>2, SecondCommit DEF Excused, UploadDoc
    <3> QED
      BY <3>1, <3>2, ApiExcuses
  <2> QED
    BY <2>1, <2>2
<1> QED
  BY <1>2, <1>3

(* No file is forgotten, as long as no process dies and the disk does not  *)
(* fail: whoever loses sight of a file has deleted it, or the document     *)
(* took another upload, or the upload of the file was never accepted.      *)
THEOREM EveryFileHasOwner ==
  ASSUME "crash" \notin Faults, "file" \notin Faults
  PROVE  Spec => []FileHasOwner
<1>1. Init => OwnerInv
  BY DEF Init, StoreInit, OwnerInv, FileHasOwner, Discarded
<1>2. TypeInv /\ NothingCached /\ PathInv /\ OwnerInv /\ [Next]_vars => OwnerInv'
  <2> SUFFICES ASSUME TypeInv, NothingCached, PathInv, OwnerInv, [Next]_vars PROVE OwnerInv'
    OBVIOUS
  <2>1. ASSUME UNCHANGED <<disk, filePath, cache, apiVars>>,
               \A w \in Workers : pc'[w] \in {"failRead", "failWrite", "dlqWrite"}
                                     => pc'[w] = pc[w]
        PROVE  OwnerInv'
    <3>1. \A p : Excused(p)' <=> Excused(p)
      BY <2>1 DEF Excused, TakenTwice, Accepted, UploadDoc, apiVars, uploadVars
    <3>2. Discarded'
      BY <2>1, <3>1 DEF OwnerInv, Discarded
    <3>3. FileHasOwner'
      BY <2>1 DEF OwnerInv, FileHasOwner, Accepted, UploadDoc, apiVars, uploadVars
    <3> QED
      BY <3>2, <3>3 DEF OwnerInv
  <2>2. ASSUME NEW w \in Workers, NEW d \in Docs, Deliver(w, d), UNCHANGED apiVars
        PROVE  OwnerInv'
    BY <2>1, <2>2 DEF Deliver, Goto, storeVars, rowVars, TypeInv, TypeOK, WorkerTypeOK
  <2>3. ASSUME NEW w \in Workers, WorkerStep(w), UNCHANGED apiVars
        PROVE  OwnerInv'
    BY <2>3, WorkerOwner
  <2>4. CASE ApiNext
    BY <2>4, ApiOwner DEF ApiNext
  <2>5. CASE UNCHANGED <<disk, filePath, workerVars, apiVars>>
    BY <2>1, <2>5 DEF workerVars, sessionVars
  <2> QED
    BY <2>2, <2>3, <2>4, <2>5 DEF Next, WorkerNext, Retry, RetryDocument, vars, storeVars, rowVars
<1>3. OwnerInv => FileHasOwner
  BY DEF OwnerInv
<1> QED
  BY <1>1, <1>2, <1>3, TypeCorrect, NothingCachedInvariant, PathInvariant, PTL DEF Spec
=============================================================================
