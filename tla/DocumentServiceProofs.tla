------------------------ MODULE DocumentServiceProofs ------------------------
(***************************************************************************)
(* Theorems about DocumentService, for any documents, uploads, requests,   *)
(* workers and faults.                                                     *)
(***************************************************************************)
EXTENDS DocumentService, TLAPS, FiniteSetTheorems

(* What the types alone do not say: a worker in an attempt holds a job, a  *)
(* worker that indexes has read a text, and a request that got anywhere    *)
(* has its document or its path.                                           *)
Grounded ==
    /\ \A w \in Workers : pc[w] # "idle" => job[w] \in Docs
    /\ \A w \in Workers : pc[w] = "index" => text[w] \in Contents
    /\ \A i \in Ingests : ingestPc[i] \in {"enqueue", "markFailed"} => ingestDoc[i] \in Docs
    /\ \A u \in Uploads : uploadPc[u] \notin {"new", "failed"} => uploadPath[u] \in Paths

TypeInv == TypeOK /\ Grounded

USE DEF Reading, MarkingFailed, DeadLettering, files

LEMMA TypeInvInit == Init => TypeInv
  BY StoreAssumption
     DEF Init, StoreInit, WorkerInit, ApiInit, TypeInv, TypeOK, Grounded, StoreTypeOK,
         WorkerTypeOK, ApiTypeOK, WorkerStates, IngestStates, UploadStates, Cached, NoCache

(* Every transaction of a worker or an API request that writes a status    *)
(* writes a legal row.                                                     *)
LEMMA WriteStatusType ==
  ASSUME StoreTypeOK, NEW d, NEW s \in DocumentStatus, NEW cache0, WriteStatus(d, s, cache0)
  PROVE  /\ status' \in [Docs -> DocumentStatus \cup {"ABSENT"}]
         /\ filePath' \in [Docs -> Paths \cup {None}]
  BY DEF StoreTypeOK, WriteStatus

LEMMA DeleteFileType ==
  ASSUME StoreTypeOK, NEW path, DeleteFile(path)
  PROVE  /\ disk' \in [Paths -> Contents \cup {None}]
         /\ writers' \in [Paths -> SUBSET Uploads]
  BY DEF StoreTypeOK, DeleteFile

LEMMA CloseSessionType ==
  ASSUME WorkerTypeOK, NEW w, CloseSession(w)
  PROVE  cache' \in [Workers -> Cached] /\ text' \in [Workers -> Contents \cup {None}]
  BY DEF WorkerTypeOK, CloseSession, Cached, NoCache

LEMMA LeaveMarkFailedType ==
  ASSUME TypeInv, NEW w \in Workers, pc[w] # "idle", LeaveMarkFailed(w)
  PROVE  /\ pc' \in [Workers -> WorkerStates]
         /\ job' \in [Workers -> Docs \cup {None}]
         /\ cache' \in [Workers -> Cached]
         /\ text' \in [Workers -> Contents \cup {None}]
         /\ \A v \in Workers : pc'[v] # "idle" => job'[v] \in Docs
         /\ \A v \in Workers : pc'[v] = "index" => text'[v] \in Contents
<1> USE DEF Goto, TypeInv, TypeOK, Grounded, WorkerTypeOK, WorkerStates
<1>1. CloseSession(w)
  BY DEF LeaveMarkFailed, Release
<1>2. /\ cache' \in [Workers -> Cached]
      /\ text' \in [Workers -> Contents \cup {None}]
  BY <1>1, CloseSessionType
<1>3. CASE pc[w] \in MarkingFailed
  BY SMTT(30), <1>1, <1>2, <1>3 DEF LeaveMarkFailed, CloseSession
<1>4. CASE pc[w] \notin MarkingFailed
  BY SMTT(30), <1>1, <1>2, <1>4 DEF LeaveMarkFailed, CloseSession, Release
<1>5. QED
  BY <1>3, <1>4

-----------------------------------------------------------------------------
(* Each step of a worker preserves the invariant.                          *)
LEMMA WorkerTypeInv ==
  ASSUME TypeInv, NEW w \in Workers, WorkerStep(w), UNCHANGED apiVars
  PROVE  TypeInv'
<1> USE StoreAssumption, WorkerAssumption
        DEF TypeInv, TypeOK, Grounded, StoreTypeOK, WorkerTypeOK, ApiTypeOK, storeVars,
            rowVars, sessionVars, redisVars, apiVars, ingestVars, uploadVars, WorkerStates,
            Goto
<1>1. CASE ReadRetryKey(w)
  BY <1>1 DEF ReadRetryKey
<1>2. CASE Claim(w)
  BY <1>2 DEF Claim, WriteStatus, Cached, DocumentStatus
<1>3. CASE ClaimRefused(w)
  BY <1>3 DEF ClaimRefused
<1>4. CASE ClaimFails(w)
  <2>1. /\ status' \in [Docs -> DocumentStatus \cup {"ABSENT"}]
        /\ filePath' \in [Docs -> Paths \cup {None}]
    BY <1>4, WriteStatusType DEF ClaimFails, DocumentStatus
  <2>2. claims' \in [Docs -> Nat]
    BY SMTT(30), <1>4 DEF ClaimFails
  <2>3. QED
    BY <1>4, <2>1, <2>2 DEF ClaimFails
<1>5. CASE ReadFile(w)
  <2>1. text' \in [Workers -> Contents \cup {None}]
    BY <1>5 DEF ReadFile, Cached
  <2>2. pc'[w] = "index" => text'[w] \in Contents
    BY <1>5 DEF ReadFile, Cached
  <2>3. QED
    BY <1>5, <2>1, <2>2 DEF ReadFile
<1>6. CASE ReadFileFails(w)
  BY <1>6 DEF ReadFileFails, FailProcessing, DeleteFile
<1>7. CASE IndexChunks(w)
  BY <1>7 DEF IndexChunks, UpsertChunks
<1>8. CASE IndexChunksFails(w)
  BY <1>8 DEF IndexChunksFails, UpsertChunks, FailProcessing, DeleteFile
<1>9. CASE Finish(w)
  BY <1>9 DEF Finish, WriteStatus, DocumentStatus
<1>10. CASE FinishFails(w)
  <2>1. /\ status' \in [Docs -> DocumentStatus \cup {"ABSENT"}]
        /\ filePath' \in [Docs -> Paths \cup {None}]
    BY <1>10, WriteStatusType DEF FinishFails, DocumentStatus
  <2>2. /\ disk' \in [Paths -> Contents \cup {None}]
        /\ writers' \in [Paths -> SUBSET Uploads]
    BY <1>10, DeleteFileType DEF FinishFails
  <2>3. cache' \in [Workers -> Cached]
    BY <1>10 DEF FinishFails, Cached, NoCache
  <2>4. QED
    BY <1>10, <2>1, <2>2, <2>3 DEF FinishFails
<1>11. CASE Unlink(w)
  BY <1>11 DEF Unlink, DeleteFile, CloseSession, Cached, NoCache
<1>12. CASE MarkFailedRead(w)
  BY <1>12 DEF MarkFailedRead, DeleteFile, RowOf, Cached
<1>13. CASE MarkFailedCommit(w)
  BY <1>13 DEF MarkFailedCommit, WriteStatus, CloseSession, Cached, NoCache, DocumentStatus
<1>14. CASE MarkFailedRefused(w)
  BY <1>14, LeaveMarkFailedType DEF MarkFailedRefused
<1>15. CASE MarkFailedFails(w)
  <2>1. /\ status' \in [Docs -> DocumentStatus \cup {"ABSENT"}]
        /\ filePath' \in [Docs -> Paths \cup {None}]
    BY <1>15, WriteStatusType DEF MarkFailedFails, DocumentStatus
  <2>2. QED
    BY <1>15, <2>1, LeaveMarkFailedType DEF MarkFailedFails
<1>16. CASE ClearRetry(w)
  BY <1>16 DEF ClearRetry
<1>17. CASE ClearRetryFails(w)
  BY <1>17 DEF ClearRetryFails
<1>18. CASE IncrRetry(w)
  BY <1>18 DEF IncrRetry, Release, CloseSession, Cached, NoCache, Resends
<1>19. CASE PushDlq(w)
  BY <1>19 DEF PushDlq
<1>20. CASE AcknowledgeDeadLetter(w) \/ Acknowledge(w)
  <2>1. CASE AcknowledgeDeadLetter(w)
    BY <2>1 DEF AcknowledgeDeadLetter
  <2>2. CASE Acknowledge(w)
    BY <2>2 DEF Acknowledge, Release, CloseSession, Cached, NoCache
  <2> QED
    BY <1>20, <2>1, <2>2
<1>21. CASE Abandon(w)
  BY <1>21 DEF Abandon, Release, CloseSession, Cached, NoCache
<1>22. QED
  BY <1>1, <1>2, <1>3, <1>4, <1>5, <1>6, <1>7, <1>8, <1>9, <1>10, <1>11, <1>12, <1>13, <1>14, <1>15, <1>16, <1>17, <1>18, <1>19, <1>20, <1>21 DEF WorkerStep, WorkerRuns, WorkerFault

-----------------------------------------------------------------------------
(* Each step of an API request preserves the invariant.                    *)
LEMMA ApiTypeInv ==
  ASSUME TypeInv, ApiStep, UNCHANGED workerVars
  PROVE  TypeInv'
<1> USE StoreAssumption, ApiAssumption
        DEF TypeInv, TypeOK, Grounded, StoreTypeOK, WorkerTypeOK, ApiTypeOK, workerVars,
            storeVars, rowVars, sessionVars, redisVars, ingestVars, uploadVars,
            IngestStates, UploadStates, IngestGoto, UploadGoto
<1>1. ASSUME NEW i \in Ingests, NEW d \in Docs, Ingest(i, d)
      PROVE  TypeInv'
  BY <1>1 DEF Ingest, CreateDocument, DocumentStatus
<1>2. ASSUME NEW i \in Ingests, NEW d \in Docs, IngestDuplicate(i, d)
      PROVE  TypeInv'
  BY <1>2 DEF IngestDuplicate
<1>3. ASSUME NEW i \in Ingests, EnqueueIngest(i)
      PROVE  TypeInv'
  BY <1>3 DEF EnqueueIngest
<1>4. ASSUME NEW i \in Ingests, EnqueueIngestFails(i)
      PROVE  TypeInv'
  BY <1>4 DEF EnqueueIngestFails
<1>5. ASSUME NEW i \in Ingests, MarkEnqueueFailed(i)
      PROVE  TypeInv'
  <2>1. /\ status' \in [Docs -> DocumentStatus \cup {"ABSENT"}]
        /\ filePath' \in [Docs -> Paths \cup {None}]
    BY <1>5, WriteStatusType DEF MarkEnqueueFailed, DocumentStatus
  <2>2. QED
    BY <1>5, <2>1 DEF MarkEnqueueFailed
<1>6. ASSUME NEW i \in Ingests, EndIngest(i)
      PROVE  TypeInv'
  BY <1>6 DEF EndIngest
<1>7. ASSUME NEW u \in Uploads, NEW path \in Paths, OpenFile(u, path)
      PROVE  TypeInv'
  BY <1>7 DEF OpenFile, Contents
<1>8. ASSUME NEW u \in Uploads, SaveFile(u)
      PROVE  TypeInv'
  <2>1. disk' \in [Paths -> Contents \cup {None}]
    BY <1>8 DEF SaveFile, Contents
  <2>2. writers' \in [Paths -> SUBSET Uploads]
    BY <1>8 DEF SaveFile, CloseFile
  <2> QED
    BY <1>8, <2>1, <2>2 DEF SaveFile
<1>9. ASSUME NEW u \in Uploads, LookupDocument(u)
      PROVE  TypeInv'
  BY <1>9 DEF LookupDocument, UploadDoc, Paths
<1>10. ASSUME NEW u \in Uploads, UploadConflict(u)
      PROVE  TypeInv'
  BY <1>10 DEF UploadConflict
<1>11. ASSUME NEW u \in Uploads, UpdateFilePath(u)
      PROVE  TypeInv'
  BY <1>11 DEF UpdateFilePath, UploadDoc
<1>12. ASSUME NEW u \in Uploads, EnqueueUpload(u)
      PROVE  TypeInv'
  BY <1>12 DEF EnqueueUpload, UploadDoc, Paths
<1>13. ASSUME NEW u \in Uploads, EnqueueUploadFails(u)
      PROVE  TypeInv'
  BY <1>13 DEF EnqueueUploadFails, UploadDoc, Paths, ReleaseRow
<1>14. ASSUME NEW u \in Uploads, CommitUpload(u)
      PROVE  TypeInv'
  BY <1>14 DEF CommitUpload, ReleaseRow
<1>15. ASSUME NEW u \in Uploads, AbortUpload(u)
      PROVE  TypeInv'
  BY <1>15 DEF AbortUpload, CloseFile, ReleaseRow, OpenTransaction
<1>16. QED
  BY <1>1, <1>2, <1>3, <1>4, <1>5, <1>6, <1>7, <1>8, <1>9, <1>10, <1>11, <1>12, <1>13, <1>14, <1>15 DEF ApiStep

-----------------------------------------------------------------------------
LEMMA NextTypeInv == TypeInv /\ [Next]_vars => TypeInv'
<1> SUFFICES ASSUME TypeInv, [Next]_vars PROVE TypeInv'
  OBVIOUS
<1>1. ASSUME NEW w \in Workers, NEW d \in Docs, Deliver(w, d), UNCHANGED apiVars
      PROVE  TypeInv'
  BY <1>1 DEF Deliver, TypeInv, TypeOK, Grounded, StoreTypeOK, WorkerTypeOK, ApiTypeOK,
       apiVars, ingestVars, uploadVars, storeVars, rowVars, redisVars, Goto, WorkerStates
<1>2. ASSUME NEW w \in Workers, WorkerStep(w), UNCHANGED apiVars
      PROVE  TypeInv'
  BY <1>2, WorkerTypeInv
<1>3. CASE ApiNext
  BY <1>3, ApiTypeInv DEF ApiNext
<1>4. ASSUME NEW d \in Docs, Retry(d)
      PROVE  TypeInv'
  BY <1>4, StoreAssumption DEF Retry, RetryDocument, TypeInv, TypeOK, Grounded, StoreTypeOK,
       WorkerTypeOK, ApiTypeOK, apiVars, ingestVars, uploadVars, workerVars, sessionVars,
       redisVars, DocumentStatus
<1>5. CASE UNCHANGED vars
  BY <1>5 DEF vars, TypeInv, TypeOK, Grounded, StoreTypeOK, WorkerTypeOK, ApiTypeOK,
       apiVars, ingestVars, uploadVars, workerVars, sessionVars, redisVars, storeVars, rowVars
<1>6. QED
  BY <1>1, <1>2, <1>3, <1>4, <1>5 DEF Next, WorkerNext

(* Every reachable state is well typed and grounded, whatever fails.       *)
THEOREM TypeCorrect == Spec => []TypeInv
  BY TypeInvInit, NextTypeInv, PTL DEF Spec

(* In particular the variables of store, workers and API have their types. *)
THEOREM TypesHold == Spec => []TypeOK
<1>1. TypeInv => TypeOK
  BY DEF TypeInv
<1>2. QED
  BY <1>1, TypeCorrect, PTL

-----------------------------------------------------------------------------
(* All that one step can do to the row of a document, as far as status,    *)
(* retry_count and the count of claims go.  Overwrite is a write of DONE   *)
(* or FAILED over any status: a session decides it on the row it cached.   *)
SameCounts(d) == claims'[d] = claims[d] /\ retryCount'[d] = retryCount[d]

Stutters(d) == status'[d] = status[d] /\ SameCounts(d)
Appears(d) == status[d] = "ABSENT" /\ status'[d] = "PENDING" /\ SameCounts(d)
Overwrites(d) == status'[d] \in {"DONE", "FAILED"} /\ SameCounts(d)
Claims(d) ==
    /\ status[d] = "PENDING" /\ status'[d] = "PROCESSING"
    /\ claims'[d] = claims[d] + 1 /\ retryCount'[d] = retryCount[d]
Reopens(d) ==
    /\ OperatorRetry
    /\ status[d] = "FAILED" /\ status'[d] = "PENDING"
    /\ claims'[d] = claims[d] /\ retryCount'[d] = retryCount[d] + 1

Moves(d) == Stutters(d) \/ Appears(d) \/ Overwrites(d) \/ Claims(d) \/ Reopens(d)

(* Only a PENDING row is claimed.                                          *)
LEMMA ClaimableIsPending ==
  ASSUME TypeInv, NEW d \in Docs, Claimable(d)
  PROVE  status[d] = "PENDING"
  BY DEF Claimable, UpdateAllowed, TypeInv, TypeOK, StoreTypeOK, DocumentStatus

LEMMA WriteStatusMoves ==
  ASSUME TypeInv, NEW d \in Docs, NEW e, NEW s, NEW cache0, WriteStatus(e, s, cache0)
  PROVE  status'[d] = IF d = e THEN s ELSE status[d]
  BY DEF WriteStatus, TypeInv, TypeOK, StoreTypeOK

LEMMA WorkerMoves ==
  ASSUME TypeInv, NEW w \in Workers, WorkerStep(w), NEW d \in Docs
  PROVE  Moves(d)
<1> USE DEF Moves, Stutters, Overwrites, SameCounts, storeVars, rowVars
<1>1. CASE Claim(w) \/ ClaimFails(w)
  <2>1. job[w] \in Docs
    BY <1>1 DEF Claim, ClaimFails, TypeInv, Grounded
  <2>2. CASE UNCHANGED <<status, claims>>
    BY <1>1, <2>2 DEF Claim, ClaimFails
  <2>3. CASE /\ Claimable(job[w])
             /\ WriteStatus(job[w], "PROCESSING", RowOf(job[w]))
             /\ claims' = [claims EXCEPT ![job[w]] = @ + 1]
    <3>1. UNCHANGED retryCount
      BY <1>1 DEF Claim, ClaimFails
    <3>2. status[job[w]] = "PENDING"
      BY <2>1, <2>3, ClaimableIsPending
    <3>3. status'[d] = IF d = job[w] THEN "PROCESSING" ELSE status[d]
      BY <2>3, WriteStatusMoves
    <3>4. claims'[d] = IF d = job[w] THEN claims[d] + 1 ELSE claims[d]
      BY <2>3 DEF TypeInv, TypeOK, WorkerTypeOK
    <3>5. QED
      BY <3>1, <3>2, <3>3, <3>4 DEF Claims
  <2>4. QED
    BY <1>1, <2>2, <2>3 DEF Claim, ClaimFails
<1>2. CASE Finish(w) \/ FinishFails(w)
  BY <1>2, WriteStatusMoves DEF Finish, FinishFails
<1>3. CASE MarkFailedCommit(w) \/ MarkFailedFails(w)
  BY <1>3, WriteStatusMoves DEF MarkFailedCommit, MarkFailedFails
<1>4. CASE UNCHANGED <<status, retryCount, claims>>
  BY <1>4
<1>5. QED
  BY <1>1, <1>2, <1>3, <1>4
     DEF WorkerStep, WorkerRuns, WorkerFault, ReadRetryKey, ClaimRefused, ReadFile, ReadFileFails, FailProcessing,
         IndexChunks, IndexChunksFails, Unlink, MarkFailedRead, MarkFailedRefused,
         ClearRetry, ClearRetryFails, IncrRetry, PushDlq, AcknowledgeDeadLetter, Acknowledge, Abandon

LEMMA ApiMoves ==
  ASSUME TypeInv, ApiStep, UNCHANGED workerVars, NEW d \in Docs
  PROVE  Moves(d)
<1> USE DEF Moves, Stutters, SameCounts, workerVars
<1>1. ASSUME NEW i \in Ingests, NEW e \in Docs, Ingest(i, e)
      PROVE  Moves(d)
  BY <1>1 DEF Ingest, CreateDocument, Appears, TypeInv, TypeOK, StoreTypeOK
<1>2. ASSUME NEW i \in Ingests, MarkEnqueueFailed(i)
      PROVE  Moves(d)
  BY <1>2, WriteStatusMoves DEF MarkEnqueueFailed, Overwrites
<1>3. CASE UNCHANGED <<status, retryCount>>
  BY <1>3
<1>4. QED
  BY <1>1, <1>2, <1>3
     DEF ApiStep, IngestDuplicate, EnqueueIngest, EnqueueIngestFails, EndIngest, OpenFile,
         SaveFile, LookupDocument, UploadConflict, UpdateFilePath, EnqueueUpload,
         EnqueueUploadFails, CommitUpload, AbortUpload, storeVars, rowVars

LEMMA DocumentMoves ==
  ASSUME TypeInv, [Next]_vars, NEW d \in Docs
  PROVE  Moves(d)
<1>1. ASSUME NEW w \in Workers, NEW e \in Docs, Deliver(w, e)
      PROVE  Moves(d)
  BY <1>1 DEF Deliver, Moves, Stutters, SameCounts, storeVars, rowVars
<1>2. ASSUME NEW w \in Workers, WorkerStep(w)
      PROVE  Moves(d)
  BY <1>2, WorkerMoves
<1>3. CASE ApiNext
  BY <1>3, ApiMoves DEF ApiNext
<1>4. ASSUME NEW e \in Docs, Retry(e)
      PROVE  Moves(d)
  BY <1>4 DEF Retry, RetryDocument, Moves, Stutters, Reopens, SameCounts, workerVars,
              TypeInv, TypeOK, StoreTypeOK
<1>5. CASE UNCHANGED vars
  BY <1>5 DEF vars, Moves, Stutters, SameCounts, storeVars, rowVars, workerVars
<1>6. QED
  BY <1>1, <1>2, <1>3, <1>4, <1>5 DEF Next, WorkerNext

-----------------------------------------------------------------------------
(* A document is marked PROCESSING at most 1 + retry_count times, however  *)
(* many workers there are, however often its job is delivered and whatever *)
(* fails.                                                                  *)
THEOREM ClaimsAreBounded == Spec => []ClaimsBounded
<1>1. Init => ClaimsBounded
  <2> SUFFICES ASSUME Init, NEW d \in Docs PROVE claims[d] <= retryCount[d] + Attempted(d)
    BY DEF ClaimsBounded
  <2>1. claims[d] = 0 /\ retryCount[d] = 0 /\ status[d] = "ABSENT"
    BY DEF Init, StoreInit, WorkerInit
  <2>2. QED
    BY <2>1 DEF Attempted
<1>2. TypeInv /\ ClaimsBounded /\ [Next]_vars => ClaimsBounded'
  <2> SUFFICES ASSUME TypeInv, ClaimsBounded, [Next]_vars, NEW d \in Docs
               PROVE  claims'[d] <= retryCount'[d] + Attempted(d)'
    BY DEF ClaimsBounded
  <2>1. /\ claims[d] <= retryCount[d] + Attempted(d)
        /\ claims[d] \in Nat /\ retryCount[d] \in Nat
    BY StoreAssumption DEF ClaimsBounded, TypeInv, TypeOK, StoreTypeOK, WorkerTypeOK
  <2>2. Moves(d)
    BY DocumentMoves
  <2>3. QED
    BY <2>1, <2>2 DEF Moves, Stutters, Appears, Overwrites, Claims, Reopens, SameCounts,
                      Attempted
<1>3. QED
  BY <1>1, <1>2, TypeCorrect, PTL DEF Spec

-----------------------------------------------------------------------------
(* A step of one worker leaves the others where they are.                  *)
LEMMA OtherWorkersStay ==
  ASSUME TypeInv, NEW w \in Workers, WorkerStep(w), NEW v \in Workers, v # w
  PROVE  pc'[v] = pc[v] /\ job'[v] = job[v]
  BY DEF WorkerStep, WorkerRuns, WorkerFault, ReadRetryKey, Claim, ClaimRefused, ClaimFails, ReadFile, ReadFileFails,
         FailProcessing, IndexChunks, IndexChunksFails, Finish, FinishFails, Unlink,
         MarkFailedRead, MarkFailedCommit, MarkFailedRefused, MarkFailedFails, LeaveMarkFailed,
         ClearRetry, ClearRetryFails, IncrRetry, PushDlq, AcknowledgeDeadLetter, Acknowledge, Abandon, Release,
         Goto, sessionVars, TypeInv, TypeOK, WorkerTypeOK

(* A worker keeps its job or lets go of it.                                *)
LEMMA WorkerKeepsJob ==
  ASSUME TypeInv, NEW w \in Workers, WorkerStep(w)
  PROVE  job'[w] \in {job[w], None}
<1> USE DEF sessionVars, TypeInv, TypeOK, WorkerTypeOK, Release, FailProcessing, LeaveMarkFailed
<1>1. CASE \/ ReadRetryKey(w) \/ Claim(w) \/ ClaimRefused(w) \/ ClaimFails(w) \/ ReadFile(w)
           \/ ReadFileFails(w) \/ IndexChunks(w) \/ IndexChunksFails(w) \/ Finish(w)
           \/ FinishFails(w) \/ Unlink(w)
  BY <1>1 DEF ReadRetryKey, Claim, ClaimRefused, ClaimFails, ReadFile, ReadFileFails,
              IndexChunks, IndexChunksFails, Finish, FinishFails, Unlink
<1>2. CASE \/ MarkFailedRead(w) \/ MarkFailedCommit(w) \/ MarkFailedRefused(w)
           \/ MarkFailedFails(w)
  BY <1>2 DEF MarkFailedRead, MarkFailedCommit, MarkFailedRefused, MarkFailedFails
<1>3. CASE \/ ClearRetry(w) \/ ClearRetryFails(w) \/ IncrRetry(w) \/ PushDlq(w)
           \/ AcknowledgeDeadLetter(w) \/ Acknowledge(w) \/ Abandon(w)
  BY <1>3 DEF ClearRetry, ClearRetryFails, IncrRetry, PushDlq, AcknowledgeDeadLetter, Acknowledge, Abandon
<1> QED
  BY <1>1, <1>2, <1>3 DEF WorkerStep, WorkerRuns, WorkerFault

(* A worker comes to process a document only by claiming it.               *)
LEMMA ProcessingIsClaimed ==
  ASSUME TypeInv, NEW w \in Workers, WorkerStep(w), NEW d \in Docs,
         Processing(w, d)', ~ Processing(w, d)
  PROVE  Claim(w) /\ job[w] = d
<1> USE DEF Processing, Goto, TypeInv, TypeOK, WorkerTypeOK, sessionVars, Release,
            FailProcessing, LeaveMarkFailed
<1>1. CASE Claim(w)
  BY <1>1 DEF Claim
<1>2. CASE ReadFile(w) \/ IndexChunks(w)
  BY <1>2 DEF ReadFile, IndexChunks
<1>3. CASE \/ ReadRetryKey(w) \/ ClaimRefused(w) \/ ClaimFails(w) \/ ReadFileFails(w)
           \/ IndexChunksFails(w) \/ Finish(w) \/ FinishFails(w) \/ Unlink(w)
  BY <1>3 DEF ReadRetryKey, ClaimRefused, ClaimFails, ReadFileFails, IndexChunksFails, Finish,
              FinishFails, Unlink
<1>4. CASE \/ MarkFailedRead(w) \/ MarkFailedCommit(w) \/ MarkFailedRefused(w)
           \/ MarkFailedFails(w)
  BY <1>4 DEF MarkFailedRead, MarkFailedCommit, MarkFailedRefused, MarkFailedFails
<1>5. CASE \/ ClearRetry(w) \/ ClearRetryFails(w) \/ IncrRetry(w) \/ PushDlq(w)
           \/ AcknowledgeDeadLetter(w) \/ Acknowledge(w) \/ Abandon(w)
  BY <1>5 DEF ClearRetry, ClearRetryFails, IncrRetry, PushDlq, AcknowledgeDeadLetter, Acknowledge, Abandon
<1>6. QED
  BY <1>1, <1>2, <1>3, <1>4, <1>5 DEF WorkerStep, WorkerRuns, WorkerFault

(* Exclusion is inductive together with this: the row of a document that   *)
(* is being processed has left PENDING, and without retry_document it can  *)
(* not come back.                                                          *)
ProcessingNotPending ==
    \A w \in Workers, d \in Docs :
        Processing(w, d) => status[d] \notin {"ABSENT", "PENDING"}

ExclusionInv == ProcessingNotPending /\ ClaimExclusive

LEMMA WorkerExclusion ==
  ASSUME TypeInv, ExclusionInv, ~ OperatorRetry, NEW w \in Workers, WorkerStep(w),
         \A d \in Docs : Moves(d)
  PROVE  ExclusionInv'
<1> USE DEF ExclusionInv
<1>1. ASSUME NEW v \in Workers, NEW d \in Docs, Processing(v, d)'
      PROVE  \/ Processing(v, d)
             \/ v = w /\ status[d] = "PENDING" /\ status'[d] = "PROCESSING"
  <2>1. CASE v # w
    BY <1>1, <2>1, OtherWorkersStay DEF Processing
  <2>2. CASE v = w /\ ~ Processing(v, d)
    <3>1. Claim(w) /\ job[w] = d
      BY <1>1, <2>2, ProcessingIsClaimed
    <3>2. /\ Claimable(d)
          /\ WriteStatus(d, "PROCESSING", RowOf(d))
      BY <3>1 DEF Claim
    <3>3. QED
      BY <2>2, <3>2, ClaimableIsPending, WriteStatusMoves
  <2>3. QED
    BY <2>1, <2>2
<1>2. ProcessingNotPending'
  <2> SUFFICES ASSUME NEW v \in Workers, NEW d \in Docs, Processing(v, d)'
               PROVE  status'[d] \notin {"ABSENT", "PENDING"}
    BY DEF ProcessingNotPending
  <2>1. Moves(d)
    OBVIOUS
  <2>2. QED
    BY <1>1, <2>1 DEF ProcessingNotPending, Moves, Stutters, Appears, Overwrites, Claims,
                      Reopens
<1>3. ClaimExclusive'
  <2> SUFFICES ASSUME NEW u \in Workers, NEW v \in Workers, NEW d \in Docs,
                      Processing(u, d)', Processing(v, d)'
               PROVE  u = v
    BY DEF ClaimExclusive
  <2>1. QED
    BY <1>1 DEF ClaimExclusive, ProcessingNotPending
<1>4. QED
  BY <1>2, <1>3

LEMMA ExclusionInvariant ==
  ASSUME ~ OperatorRetry
  PROVE  Spec => []ExclusionInv
<1>1. Init => ExclusionInv
  BY DEF Init, WorkerInit, ExclusionInv, ProcessingNotPending, ClaimExclusive, Processing
<1>2. TypeInv /\ ExclusionInv /\ [Next]_vars => ExclusionInv'
  <2> SUFFICES ASSUME TypeInv, ExclusionInv, [Next]_vars PROVE ExclusionInv'
    OBVIOUS
  <2>1. \A d \in Docs : Moves(d)
    BY DocumentMoves
  <2>2. ASSUME NEW w \in Workers, WorkerStep(w)
        PROVE  ExclusionInv'
    BY <2>1, <2>2, WorkerExclusion
  <2>3. ASSUME \A w \in Workers, d \in Docs : Processing(w, d)' => Processing(w, d)
        PROVE  ExclusionInv'
    BY <2>1, <2>3 DEF ExclusionInv, ProcessingNotPending, ClaimExclusive, Moves, Stutters,
                      Appears, Overwrites, Claims, Reopens
  <2>4. ASSUME NEW w \in Workers, NEW d \in Docs, Deliver(w, d)
        PROVE  ExclusionInv'
    <3>1. \A v \in Workers, e \in Docs : Processing(v, e)' => Processing(v, e)
      BY <2>4 DEF Deliver, Goto, Processing, TypeInv, TypeOK, WorkerTypeOK
    <3>2. QED
      BY <2>3, <3>1
  <2>5. CASE UNCHANGED workerVars
    BY <2>3, <2>5 DEF workerVars, sessionVars, Processing
  <2>6. QED
    BY <2>2, <2>4, <2>5 DEF Next, WorkerNext, ApiNext, Retry, vars
<1>3. QED
  BY <1>1, <1>2, TypeCorrect, PTL DEF Spec

(* Unless somebody calls retry_document, at most one worker at a time      *)
(* reads, indexes and finishes a document.                                 *)
THEOREM ClaimsAreExclusive ==
  ASSUME ~ OperatorRetry
  PROVE  Spec => []ClaimExclusive
<1>1. ExclusionInv => ClaimExclusive
  BY DEF ExclusionInv
<1>2. QED
  BY <1>1, ExclusionInvariant, PTL

-----------------------------------------------------------------------------
(* Workers that have found the retry counter of d below its limit and have *)
(* not left it behind yet: each of them may still count one failure.       *)
Attempting == {"claim", "unlink", "clear", "incr"} \cup Reading \cup MarkingFailed
Attempts(d) == {w \in Workers : job[w] = d /\ pc[w] \in Attempting}

(* What the counter can become, with all the failures still to be counted, *)
(* never gets beyond the bound.                                            *)
RetryInv ==
    \A d \in Docs : retryKey[d] + Resends * Cardinality(Attempts(d))
                        < MaxRetries + Resends * Cardinality(Workers)

LEMMA AttemptsFinite ==
  ASSUME NEW d
  PROVE  /\ IsFiniteSet(Attempts(d)) /\ Cardinality(Attempts(d)) \in Nat
         /\ Cardinality(Workers) \in Nat
         /\ Cardinality(Attempts(d)) <= Cardinality(Workers)
<1>1. Attempts(d) \in SUBSET Workers
  BY DEF Attempts
<1> QED
  BY <1>1, WorkerAssumption, FS_Subset, FS_CardinalityType

(* A step of a worker begins an attempt below the limit, counts a failure  *)
(* and ends the attempt, or does neither.                                  *)
LEMMA RetrySteps ==
  ASSUME TypeInv, NEW w \in Workers, WorkerStep(w)
  PROVE  \/ /\ pc[w] = "begin" /\ retryKey[job[w]] < MaxRetries
            /\ UNCHANGED <<job, retryKey>>
         \/ /\ pc[w] = "incr" /\ pc'[w] = "idle"
            /\ \E n \in 1..Resends : retryKey' = [retryKey EXCEPT ![job[w]] = @ + n]
         \/ /\ \A d \in Docs : retryKey'[d] <= retryKey[d]
            /\ pc'[w] \in Attempting => pc[w] \in Attempting /\ job'[w] = job[w]
<1> USE DEF Attempting, Goto, TypeInv, TypeOK, WorkerTypeOK, sessionVars, redisVars, Release,
            FailProcessing, LeaveMarkFailed
<1>1. CASE ReadRetryKey(w)
  BY <1>1, StoreAssumption DEF ReadRetryKey, StoreTypeOK, Grounded
<1>2. CASE IncrRetry(w)
  BY <1>2 DEF IncrRetry
<1>3. CASE ClearRetry(w) \/ ClearRetryFails(w)
  BY <1>3 DEF ClearRetry, ClearRetryFails
<1>4. CASE \/ Claim(w) \/ ClaimRefused(w) \/ ClaimFails(w) \/ ReadFile(w) \/ ReadFileFails(w)
           \/ IndexChunks(w) \/ IndexChunksFails(w) \/ Finish(w) \/ FinishFails(w)
  BY <1>4 DEF Claim, ClaimRefused, ClaimFails, ReadFile, ReadFileFails, IndexChunks,
              IndexChunksFails, Finish, FinishFails
<1>5. CASE \/ Unlink(w) \/ MarkFailedRead(w) \/ MarkFailedCommit(w) \/ MarkFailedRefused(w)
           \/ MarkFailedFails(w)
  BY <1>5 DEF Unlink, MarkFailedRead, MarkFailedCommit, MarkFailedRefused, MarkFailedFails
<1>6. CASE PushDlq(w) \/ AcknowledgeDeadLetter(w) \/ Acknowledge(w) \/ Abandon(w)
  BY <1>6 DEF PushDlq, AcknowledgeDeadLetter, Acknowledge, Abandon
<1> QED
  BY <1>1, <1>2, <1>3, <1>4, <1>5, <1>6 DEF WorkerStep, WorkerRuns, WorkerFault

LEMMA WorkerRetryInv ==
  ASSUME TypeInv, TypeInv', RetryInv, NEW w \in Workers, WorkerStep(w)
  PROVE  RetryInv'
<1> SUFFICES ASSUME NEW d \in Docs
             PROVE  retryKey'[d] + Resends * Cardinality(Attempts(d)')
                        < MaxRetries + Resends * Cardinality(Workers)
  BY DEF RetryInv, Resends
<1> DEFINE before == Cardinality(Attempts(d))
           after == Cardinality(Attempts(d)')
           all == Cardinality(Workers)
<1>1. /\ retryKey[d] \in Nat /\ retryKey'[d] \in Nat /\ MaxRetries \in Nat
      /\ before \in Nat /\ after \in Nat /\ all \in Nat /\ after <= all
      /\ Resends \in {1, 2}
      /\ retryKey[d] + Resends * before < MaxRetries + Resends * all
  <2>1. retryKey[d] \in Nat /\ retryKey'[d] \in Nat /\ MaxRetries \in Nat
    BY StoreAssumption DEF TypeInv, TypeOK, WorkerTypeOK
  <2>2. after \in Nat /\ after <= all
    <3>1. Attempts(d)' \in SUBSET Workers
      BY DEF Attempts
    <3> QED
      BY <3>1, WorkerAssumption, FS_Subset, FS_CardinalityType
  <2>3. before \in Nat /\ all \in Nat
    BY AttemptsFinite
  <2>4. Resends \in {1, 2} /\ retryKey[d] + Resends * before < MaxRetries + Resends * all
    BY DEF Resends, RetryInv
  <2> QED
    BY <2>1, <2>2, <2>3, <2>4
<1>2. job[w] \in Docs \/ pc[w] = "idle"
  BY DEF TypeInv, Grounded
<1>3. \A v \in Workers : v # w => (v \in Attempts(d)' <=> v \in Attempts(d))
  BY OtherWorkersStay DEF Attempts
<1>4. (Attempts(d)' \subseteq Attempts(d)) => after <= before
  <2> SUFFICES ASSUME Attempts(d)' \subseteq Attempts(d) PROVE after <= before
    OBVIOUS
  <2> QED
    BY AttemptsFinite, FS_Subset
<1>5. (w \in Attempts(d) /\ w \notin Attempts(d)') => after = before - 1
  <2> SUFFICES ASSUME w \in Attempts(d), w \notin Attempts(d)' PROVE after = before - 1
    OBVIOUS
  <2>1. Attempts(d)' = Attempts(d) \ {w}
    BY <1>3 DEF Attempts
  <2> QED
    BY <2>1, AttemptsFinite, FS_RemoveElement
<1>6. CASE pc[w] = "begin" /\ retryKey[job[w]] < MaxRetries /\ UNCHANGED <<job, retryKey>>
  <2>1. CASE job[w] = d
    BY <1>1, <1>6, <2>1
  <2>2. CASE job[w] # d
    <3>1. Attempts(d)' \subseteq Attempts(d)
      BY <1>3, <1>6, <2>2 DEF Attempts
    <3> QED
      BY <1>1, <1>4, <1>6, <3>1
  <2> QED
    BY <2>1, <2>2
<1>7. ASSUME pc[w] = "incr", pc'[w] = "idle", NEW n \in 1..Resends,
             retryKey' = [retryKey EXCEPT ![job[w]] = @ + n]
      PROVE  retryKey'[d] + Resends * after < MaxRetries + Resends * all
  <2>1. w \notin Attempts(d)'
    BY <1>7 DEF Attempts, Attempting
  <2>2. CASE job[w] = d
    <3>1. w \in Attempts(d)
      BY <1>7, <2>2 DEF Attempts, Attempting
    <3>2. retryKey'[d] <= retryKey[d] + Resends
      BY <1>1, <1>7, <2>2 DEF TypeInv, TypeOK, WorkerTypeOK
    <3> QED
      BY <1>1, <1>5, <2>1, <3>1, <3>2
  <2>3. CASE job[w] # d
    <3>1. Attempts(d)' \subseteq Attempts(d) /\ retryKey'[d] = retryKey[d]
      BY <1>3, <1>7, <2>1, <2>3 DEF Attempts, TypeInv, TypeOK, WorkerTypeOK
    <3> QED
      BY <1>1, <1>4, <3>1
  <2> QED
    BY <2>2, <2>3
<1>8. CASE /\ \A e \in Docs : retryKey'[e] <= retryKey[e]
           /\ pc'[w] \in Attempting => pc[w] \in Attempting /\ job'[w] = job[w]
  <2>1. Attempts(d)' \subseteq Attempts(d)
    BY <1>3, <1>8 DEF Attempts
  <2> QED
    BY <1>1, <1>4, <1>8, <2>1
<1> QED
  BY <1>6, <1>7, <1>8, RetrySteps

(* However the workers interleave reading the counter of a document with   *)
(* incrementing it, the counter stays below MAX_RETRIES plus one overshoot *)
(* for each worker (two where Redis resends).                              *)
THEOREM RetryKeyIsBounded == Spec => []RetryKeyBounded
<1>1. Init => RetryInv
  <2> SUFFICES ASSUME Init, NEW d \in Docs
               PROVE  retryKey[d] + Resends * Cardinality(Attempts(d))
                        < MaxRetries + Resends * Cardinality(Workers)
    BY DEF RetryInv
  <2>1. Attempts(d) = {} /\ retryKey[d] = 0
    BY DEF Init, WorkerInit, Attempts, Attempting
  <2>2. Cardinality(Workers) \in Nat /\ Cardinality(Workers) >= 0 /\ Cardinality({}) = 0
    BY WorkerAssumption, FS_CardinalityType, FS_EmptySet
  <2> QED
    BY <2>1, <2>2, StoreAssumption DEF Resends
<1>2. TypeInv /\ TypeInv' /\ RetryInv /\ [Next]_vars => RetryInv'
  <2> SUFFICES ASSUME TypeInv, TypeInv', RetryInv, [Next]_vars PROVE RetryInv'
    OBVIOUS
  <2>1. ASSUME NEW w \in Workers, NEW d \in Docs, Deliver(w, d)
        PROVE  RetryInv'
    <3>1. \A e \in Docs : Attempts(e)' = Attempts(e) /\ retryKey' = retryKey
      BY <2>1 DEF Deliver, Attempts, Attempting, Goto, redisVars, TypeInv, TypeOK, WorkerTypeOK
    <3> QED
      BY <3>1 DEF RetryInv, Resends
  <2>2. ASSUME NEW w \in Workers, WorkerStep(w)
        PROVE  RetryInv'
    BY <2>2, WorkerRetryInv
  <2>3. CASE UNCHANGED workerVars
    <3>1. \A e \in Docs : Attempts(e)' = Attempts(e) /\ retryKey' = retryKey
      BY <2>3 DEF workerVars, sessionVars, redisVars, Attempts
    <3> QED
      BY <3>1 DEF RetryInv, Resends
  <2> QED
    BY <2>1, <2>2, <2>3 DEF Next, WorkerNext, ApiNext, Retry, vars
<1>3. TypeInv /\ RetryInv => RetryKeyBounded
  <2> SUFFICES ASSUME TypeInv, RetryInv, NEW d \in Docs
               PROVE  retryKey[d] < MaxRetries + Resends * Cardinality(Workers)
    BY DEF RetryKeyBounded
  <2>1. /\ Cardinality(Attempts(d)) \in Nat /\ Cardinality(Workers) \in Nat
        /\ Resends \in {1, 2} /\ retryKey[d] \in Nat /\ MaxRetries \in Nat
    BY AttemptsFinite, StoreAssumption DEF Resends, TypeInv, TypeOK, WorkerTypeOK
  <2> QED
    BY <2>1 DEF RetryInv
<1>4. QED
  BY <1>1, <1>2, <1>3, TypeCorrect, PTL DEF Spec

-----------------------------------------------------------------------------
(* What the index holds of a document: nothing before anybody processes    *)
(* it or while its worker reads, exactly the worker's text when it         *)
(* finishes.  A document being processed is not DONE, so nobody touches    *)
(* the points of a DONE one.                                               *)
Blank(d) == \A c \in ChunkIds : index[d][c] = None
Holds(d, t) == \A c \in ChunkIds : index[d][c] = IF c <= ChunkCount[t] THEN t ELSE None

BlankBefore == \A d \in Docs : status[d] \in {"ABSENT", "PENDING"} => Blank(d)

ProcessingIndex ==
    \A w \in Workers, d \in Docs : Processing(w, d) =>
        /\ status[d] # "DONE"
        /\ pc[w] \in {"read", "index"} => Blank(d)
        /\ pc[w] = "finish" => \/ Blank(d) /\ text[w] = None
                               \/ Holds(d, text[w]) /\ text[w] # None

DoneHoldsOne ==
    \A d \in Docs : status[d] = "DONE" => Blank(d) \/ \E t \in Contents : Holds(d, t)

IndexInv == BlankBefore /\ ProcessingIndex /\ DoneHoldsOne

(* Only a worker at its second transaction makes a document DONE.          *)
LEMMA DoneIsWrittenByFinish ==
  ASSUME TypeInv, NEW w \in Workers, WorkerStep(w), NEW d \in Docs,
         status[d] # "DONE", status'[d] = "DONE"
  PROVE  pc[w] = "finish" /\ job[w] = d /\ pc'[w] \notin Reading /\ UNCHANGED index
<1> USE DEF storeVars, rowVars, sessionVars, Goto, TypeInv, TypeOK, WorkerTypeOK
<1>1. CASE Claim(w) \/ ClaimFails(w)
  BY <1>1, WriteStatusMoves DEF Claim, ClaimFails
<1>2. CASE Finish(w) \/ FinishFails(w)
  BY <1>2, WriteStatusMoves DEF Finish, FinishFails, Grounded
<1>3. CASE MarkFailedCommit(w) \/ MarkFailedFails(w)
  BY <1>3, WriteStatusMoves DEF MarkFailedCommit, MarkFailedFails
<1>4. CASE UNCHANGED status
  BY <1>4
<1> QED
  BY <1>1, <1>2, <1>3, <1>4
     DEF WorkerStep, WorkerRuns, WorkerFault, ReadRetryKey, ClaimRefused, ReadFile,
         ReadFileFails, FailProcessing, IndexChunks, IndexChunksFails, Unlink, MarkFailedRead,
         MarkFailedRefused, ClearRetry, ClearRetryFails, IncrRetry, PushDlq, AcknowledgeDeadLetter, Acknowledge,
         Abandon

(* No API request makes a document DONE.                                   *)
LEMMA ApiNeverDone ==
  ASSUME TypeInv, ApiStep, NEW d \in Docs, status'[d] = "DONE"
  PROVE  status[d] = "DONE"
<1>1. ASSUME NEW i \in Ingests, NEW e \in Docs, Ingest(i, e)
      PROVE  status[d] = "DONE"
  BY <1>1 DEF Ingest, CreateDocument, TypeInv, TypeOK, StoreTypeOK
<1>2. ASSUME NEW i \in Ingests, MarkEnqueueFailed(i)
      PROVE  status[d] = "DONE"
  BY <1>2, WriteStatusMoves DEF MarkEnqueueFailed
<1>3. CASE UNCHANGED status
  BY <1>3
<1> QED
  BY <1>1, <1>2, <1>3
     DEF ApiStep, IngestDuplicate, EnqueueIngest, EnqueueIngestFails, EndIngest, OpenFile,
         SaveFile, LookupDocument, UploadConflict, UpdateFilePath, EnqueueUpload,
         EnqueueUploadFails, CommitUpload, AbortUpload, storeVars, rowVars

(* The index of a document changes only while its worker is indexing.      *)
LEMMA IndexIsWrittenByIndexing ==
  ASSUME TypeInv, NEW w \in Workers, WorkerStep(w), NEW d \in Docs, index'[d] # index[d]
  PROVE  /\ pc[w] = "index" /\ job[w] = d /\ UNCHANGED <<text, status>>
         /\ pc'[w] \in Reading => /\ pc'[w] = "finish"
                                  /\ UpsertChunks(d, text[w], ChunkCount[text[w]])
<1>1. CASE IndexChunks(w)
  BY <1>1 DEF IndexChunks, UpsertChunks, Goto, sessionVars, storeVars, rowVars, TypeInv, TypeOK,
              WorkerTypeOK
<1>2. CASE IndexChunksFails(w)
  BY <1>2 DEF IndexChunksFails, FailProcessing, UpsertChunks, Goto, sessionVars, rowVars,
              TypeInv, TypeOK, WorkerTypeOK
<1>3. CASE UNCHANGED index
  BY <1>3
<1> QED
  BY <1>1, <1>2, <1>3
     DEF WorkerStep, WorkerRuns, WorkerFault, ReadRetryKey, Claim, ClaimRefused, ClaimFails,
         ReadFile, ReadFileFails, Finish, FinishFails, Unlink, MarkFailedRead,
         MarkFailedCommit, MarkFailedRefused, MarkFailedFails, ClearRetry, ClearRetryFails,
         IncrRetry, PushDlq, AcknowledgeDeadLetter, Acknowledge, Abandon

(* The text of a worker that goes on processing changes only when it reads *)
(* the file.                                                               *)
LEMMA ProcessingSteps ==
  ASSUME TypeInv, NEW w \in Workers, WorkerStep(w), NEW v \in Workers, NEW d \in Docs,
         Processing(v, d), Processing(v, d)'
  PROVE  \/ UNCHANGED <<pc[v], text[v]>>
         \/ /\ v = w /\ pc[v] = "read" /\ UNCHANGED index
            /\ pc'[v] = "index" \/ (pc'[v] = "finish" /\ text'[v] = None)
         \/ /\ v = w /\ pc[v] = "index" /\ pc'[v] = "finish" /\ UNCHANGED text
            /\ text[v] \in Contents
            /\ UpsertChunks(d, text[v], ChunkCount[text[v]])
<1> USE DEF Processing, Goto, sessionVars, TypeInv, TypeOK, WorkerTypeOK, Release,
            FailProcessing, LeaveMarkFailed, CloseSession
<1>1. CASE ReadFile(w)
  <2>1. CASE v = w
    BY <1>1, <2>1 DEF ReadFile
  <2>2. CASE v # w
    BY <1>1, <2>2 DEF ReadFile
  <2> QED
    BY <2>1, <2>2
<1>2. CASE IndexChunks(w)
  BY <1>2 DEF IndexChunks, Grounded
<1>3. CASE \/ ReadRetryKey(w) \/ Claim(w) \/ ClaimRefused(w) \/ ClaimFails(w)
           \/ ReadFileFails(w) \/ IndexChunksFails(w) \/ Finish(w) \/ FinishFails(w)
  BY <1>3 DEF ReadRetryKey, Claim, ClaimRefused, ClaimFails, ReadFileFails, IndexChunksFails,
              Finish, FinishFails
<1>4. CASE \/ Unlink(w) \/ MarkFailedRead(w) \/ MarkFailedCommit(w) \/ MarkFailedRefused(w)
           \/ MarkFailedFails(w)
  BY <1>4 DEF Unlink, MarkFailedRead, MarkFailedCommit, MarkFailedRefused, MarkFailedFails
<1>5. CASE \/ ClearRetry(w) \/ ClearRetryFails(w) \/ IncrRetry(w) \/ PushDlq(w)
           \/ AcknowledgeDeadLetter(w) \/ Acknowledge(w) \/ Abandon(w)
  BY <1>5 DEF ClearRetry, ClearRetryFails, IncrRetry, PushDlq, AcknowledgeDeadLetter, Acknowledge, Abandon
<1> QED
  BY <1>1, <1>2, <1>3, <1>4, <1>5 DEF WorkerStep, WorkerRuns, WorkerFault

LEMMA UpsertOnBlank ==
  ASSUME TypeInv, NEW d \in Docs, Blank(d), NEW t \in Contents,
         UpsertChunks(d, t, ChunkCount[t])
  PROVE  Holds(d, t)'
  BY WorkerAssumption DEF UpsertChunks, Blank, Holds, TypeInv, TypeOK, WorkerTypeOK

LEMMA WorkerIndexInv ==
  ASSUME TypeInv, TypeInv', ExclusionInv, IndexInv, ~ OperatorRetry, NEW w \in Workers,
         WorkerStep(w), \A d \in Docs : Moves(d)
  PROVE  IndexInv'
<1> USE DEF ExclusionInv, IndexInv
<1>1. \A d \in Docs : status'[d] \in {"ABSENT", "PENDING"} => status[d] \in {"ABSENT", "PENDING"}
  BY DEF Moves, Stutters, Appears, Overwrites, Claims, Reopens
<1>2. \A d \in Docs : index'[d] # index[d] => Processing(w, d) /\ UNCHANGED status
  BY IndexIsWrittenByIndexing DEF Processing
<1>3. BlankBefore'
  BY <1>1, <1>2 DEF BlankBefore, ProcessingNotPending, Blank
<1>4. ProcessingIndex'
  <2> SUFFICES ASSUME NEW v \in Workers, NEW d \in Docs, Processing(v, d)'
               PROVE  /\ status'[d] # "DONE"
                      /\ pc'[v] \in {"read", "index"} => Blank(d)'
                      /\ pc'[v] = "finish" => \/ Blank(d)' /\ text'[v] = None
                                              \/ Holds(d, text[v])' /\ text'[v] # None
    BY DEF ProcessingIndex, Processing, Blank, Holds
  <2>1. CASE ~ Processing(v, d)
    <3>1. v = w
      BY <2>1, OtherWorkersStay DEF Processing
    <3>2. Claim(w) /\ job[w] = d
      BY <2>1, <3>1, ProcessingIsClaimed
    <3>3. /\ Claimable(d) /\ WriteStatus(d, "PROCESSING", RowOf(d))
          /\ pc'[w] = "read" /\ UNCHANGED index
      BY <3>2 DEF Claim, Goto, TypeInv, TypeOK, WorkerTypeOK
    <3>4. status[d] = "PENDING" /\ status'[d] = "PROCESSING"
      BY <3>3, ClaimableIsPending, WriteStatusMoves
    <3> QED
      BY <3>1, <3>3, <3>4 DEF BlankBefore, Blank
  <2>2. CASE Processing(v, d)
    <3>1. status'[d] # "DONE"
      <4> SUFFICES ASSUME status'[d] = "DONE" PROVE FALSE
        OBVIOUS
      <4>1. status[d] # "DONE"
        BY <2>2 DEF ProcessingIndex
      <4>2. Processing(w, d) /\ pc'[w] \notin Reading
        BY <4>1, DoneIsWrittenByFinish DEF Processing
      <4>3. v = w
        BY <2>2, <4>2 DEF ClaimExclusive
      <4> QED
        BY <4>2, <4>3 DEF Processing
    <3>2. CASE UNCHANGED <<pc[v], text[v]>>
      <4>1. index'[d] = index[d]
        <5> SUFFICES ASSUME index'[d] # index[d] PROVE FALSE
          OBVIOUS
        <5>1. Processing(w, d)
          BY <1>2
        <5>2. v = w
          BY <2>2, <5>1 DEF ClaimExclusive
        <5> QED
          BY <3>2, <5>2, IndexIsWrittenByIndexing DEF Processing
      <4>2. /\ pc[v] \in {"read", "index"} => Blank(d)
            /\ pc[v] = "finish" => \/ Blank(d) /\ text[v] = None
                                   \/ Holds(d, text[v]) /\ text[v] # None
        BY <2>2 DEF ProcessingIndex
      <4> QED
        BY <3>1, <3>2, <4>1, <4>2 DEF Blank, Holds
    <3>3. CASE /\ pc[v] = "read" /\ UNCHANGED index
               /\ pc'[v] = "index" \/ (pc'[v] = "finish" /\ text'[v] = None)
      BY <2>2, <3>1, <3>3 DEF ProcessingIndex, Blank
    <3>4. CASE /\ pc[v] = "index" /\ pc'[v] = "finish" /\ UNCHANGED text
               /\ text[v] \in Contents
               /\ UpsertChunks(d, text[v], ChunkCount[text[v]])
      <4>1. Blank(d)
        BY <2>2, <3>4 DEF ProcessingIndex
      <4>2. Holds(d, text[v])'
        <5>1. \A t \in Contents : UpsertChunks(d, t, ChunkCount[t]) => Holds(d, t)'
          BY <4>1, UpsertOnBlank
        <5> QED
          BY <3>4, <5>1 DEF Holds
      <4> QED
        BY <3>1, <3>4, <4>2, StoreAssumption
    <3> QED
      BY <2>2, <3>2, <3>3, <3>4, ProcessingSteps
  <2> QED
    BY <2>1, <2>2
<1>5. DoneHoldsOne'
  <2> SUFFICES ASSUME NEW d \in Docs, status'[d] = "DONE"
               PROVE  Blank(d)' \/ \E t \in Contents : Holds(d, t)'
    BY DEF DoneHoldsOne, Blank, Holds
  <2>1. CASE status[d] = "DONE"
    <3>1. ~ Processing(w, d)
      BY <2>1 DEF ProcessingIndex
    <3>2. index'[d] = index[d]
      BY <1>2, <3>1
    <3> QED
      BY <2>1, <3>2 DEF DoneHoldsOne, Blank, Holds
  <2>2. CASE status[d] # "DONE"
    <3>1. Processing(w, d) /\ pc[w] = "finish" /\ UNCHANGED index
      BY <2>2, DoneIsWrittenByFinish DEF Processing
    <3>2. Blank(d) \/ (Holds(d, text[w]) /\ text[w] # None)
      BY <3>1 DEF ProcessingIndex
    <3>3. text[w] \in Contents \cup {None}
      BY DEF TypeInv, TypeOK, WorkerTypeOK
    <3> QED
      BY <3>1, <3>2, <3>3 DEF Blank, Holds
  <2> QED
    BY <2>1, <2>2
<1> QED
  BY <1>3, <1>4, <1>5

(* Without retry_document a DONE document finds one text in the index, or  *)
(* nothing.  Which text that can be, DocumentFileProofs says.              *)
LEMMA IndexInvariant ==
  ASSUME ~ OperatorRetry
  PROVE  Spec => [](ExclusionInv /\ IndexInv)
<1>1. Init => IndexInv
  BY DEF Init, StoreInit, WorkerInit, IndexInv, BlankBefore, Blank, ProcessingIndex, Processing,
         DoneHoldsOne
<1>2. TypeInv /\ TypeInv' /\ ExclusionInv /\ IndexInv /\ [Next]_vars => IndexInv'
  <2> SUFFICES ASSUME TypeInv, TypeInv', ExclusionInv, IndexInv, [Next]_vars PROVE IndexInv'
    OBVIOUS
  <2>1. \A d \in Docs : Moves(d)
    BY DocumentMoves
  <2>2. ASSUME NEW w \in Workers, WorkerStep(w)
        PROVE  IndexInv'
    BY <2>1, <2>2, WorkerIndexInv
  <2>3. ASSUME UNCHANGED <<index, text>>,
               \A d \in Docs : status'[d] = "DONE" => status[d] = "DONE",
               \A w \in Workers, d \in Docs :
                  Processing(w, d)' => Processing(w, d) /\ pc'[w] = pc[w]
        PROVE  IndexInv'
    <3>1. BlankBefore'
      BY <2>1, <2>3 DEF IndexInv, BlankBefore, Blank, Moves, Stutters, Appears, Overwrites,
                        Claims, Reopens
    <3>2. ProcessingIndex'
      BY <2>3 DEF IndexInv, ProcessingIndex, Blank, Holds
    <3>3. DoneHoldsOne'
      BY <2>3 DEF IndexInv, DoneHoldsOne, Blank, Holds
    <3> QED
      BY <3>1, <3>2, <3>3 DEF IndexInv
  <2>4. ASSUME NEW w \in Workers, NEW d \in Docs, Deliver(w, d)
        PROVE  IndexInv'
    BY <2>3, <2>4 DEF Deliver, Goto, Processing, storeVars, rowVars, TypeInv, TypeOK, WorkerTypeOK
  <2>5. CASE ApiNext
    <3>1. \A d \in Docs : status'[d] = "DONE" => status[d] = "DONE"
      BY <2>5, ApiNeverDone DEF ApiNext
    <3> QED
      BY <2>3, <2>5, <3>1 DEF ApiNext, workerVars, sessionVars, Processing
  <2>6. CASE UNCHANGED vars
    BY <2>3, <2>6 DEF vars, storeVars, rowVars, workerVars, sessionVars, Processing
  <2> QED
    BY <2>2, <2>4, <2>5, <2>6 DEF Next, WorkerNext, Retry
<1>3. QED
  BY <1>1, <1>2, ExclusionInvariant, TypeCorrect, PTL DEF Spec

(* Without retry_document, no delivery of a job touches the points of a    *)
(* document that is DONE.                                                  *)
THEOREM DoneIndexIsKept ==
  ASSUME ~ OperatorRetry
  PROVE  Spec => DoneIndexStays
<1>1. TypeInv /\ IndexInv /\ [Next]_vars
        => [\A d \in Docs : status[d] = "DONE" => index'[d] = index[d]]_vars
  <2> SUFFICES ASSUME TypeInv, IndexInv, Next, NEW d \in Docs, status[d] = "DONE",
                      index'[d] # index[d]
               PROVE  FALSE
    OBVIOUS
  <2>1. ASSUME NEW w \in Workers, WorkerStep(w)
        PROVE  FALSE
    <3>1. Processing(w, d)
      BY <2>1, IndexIsWrittenByIndexing DEF Processing
    <3> QED
      BY <3>1 DEF IndexInv, ProcessingIndex
  <2>2. CASE UNCHANGED index
    BY <2>2
  <2> QED
    BY <2>1, <2>2 DEF Next, WorkerNext, ApiNext, Retry, Deliver, workerVars
<1>2. QED
  BY <1>1, IndexInvariant, TypeCorrect, PTL DEF Spec, DoneIndexStays

(* The step that makes a document DONE is that of a worker all of whose    *)
(* chunks are in the index at that moment.                                 *)
THEOREM DoneOnlyWhenIndexed ==
  ASSUME ~ OperatorRetry
  PROVE  Spec => DoneMeansIndexed
<1>1. TypeInv /\ ExclusionInv /\ IndexInv /\ [Next]_vars
        => [\A d \in Docs : status[d] # "DONE" /\ status'[d] = "DONE" =>
               \E w \in Workers : /\ Processing(w, d)
                                  /\ text[w] = None \/ Indexed(d, text[w])]_vars
  <2> SUFFICES ASSUME TypeInv, IndexInv, Next, NEW d \in Docs,
                      status[d] # "DONE", status'[d] = "DONE"
               PROVE  \E w \in Workers : /\ Processing(w, d)
                                         /\ text[w] = None \/ Indexed(d, text[w])
    OBVIOUS
  <2>1. ASSUME NEW w \in Workers, WorkerStep(w)
        PROVE  Processing(w, d) /\ (text[w] = None \/ Indexed(d, text[w]))
    <3>1. Processing(w, d) /\ pc[w] = "finish"
      BY <2>1, DoneIsWrittenByFinish DEF Processing
    <3>2. text[w] = None \/ (Holds(d, text[w]) /\ text[w] \in Contents)
      BY <3>1 DEF IndexInv, ProcessingIndex, TypeInv, TypeOK, WorkerTypeOK
    <3> QED
      BY <3>1, <3>2, WorkerAssumption DEF Holds, Indexed, ChunkIds
  <2>2. ASSUME NEW w \in Workers, NEW e \in Docs, Deliver(w, e)
        PROVE  FALSE
    BY <2>2 DEF Deliver, storeVars, rowVars
  <2>3. CASE ApiNext
    BY <2>3, ApiNeverDone DEF ApiNext
  <2> QED
    BY <2>1, <2>2, <2>3 DEF Next, WorkerNext, Retry
<1>2. QED
  BY <1>1, IndexInvariant, TypeCorrect, PTL DEF Spec, DoneMeansIndexed

-----------------------------------------------------------------------------
(* A worker that is not between its claim and the end of mark_failed has   *)
(* no row in its session.                                                  *)
NothingCached ==
    \A w \in Workers :
        pc[w] \in {"idle", "begin", "claim", "clear", "incr", "dlqPush", "dlqRead", "dlqAck", "ack"}
           => cache[w] = NoCache

LEMMA WorkerNothingCached ==
  ASSUME TypeInv, NothingCached, NEW w \in Workers, WorkerStep(w)
  PROVE  NothingCached'
<1> USE DEF NothingCached, Goto, sessionVars, TypeInv, TypeOK, WorkerTypeOK, Release,
            FailProcessing, LeaveMarkFailed, CloseSession
<1>1. CASE ReadRetryKey(w) \/ Claim(w) \/ ClaimRefused(w) \/ ClaimFails(w)
  BY <1>1 DEF ReadRetryKey, Claim, ClaimRefused, ClaimFails
<1>2. CASE \/ ReadFile(w) \/ ReadFileFails(w) \/ IndexChunks(w) \/ IndexChunksFails(w)
           \/ Finish(w) \/ FinishFails(w) \/ Unlink(w)
  BY <1>2 DEF ReadFile, ReadFileFails, IndexChunks, IndexChunksFails, Finish, FinishFails, Unlink
<1>3. CASE \/ MarkFailedRead(w) \/ MarkFailedCommit(w) \/ MarkFailedRefused(w)
           \/ MarkFailedFails(w)
  BY <1>3 DEF MarkFailedRead, MarkFailedCommit, MarkFailedRefused, MarkFailedFails
<1>4. CASE \/ ClearRetry(w) \/ ClearRetryFails(w) \/ IncrRetry(w) \/ PushDlq(w)
           \/ AcknowledgeDeadLetter(w) \/ Acknowledge(w) \/ Abandon(w)
  BY <1>4 DEF ClearRetry, ClearRetryFails, IncrRetry, PushDlq, AcknowledgeDeadLetter, Acknowledge, Abandon
<1> QED
  BY <1>1, <1>2, <1>3, <1>4 DEF WorkerStep, WorkerRuns, WorkerFault

LEMMA NothingCachedInvariant == Spec => []NothingCached
<1>1. Init => NothingCached
  BY DEF Init, WorkerInit, NothingCached
<1>2. TypeInv /\ NothingCached /\ [Next]_vars => NothingCached'
  <2> SUFFICES ASSUME TypeInv, NothingCached, [Next]_vars PROVE NothingCached'
    OBVIOUS
  <2>1. ASSUME NEW w \in Workers, NEW d \in Docs, Deliver(w, d)
        PROVE  NothingCached'
    BY <2>1 DEF Deliver, Goto, NothingCached, TypeInv, TypeOK, WorkerTypeOK
  <2>2. ASSUME NEW w \in Workers, WorkerStep(w)
        PROVE  NothingCached'
    BY <2>2, WorkerNothingCached
  <2>3. CASE UNCHANGED workerVars
    BY <2>3 DEF workerVars, sessionVars, NothingCached
  <2> QED
    BY <2>1, <2>2, <2>3 DEF Next, WorkerNext, ApiNext, Retry, vars
<1> QED
  BY <1>1, <1>2, TypeCorrect, PTL DEF Spec

-----------------------------------------------------------------------------
(* With one worker and no failing enqueue, the status a session caches is  *)
(* still that of the row whenever update_status would let it be replaced:  *)
(* nobody else writes the row of a document that is PENDING or PROCESSING. *)
CacheIsCurrent ==
    /\ \A i \in Ingests : ingestPc[i] # "markFailed"
    /\ \A w \in Workers :
         /\ pc[w] \in Reading => /\ cache[w].status = "PROCESSING"
                                 /\ status[job[w]] = "PROCESSING"
         /\ pc[w] = "failRead" => \/ cache[w] = NoCache
                                  \/ /\ cache[w].status = "PROCESSING"
                                     /\ status[job[w]] = "PROCESSING"
         /\ pc[w] \in {"failWrite", "dlqWrite"} /\ cache[w].status \in {"PENDING", "PROCESSING"}
               => status[job[w]] = cache[w].status

LifecycleStep == Lifecycle!Next \/ UNCHANGED <<status, retryCount>>

(* FAILED is written over what the session holds only when that is PENDING *)
(* or PROCESSING.                                                          *)
LEMMA FailOverOpen ==
  ASSUME NEW s \in DocumentStatus \cup {"ABSENT"}, NEW r, UpdateAllowed(s, "FAILED", r)
  PROVE  s \in {"PENDING", "PROCESSING"}
  BY DEF UpdateAllowed, DocumentStatus

LEMMA WorkerLifecycle ==
  ASSUME TypeInv, NothingCached, CacheIsCurrent, \A v, w \in Workers : v = w,
         NEW w \in Workers, WorkerStep(w), UNCHANGED apiVars
  PROVE  CacheIsCurrent' /\ LifecycleStep
<1> DEFINE Current == /\ pc'[w] \in Reading => /\ cache'[w].status = "PROCESSING"
                                              /\ status'[job'[w]] = "PROCESSING"
                      /\ pc'[w] = "failRead" => \/ cache'[w] = NoCache
                                               \/ /\ cache'[w].status = "PROCESSING"
                                                  /\ status'[job'[w]] = "PROCESSING"
                      /\ pc'[w] \in {"failWrite", "dlqWrite"}
                            /\ cache'[w].status \in {"PENDING", "PROCESSING"}
                         => status'[job'[w]] = cache'[w].status
<1> SUFFICES Current /\ LifecycleStep
  BY DEF CacheIsCurrent, apiVars, ingestVars
<1> USE DEF CacheIsCurrent, Goto, storeVars, rowVars, sessionVars, TypeInv, TypeOK, Grounded,
            StoreTypeOK, WorkerTypeOK
<1>1. CASE Claim(w) \/ ClaimFails(w)
  <2>1. job[w] \in Docs /\ UNCHANGED <<job, retryCount>>
    BY <1>1 DEF Claim, ClaimFails
  <2>2. CASE WriteStatus(job[w], "PROCESSING", RowOf(job[w])) /\ Claimable(job[w])
    <3>1. Lifecycle!Start(job[w])
      BY <2>1, <2>2, ClaimableIsPending DEF WriteStatus, Lifecycle!Start, Lifecycle!Move
    <3>2. status'[job[w]] = "PROCESSING"
      BY <2>1, <2>2, WriteStatusMoves
    <3>3. Current
      BY <1>1, <2>1, <3>2 DEF Claim, ClaimFails, NothingCached
    <3> QED
      BY <2>1, <3>1, <3>3 DEF LifecycleStep, Lifecycle!Next
  <2>3. CASE UNCHANGED status /\ ClaimFails(w)
    BY <2>1, <2>3 DEF ClaimFails, NothingCached, LifecycleStep
  <2> QED
    BY <1>1, <2>2, <2>3 DEF Claim, ClaimFails
<1>2. CASE Finish(w) \/ FinishFails(w)
  <2>1. job[w] \in Docs /\ status[job[w]] = "PROCESSING" /\ UNCHANGED retryCount
    BY <1>2 DEF Finish, FinishFails
  <2>2. Current
    BY <1>2 DEF Finish, FinishFails
  <2>3. UNCHANGED status \/ WriteStatus(job[w], "DONE", cache[w])
    BY <1>2 DEF Finish, FinishFails
  <2>4. LifecycleStep
    BY <2>1, <2>3 DEF WriteStatus, LifecycleStep, Lifecycle!Next, Lifecycle!Complete,
                      Lifecycle!Move
  <2> QED
    BY <2>2, <2>4
<1>3. CASE MarkFailedCommit(w) \/ MarkFailedFails(w)
  <2>1. job[w] \in Docs /\ UNCHANGED retryCount
    BY <1>3 DEF MarkFailedCommit, MarkFailedFails
  <2>2. Current
    BY <1>3 DEF MarkFailedCommit, MarkFailedFails, LeaveMarkFailed, Release
  <2>3. \/ UNCHANGED status
        \/ /\ pc[w] \in {"failWrite", "dlqWrite"}
           /\ UpdateAllowed(cache[w].status, "FAILED", retryCount[job[w]])
           /\ WriteStatus(job[w], "FAILED", cache[w])
    BY <1>3 DEF MarkFailedCommit, MarkFailedFails
  <2>4. cache[w].status \in DocumentStatus \cup {"ABSENT"}
    BY DEF Cached
  <2>5. LifecycleStep
    BY <2>1, <2>3, <2>4, FailOverOpen
       DEF WriteStatus, LifecycleStep, Lifecycle!Next, Lifecycle!Fail, Lifecycle!Move
  <2> QED
    BY <2>2, <2>5
<1>4. CASE UNCHANGED <<status, retryCount>>
  <2>1. LifecycleStep
    BY <1>4 DEF LifecycleStep
  <2>2. CASE MarkFailedRead(w)
    BY <2>1, <2>2 DEF MarkFailedRead, RowOf, NothingCached, NoCache
  <2>3. CASE \/ ReadRetryKey(w) \/ ClaimRefused(w) \/ ReadFile(w) \/ ReadFileFails(w)
             \/ IndexChunks(w) \/ IndexChunksFails(w) \/ Unlink(w)
    BY <1>4, <2>1, <2>3 DEF ReadRetryKey, ClaimRefused, ReadFile, ReadFileFails, FailProcessing,
                      IndexChunks, IndexChunksFails, Unlink, NothingCached
  <2>4. CASE \/ MarkFailedRefused(w) \/ ClearRetry(w) \/ ClearRetryFails(w) \/ IncrRetry(w)
             \/ PushDlq(w) \/ AcknowledgeDeadLetter(w) \/ Acknowledge(w) \/ Abandon(w)
    BY <2>1, <2>4 DEF MarkFailedRefused, LeaveMarkFailed, Release, ClearRetry, ClearRetryFails,
                IncrRetry, PushDlq, AcknowledgeDeadLetter, Acknowledge, Abandon
  <2> QED
    BY <1>1, <1>2, <1>3, <2>1, <2>2, <2>3, <2>4 DEF WorkerStep, WorkerRuns, WorkerFault
<1> QED
  BY <1>1, <1>2, <1>3, <1>4
     DEF WorkerStep, WorkerRuns, WorkerFault, ReadRetryKey, ClaimRefused, ReadFile,
         ReadFileFails, FailProcessing, IndexChunks, IndexChunksFails, Unlink, MarkFailedRead,
         MarkFailedRefused, ClearRetry, ClearRetryFails, IncrRetry, PushDlq, AcknowledgeDeadLetter, Acknowledge,
         Abandon

(* The rows that nobody but their worker may touch.                        *)
LEMMA OthersKeepOpenRows ==
  ASSUME TypeInv, UNCHANGED workerVars, CacheIsCurrent,
         \A i \in Ingests : ingestPc'[i] # "markFailed",
         \A d \in Docs : status[d] \in {"PENDING", "PROCESSING"} => status'[d] = status[d]
  PROVE  CacheIsCurrent'
  BY DEF CacheIsCurrent, workerVars, sessionVars, TypeInv, Grounded

LEMMA ApiLifecycle ==
  ASSUME TypeInv, CacheIsCurrent, "redis" \notin Faults, ApiStep, UNCHANGED workerVars
  PROVE  CacheIsCurrent' /\ LifecycleStep
<1> USE DEF TypeInv, TypeOK, StoreTypeOK, ApiTypeOK, IngestGoto
<1>1. ASSUME NEW i \in Ingests, NEW d \in Docs, Ingest(i, d)
      PROVE  CacheIsCurrent' /\ LifecycleStep
  <2>1. \A e \in Docs : status[e] \in {"PENDING", "PROCESSING"} => status'[e] = status[e]
    BY <1>1 DEF Ingest, CreateDocument
  <2>2. \A j \in Ingests : ingestPc'[j] # "markFailed"
    BY <1>1 DEF Ingest, CacheIsCurrent
  <2>3. LifecycleStep
    BY <1>1 DEF Ingest, CreateDocument, LifecycleStep, Lifecycle!Next, Lifecycle!Create,
                Lifecycle!Move
  <2> QED
    BY <2>1, <2>2, <2>3, OthersKeepOpenRows
<1>2. ASSUME NEW i \in Ingests, MarkEnqueueFailed(i)
      PROVE  FALSE
  BY <1>2 DEF MarkEnqueueFailed, CacheIsCurrent
<1>3. ASSUME UNCHANGED <<status, retryCount>>,
             \A j \in Ingests : ingestPc'[j] # "markFailed"
      PROVE  CacheIsCurrent' /\ LifecycleStep
  BY <1>3, OthersKeepOpenRows DEF LifecycleStep
<1>4. ASSUME NEW i \in Ingests, NEW d \in Docs, IngestDuplicate(i, d)
      PROVE  CacheIsCurrent' /\ LifecycleStep
  BY <1>3, <1>4 DEF IngestDuplicate, storeVars, rowVars, CacheIsCurrent
<1>5. ASSUME NEW i \in Ingests, EnqueueIngest(i) \/ EnqueueIngestFails(i) \/ EndIngest(i)
      PROVE  CacheIsCurrent' /\ LifecycleStep
  BY <1>3, <1>5 DEF EnqueueIngest, EnqueueIngestFails, EndIngest, storeVars, rowVars,
                    CacheIsCurrent
<1>6. ASSUME NEW u \in Uploads, NEW path \in Paths, OpenFile(u, path)
      PROVE  CacheIsCurrent' /\ LifecycleStep
  BY <1>3, <1>6 DEF OpenFile, rowVars, ingestVars, CacheIsCurrent
<1>7. ASSUME NEW u \in Uploads,
             \/ SaveFile(u) \/ LookupDocument(u) \/ UploadConflict(u) \/ UpdateFilePath(u)
             \/ EnqueueUpload(u) \/ EnqueueUploadFails(u) \/ CommitUpload(u) \/ AbortUpload(u)
      PROVE  CacheIsCurrent' /\ LifecycleStep
  BY <1>3, <1>7 DEF SaveFile, LookupDocument, UploadConflict, UpdateFilePath, EnqueueUpload,
                    EnqueueUploadFails, CommitUpload, AbortUpload, storeVars, rowVars,
                    ingestVars, CacheIsCurrent
<1> QED
  <2> HIDE DEF CacheIsCurrent, LifecycleStep, TypeInv
  <2> QED
    BY <1>1, <1>2, <1>4, <1>5, <1>6, <1>7 DEF ApiStep

(* With one worker, and as long as no enqueue fails, the status of every   *)
(* document moves only as the state machine of DocumentLifecycle does:     *)
(* crashes, redeliveries, failing transactions and stale sessions included.*)
THEOREM ImplementsLifecycle ==
  ASSUME \A v, w \in Workers : v = w, "redis" \notin Faults
  PROVE  Spec => LifecycleSpec
<1>1. Init => CacheIsCurrent /\ Lifecycle!Init
  BY DEF Init, StoreInit, WorkerInit, ApiInit, CacheIsCurrent, Lifecycle!Init
<1>2. TypeInv /\ NothingCached /\ CacheIsCurrent /\ [Next]_vars
        => CacheIsCurrent' /\ [Lifecycle!Next]_<<status, retryCount>>
  <2> SUFFICES ASSUME TypeInv, NothingCached, CacheIsCurrent, [Next]_vars
               PROVE  CacheIsCurrent' /\ LifecycleStep
    BY DEF LifecycleStep
  <2>1. ASSUME NEW w \in Workers, NEW d \in Docs, Deliver(w, d), UNCHANGED apiVars
        PROVE  CacheIsCurrent' /\ LifecycleStep
    BY <2>1 DEF Deliver, Goto, CacheIsCurrent, LifecycleStep, storeVars, rowVars, apiVars,
                ingestVars, TypeInv, TypeOK, WorkerTypeOK
  <2>2. ASSUME NEW w \in Workers, WorkerStep(w), UNCHANGED apiVars
        PROVE  CacheIsCurrent' /\ LifecycleStep
    BY <2>2, WorkerLifecycle
  <2>3. CASE ApiNext
    BY <2>3, ApiLifecycle DEF ApiNext
  <2>4. ASSUME NEW d \in Docs, Retry(d)
        PROVE  CacheIsCurrent' /\ LifecycleStep
    <3>1. LifecycleStep
      BY <2>4 DEF Retry, RetryDocument, LifecycleStep, Lifecycle!Next, Lifecycle!Retry,
                  Lifecycle!Move
    <3>2. \A e \in Docs : status[e] \in {"PENDING", "PROCESSING"} => status'[e] = status[e]
      BY <2>4 DEF Retry, RetryDocument, TypeInv, TypeOK, StoreTypeOK
    <3> QED
      BY <2>4, <3>1, <3>2, OthersKeepOpenRows DEF Retry, apiVars, ingestVars, CacheIsCurrent
  <2>5. CASE UNCHANGED vars
    BY <2>5 DEF vars, storeVars, rowVars, workerVars, sessionVars, apiVars, ingestVars,
                CacheIsCurrent, LifecycleStep
  <2> QED
    BY <2>1, <2>2, <2>3, <2>4, <2>5 DEF Next, WorkerNext
<1>3. QED
  BY <1>1, <1>2, TypeCorrect, NothingCachedInvariant, PTL DEF Spec, LifecycleSpec, Lifecycle!Spec
=============================================================================
