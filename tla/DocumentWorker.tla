---------------------------- MODULE DocumentWorker ----------------------------
(***************************************************************************)
(* The worker loop (document_worker.py) and the pipeline it drives         *)
(* (process.py) against the documents table, the upload directory, the     *)
(* vector index (index.py) and the retry counters in Redis.                *)
(*                                                                         *)
(* Redis delivers at least once: any document that was ever enqueued may   *)
(* be delivered again at any time.  DocumentQueue models the lists.        *)
(***************************************************************************)
EXTENDS DocumentStore, FiniteSets

CONSTANTS Workers,      \* worker processes
          MaxChunks,    \* bound on the chunks of one text
          ChunkCount    \* how many chunks each content is cut into

ChunkIds == 1..MaxChunks

ASSUME WorkerAssumption ==
    /\ MaxChunks \in Nat
    /\ ChunkCount \in [Contents -> 0..MaxChunks]
    /\ IsFiniteSet(Workers) /\ Workers # {}

VARIABLES pc,           \* where each worker stands
          job,          \* the document of the job it holds
          cache,        \* the row its session holds
          text,         \* the content it read
          index,        \* the text of each point, by document and chunk index
          retryKey,     \* documents:retry:<id>
          deadLettered, \* documents a worker pushed to documents:dlq
          claims        \* history: how often a document was marked PROCESSING

sessionVars == <<job, cache, text>>
redisVars == <<retryKey, deadLettered>>
workerVars == <<pc, sessionVars, index, redisVars, claims>>

(* The steps of run, process, process_job, DocumentProcessor.process and   *)
(* mark_failed, in the order they happen.                                  *)
Reading == {"read", "index", "finish"}
MarkingFailed == {"failRead", "failWrite"}
DeadLettering == {"dlqPush", "dlqRead", "dlqWrite", "dlqAck"}
WorkerStates == {"idle", "begin", "claim", "unlink", "clear", "incr", "ack"}
                  \cup Reading \cup MarkingFailed \cup DeadLettering

WorkerTypeOK ==
    /\ pc \in [Workers -> WorkerStates]
    /\ job \in [Workers -> Docs \cup {None}]
    /\ cache \in [Workers -> Cached]
    /\ text \in [Workers -> Contents \cup {None}]
    /\ index \in [Docs -> [ChunkIds -> Contents \cup {None}]]
    /\ retryKey \in [Docs -> Nat]
    /\ deadLettered \subseteq Docs
    /\ claims \in [Docs -> Nat]

WorkerInit ==
    /\ pc = [w \in Workers |-> "idle"]
    /\ job = [w \in Workers |-> None]
    /\ cache = [w \in Workers |-> NoCache]
    /\ text = [w \in Workers |-> None]
    /\ index = [d \in Docs |-> [c \in ChunkIds |-> None]]
    /\ retryKey = [d \in Docs |-> 0]
    /\ deadLettered = {}
    /\ claims = [d \in Docs |-> 0]

Goto(w, next) == pc' = [pc EXCEPT ![w] = next]

(* process_job returns: its session and its locals are gone.               *)
CloseSession(w) ==
    /\ cache' = [cache EXCEPT ![w] = NoCache]
    /\ text' = [text EXCEPT ![w] = None]

(* Back in the loop, or a new process in place of one that died.           *)
Release(w) ==
    /\ Goto(w, "idle")
    /\ job' = [job EXCEPT ![w] = None]
    /\ CloseSession(w)

-----------------------------------------------------------------------------
(* The loop takes a job.                                                   *)
Deliver(w, d) ==
    /\ pc[w] = "idle"
    /\ d \in enqueued
    /\ Goto(w, "begin")
    /\ job' = [job EXCEPT ![w] = d]
    /\ UNCHANGED <<storeVars, cache, text, index, redisVars, claims>>

(* Mutant: the limit is compared for equality.                             *)
ReadRetryKeyEqual(w) ==
    /\ pc[w] = "begin"
    /\ Goto(w, IF retryKey[job[w]] = MaxRetries THEN "dlqPush" ELSE "claim")
    /\ UNCHANGED <<storeVars, sessionVars, index, redisVars, claims>>

ReadRetryKey(w) ==
    /\ pc[w] = "begin"
    /\ Goto(w, IF retryKey[job[w]] >= MaxRetries THEN "dlqPush" ELSE "claim")
    /\ UNCHANGED <<storeVars, sessionVars, index, redisVars, claims>>

(* Mutant: a redelivered job may take over a PROCESSING document.          *)
ClaimableInProgress(d) == UpdateAllowed(status[d], "PROCESSING", retryCount[d])

(* First transaction of process, in a session that has nothing cached: the *)
(* locking read is a fresh one.                                            *)
Claimable(d) ==
    /\ status[d] \notin {"DONE", "PROCESSING"}
    /\ UpdateAllowed(status[d], "PROCESSING", retryCount[d])

Claim(w) ==
    LET d == job[w] IN
    /\ pc[w] = "claim"
    /\ Unlocked(d)
    /\ Claimable(d)
    /\ WriteStatus(d, "PROCESSING", RowOf(d))
    /\ cache' = [cache EXCEPT ![w] = [status |-> "PROCESSING", path |-> filePath[d]]]
    /\ claims' = [claims EXCEPT ![d] = @ + 1]
    /\ Goto(w, "read")
    /\ UNCHANGED <<retryCount, lock, files, enqueued, job, text, index, redisVars>>

(* DocumentNotFound, ProcessingConflict or InvalidStateTransition: rolled  *)
(* back, so the session caches nothing.                                    *)
ClaimRefused(w) ==
    /\ pc[w] = "claim"
    /\ Unlocked(job[w])
    /\ ~ Claimable(job[w])
    /\ Goto(w, "failRead")
    /\ UNCHANGED <<storeVars, sessionVars, index, redisVars, claims>>

(* The database fails the transaction, perhaps after it took effect.       *)
ClaimFails(w) ==
    LET d == job[w] IN
    /\ pc[w] = "claim"
    /\ "db" \in Faults
    /\ \/ UNCHANGED <<status, filePath, claims>>
       \/ /\ Unlocked(d) /\ Claimable(d)
          /\ WriteStatus(d, "PROCESSING", RowOf(d))
          /\ claims' = [claims EXCEPT ![d] = @ + 1]
    /\ Goto(w, "failRead")
    /\ UNCHANGED <<retryCount, lock, files, enqueued, sessionVars, index, redisVars>>

-----------------------------------------------------------------------------
(* Heavy lifting, outside any transaction.  A failure of it removes the    *)
(* file and goes on to mark_failed with the session that claimed.          *)
FailProcessing(w) ==
    /\ DeleteFile(cache[w].path)
    /\ Goto(w, "failRead")
    /\ UNCHANGED <<rowVars, enqueued>>

ReadFile(w) ==
    LET path == cache[w].path IN
    /\ pc[w] = "read"
    /\ path # None => disk[path] # None
    /\ text' = [text EXCEPT ![w] = IF path = None THEN None ELSE disk[path]]
    /\ Goto(w, IF path = None THEN "finish" ELSE "index")
    /\ UNCHANGED <<storeVars, job, cache, index, redisVars, claims>>

(* No such file, an I/O error, or bytes that are not UTF-8.                *)
ReadFileFails(w) ==
    LET path == cache[w].path IN
    /\ pc[w] = "read"
    /\ path # None
    /\ disk[path] = None \/ "file" \in Faults
    /\ FailProcessing(w)
    /\ UNCHANGED <<sessionVars, index, redisVars, claims>>

(* Mutant: the last chunk is left out.                                     *)
UpsertAllButLast(d, t, n) ==
    index' = [index EXCEPT ![d] = [c \in ChunkIds |-> IF c < n THEN t ELSE @[c]]]

(* upsert_chunks overwrites the points of the first n chunk indexes; what  *)
(* an earlier, longer text left beyond them stays.                         *)
UpsertChunks(d, t, n) ==
    index' = [index EXCEPT ![d] = [c \in ChunkIds |-> IF c <= n THEN t ELSE @[c]]]

IndexChunks(w) ==
    /\ pc[w] = "index"
    /\ UpsertChunks(job[w], text[w], ChunkCount[text[w]])
    /\ Goto(w, "finish")
    /\ UNCHANGED <<storeVars, sessionVars, redisVars, claims>>

(* Mutant: the error of the upsert is swallowed.                           *)
IndexChunksSwallowed(w) ==
    /\ pc[w] = "index"
    /\ "qdrant" \in Faults
    /\ \E n \in 0..ChunkCount[text[w]] : UpsertChunks(job[w], text[w], n)
    /\ Goto(w, "finish")
    /\ UNCHANGED <<storeVars, sessionVars, redisVars, claims>>

(* The index fails the upsert after it applied some of the points.         *)
IndexChunksFails(w) ==
    /\ pc[w] = "index"
    /\ "qdrant" \in Faults
    /\ ChunkCount[text[w]] > 0
    /\ \E n \in 0..ChunkCount[text[w]] : UpsertChunks(job[w], text[w], n)
    /\ FailProcessing(w)
    /\ UNCHANGED <<sessionVars, redisVars, claims>>

(* Second transaction of process.  Its locking read returns the object the *)
(* claim loaded, so the status it checks is the one it wrote itself.       *)
Finish(w) ==
    LET d == job[w] IN
    /\ pc[w] = "finish"
    /\ Unlocked(d)
    /\ UpdateAllowed(cache[w].status, "DONE", retryCount[d])
    /\ WriteStatus(d, "DONE", cache[w])
    /\ Goto(w, "unlink")
    /\ UNCHANGED <<retryCount, lock, files, enqueued, sessionVars, index, redisVars, claims>>

(* The database fails it, perhaps after it took effect; the rollback makes *)
(* the session forget the row.                                             *)
FinishFails(w) ==
    LET d == job[w] IN
    /\ pc[w] = "finish"
    /\ "db" \in Faults
    /\ \/ UNCHANGED <<status, filePath>>
       \/ /\ Unlocked(d)
          /\ UpdateAllowed(cache[w].status, "DONE", retryCount[d])
          /\ WriteStatus(d, "DONE", cache[w])
    /\ DeleteFile(cache[w].path)
    /\ cache' = [cache EXCEPT ![w] = NoCache]
    /\ Goto(w, "failRead")
    /\ UNCHANGED <<retryCount, lock, enqueued, job, text, index, redisVars, claims>>

(* Mutant: the file is not deleted.                                        *)
UnlinkNothing(w) ==
    /\ pc[w] = "unlink"
    /\ CloseSession(w)
    /\ Goto(w, "clear")
    /\ UNCHANGED <<storeVars, job, index, redisVars, claims>>

(* Delete the file that was claimed; process and process_job return.       *)
Unlink(w) ==
    /\ pc[w] = "unlink"
    /\ DeleteFile(cache[w].path)
    /\ CloseSession(w)
    /\ Goto(w, "clear")
    /\ UNCHANGED <<rowVars, enqueued, job, index, redisVars, claims>>

-----------------------------------------------------------------------------
(* mark_failed, after a failed attempt (in the session of that attempt) or *)
(* when dead-lettering (in a new session): read the row, unless the        *)
(* session has it, and delete the file seen there.                         *)
MarkFailedRead(w) ==
    LET seen == IF cache[w] = NoCache THEN RowOf(job[w]) ELSE cache[w] IN
    /\ pc[w] \in {"failRead", "dlqRead"}
    /\ DeleteFile(seen.path)
    /\ cache' = [cache EXCEPT ![w] = seen]
    /\ Goto(w, IF pc[w] = "failRead" THEN "failWrite" ELSE "dlqWrite")
    /\ UNCHANGED <<rowVars, enqueued, job, text, index, redisVars, claims>>

(* Mutant: FAILED is written without asking update_status.                 *)
MarkFailedUnchecked(w) ==
    LET d == job[w] IN
    /\ pc[w] \in {"failWrite", "dlqWrite"}
    /\ Unlocked(d)
    /\ WriteStatus(d, "FAILED", cache[w])
    /\ CloseSession(w)
    /\ Goto(w, IF pc[w] = "failWrite" THEN "incr" ELSE "dlqAck")
    /\ UNCHANGED <<retryCount, lock, files, enqueued, job, index, redisVars, claims>>

(* ... then clear the path and set FAILED, if the status seen allows it.   *)
MarkFailedCommit(w) ==
    LET d == job[w] IN
    /\ pc[w] \in {"failWrite", "dlqWrite"}
    /\ Unlocked(d)
    /\ UpdateAllowed(cache[w].status, "FAILED", retryCount[d])
    /\ WriteStatus(d, "FAILED", cache[w])
    /\ CloseSession(w)
    /\ Goto(w, IF pc[w] = "failWrite" THEN "incr" ELSE "dlqAck")
    /\ UNCHANGED <<retryCount, lock, files, enqueued, job, index, redisVars, claims>>

(* InvalidStateTransition: rolled back.  process_job logs it and goes on;  *)
(* dead-lettering does not reach its acknowledge.                          *)
LeaveMarkFailed(w) ==
    IF pc[w] \in MarkingFailed
    THEN Goto(w, "incr") /\ CloseSession(w) /\ UNCHANGED job
    ELSE Release(w)

MarkFailedRefused(w) ==
    /\ pc[w] \in {"failWrite", "dlqWrite"}
    /\ Unlocked(job[w])
    /\ ~ UpdateAllowed(cache[w].status, "FAILED", retryCount[job[w]])
    /\ LeaveMarkFailed(w)
    /\ UNCHANGED <<storeVars, index, redisVars, claims>>

(* The database fails it before or, at the write, after it took effect.    *)
MarkFailedFails(w) ==
    LET d == job[w] IN
    /\ pc[w] \in MarkingFailed \cup {"dlqRead", "dlqWrite"}
    /\ "db" \in Faults
    /\ \/ UNCHANGED <<status, filePath>>
       \/ /\ pc[w] \in {"failWrite", "dlqWrite"}
          /\ Unlocked(d)
          /\ UpdateAllowed(cache[w].status, "FAILED", retryCount[d])
          /\ WriteStatus(d, "FAILED", cache[w])
    /\ LeaveMarkFailed(w)
    /\ UNCHANGED <<retryCount, lock, files, enqueued, index, redisVars, claims>>

-----------------------------------------------------------------------------
(* After process_job: reset the retry counter, or count the failure.       *)
ClearRetry(w) ==
    /\ pc[w] = "clear"
    /\ retryKey' = [retryKey EXCEPT ![job[w]] = 0]
    /\ Goto(w, "ack")
    /\ UNCHANGED <<storeVars, sessionVars, index, deadLettered, claims>>

(* A failing DELETE counts as a failed attempt.                            *)
ClearRetryFails(w) ==
    /\ pc[w] = "clear"
    /\ "redis" \in Faults
    /\ \E n \in {0, retryKey[job[w]]} : retryKey' = [retryKey EXCEPT ![job[w]] = n]
    /\ Goto(w, "incr")
    /\ UNCHANGED <<storeVars, sessionVars, index, deadLettered, claims>>

(* A timed-out INCR is sent again (retry_on_timeout) and may count twice.  *)
Resends == IF "redis" \in Faults THEN 2 ELSE 1

(* Mutant: the failure is counted but not raised again.                    *)
IncrRetryQuietly(w) ==
    /\ pc[w] = "incr"
    /\ \E n \in 1..Resends : retryKey' = [retryKey EXCEPT ![job[w]] = @ + n]
    /\ Goto(w, "ack")
    /\ UNCHANGED <<storeVars, sessionVars, index, deadLettered, claims>>

(* process re-raises: the loop leaves the job in documents:processing.     *)
IncrRetry(w) ==
    /\ pc[w] = "incr"
    /\ \E n \in 1..Resends : retryKey' = [retryKey EXCEPT ![job[w]] = @ + n]
    /\ Release(w)
    /\ UNCHANGED <<storeVars, index, deadLettered, claims>>

PushDlq(w) ==
    /\ pc[w] = "dlqPush"
    /\ deadLettered' = deadLettered \cup {job[w]}
    /\ Goto(w, "dlqRead")
    /\ UNCHANGED <<storeVars, sessionVars, index, retryKey, claims>>

(* process acknowledges a job it dead-lettered, and returns to run, ...    *)
AcknowledgeDeadLetter(w) ==
    /\ pc[w] = "dlqAck"
    /\ Goto(w, "ack")
    /\ UNCHANGED <<storeVars, sessionVars, index, redisVars, claims>>

(* ... which acknowledges every job of which process has returned.         *)
Acknowledge(w) ==
    /\ pc[w] = "ack"
    /\ Release(w)
    /\ UNCHANGED <<storeVars, index, redisVars, claims>>

(* The process dies and is started again, or an error of a Redis command   *)
(* (at "dlqRead": of the LPUSH, after it took effect) ends the attempt.    *)
Abandon(w) ==
    /\ \/ "crash" \in Faults /\ pc[w] # "idle"
       \/ /\ "redis" \in Faults
          /\ pc[w] \in {"begin", "dlqPush", "dlqRead", "dlqAck", "incr", "ack"}
    /\ Release(w)
    /\ UNCHANGED <<storeVars, index, redisVars, claims>>

WorkerRuns(w) ==
    \/ ReadRetryKey(w)
    \/ Claim(w) \/ ClaimRefused(w)
    \/ ReadFile(w) \/ ReadFileFails(w)
    \/ IndexChunks(w) \/ Finish(w) \/ Unlink(w)
    \/ MarkFailedRead(w) \/ MarkFailedCommit(w) \/ MarkFailedRefused(w)
    \/ ClearRetry(w) \/ IncrRetry(w) \/ PushDlq(w)
    \/ AcknowledgeDeadLetter(w) \/ Acknowledge(w)

(* What only a fault makes happen, and no fairness can count on.           *)
WorkerFault(w) ==
    \/ ClaimFails(w) \/ IndexChunksFails(w) \/ FinishFails(w)
    \/ MarkFailedFails(w) \/ ClearRetryFails(w)

WorkerStep(w) == WorkerRuns(w) \/ WorkerFault(w) \/ Abandon(w)
=============================================================================
