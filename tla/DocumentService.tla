--------------------------- MODULE DocumentService ---------------------------
(***************************************************************************)
(* The API and the workers over one documents table, one upload directory  *)
(* and one vector index, with at-least-once delivery of jobs.              *)
(***************************************************************************)
EXTENDS DocumentWorker, DocumentApi

CONSTANT OperatorRetry  \* whether anybody calls retry_document (only tests do)

ASSUME OperatorAssumption == OperatorRetry \in BOOLEAN

vars == <<storeVars, workerVars, apiVars>>

Init == StoreInit /\ WorkerInit /\ ApiInit

WorkerNext ==
    /\ \/ \E w \in Workers, d \in Docs : Deliver(w, d)
       \/ \E w \in Workers : WorkerStep(w)
    /\ UNCHANGED apiVars

ApiNext == ApiStep /\ UNCHANGED workerVars

Retry(d) ==
    /\ OperatorRetry
    /\ RetryDocument(d)
    /\ UNCHANGED <<workerVars, apiVars>>

Next == WorkerNext \/ ApiNext \/ \E d \in Docs : Retry(d)

Spec == Init /\ [][Next]_vars

-----------------------------------------------------------------------------
TypeOK == StoreTypeOK /\ WorkerTypeOK /\ ApiTypeOK

(* Between the commit that marks a document PROCESSING and the one that    *)
(* makes it DONE.                                                          *)
Processing(w, d) == job[w] = d /\ pc[w] \in Reading

(* However often Redis delivers a job, and whatever crashes or fails, a    *)
(* document is marked PROCESSING at most once, and once more for each      *)
(* retry_document: claims are bounded by 1 + MAX_RETRIES.  This is what    *)
(* the locking read of process, and the final statuses of update_status,   *)
(* are for; it holds although those statuses themselves can be overwritten.*)
Attempted(d) == IF status[d] \in {"ABSENT", "PENDING"} THEN 0 ELSE 1

ClaimsBounded == \A d \in Docs : claims[d] <= retryCount[d] + Attempted(d)

(* No two workers process one document at the same time, so the points of  *)
(* a document come from one pass of the pipeline.                          *)
ClaimExclusive ==
    \A v, w \in Workers, d \in Docs :
        Processing(v, d) /\ Processing(w, d) => v = w

(* The retry counter in Redis stays near its limit although the worker     *)
(* reads it, works, and increments it in three separate commands: each     *)
(* worker can carry it past MAX_RETRIES once (twice with a resent INCR).   *)
RetryKeyBounded ==
    \A d \in Docs : retryKey[d] < MaxRetries + Resends * Cardinality(Workers)

(* A document becomes DONE only when every chunk of what its worker read   *)
(* is in the index, or it had no file to read: no partial upsert, and no   *)
(* second worker, ends in DONE with mixed points.                          *)
Indexed(d, t) == \A c \in 1..ChunkCount[t] : index[d][c] = t

DoneMeansIndexed ==
    [][\A d \in Docs : status[d] # "DONE" /\ status'[d] = "DONE" =>
          \E w \in Workers : /\ Processing(w, d)
                             /\ text[w] = None \/ Indexed(d, text[w])]_vars

(* A PENDING document that has a file path has that file on disk: an       *)
(* upload, and every cleanup that another delivery of the job sets off,    *)
(* leaves the file for the one processing that still needs it.             *)
PendingFileOnDisk ==
    \A d \in Docs : status[d] = "PENDING" /\ filePath[d] # None
                       => disk[filePath[d]] # None

UploadedAs(u, d, n) == uploadPath[u] = <<d, n>>

SharedName(d) ==
    \E u, v \in Uploads, n \in Names : u # v /\ UploadedAs(u, d, n) /\ UploadedAs(v, d, n)

(* What the search of a DONE document finds is nothing, or the whole text  *)
(* of one upload of that document: no point is missing and none comes from *)
(* another upload.  Only where two uploads of it had one file name may it  *)
(* be a part of one of them, or a mixture.  (Without retry_document.)      *)
DoneIndexIsOneText ==
    \A d \in Docs : status[d] = "DONE" =>
        \/ \A c \in ChunkIds : index[d][c] = None
        \/ \E t \in Contents :
             /\ \A c \in ChunkIds : index[d][c] = IF c <= ChunkCount[t] THEN t ELSE None
             /\ IF t = Torn THEN SharedName(d) ELSE \E n \in Names : UploadedAs(t, d, n)

(* README, "Document reprocessed if ack lost": "Safe (idempotent)".  What  *)
(* a search of a DONE document finds stays as it is, whatever delivery of  *)
(* its jobs comes late or again.  (Without retry_document.)                *)
DoneIndexStays ==
    [][\A d \in Docs : status[d] = "DONE" => index'[d] = index[d]]_vars

(* A worker reads half a text, or parts of several, only if two uploads of *)
(* its document had one file name: an upload is saved whole before its row *)
(* names it, but the next one of that name truncates the file in place.    *)
TornNeedsSameName == \A w \in Workers : text[w] = Torn => SharedName(job[w])

Accepted(u, d) == uploadPc[u] = "accepted" /\ UploadDoc(u) = d

(* No file is forgotten: a file in the upload directory is named by its    *)
(* row, or a worker or an upload still has it in hand, or it is of a       *)
(* refused or failed upload - nobody deletes those -, or the document has  *)
(* taken more uploads than one and a later path came in place of this one. *)
(* (A worker that dies before its unlink leaves a file too: no "crash".)   *)
FileHasOwner ==
    \A p \in Paths : disk[p] # None =>
        \/ filePath[p[1]] = p
        \/ \E w \in Workers : cache[w].path = p
        \/ \E u \in Uploads : uploadPath[u] = p /\ uploadPc[u] # "accepted"
        \/ \E u, v \in Uploads : u # v /\ Accepted(u, p[1]) /\ Accepted(v, p[1])

(* With one worker, and as long as no enqueue fails, the status of each    *)
(* document moves as DocumentLifecycle says, through all the steps, stale  *)
(* reads, crashes and redeliveries of this module.                         *)
Lifecycle == INSTANCE DocumentLifecycle
LifecycleSpec == Lifecycle!Spec

-----------------------------------------------------------------------------
(* What the documentation says and the code does not do.                   *)

(* update_status: "DONE is always terminal".  Not so when a session that   *)
(* loaded the row before it was DONE writes FAILED.                        *)
DoneIsTerminal == [][\A d \in Docs : status[d] = "DONE" => status'[d] = "DONE"]_vars

(* README: after a worker crash, "retry overwrites partial work safely".   *)
(* So where nothing ever fails but worker processes, a crash only delays a *)
(* document.  Not so: the redelivered job finds PROCESSING and is refused,   *)
(* and that makes the document FAILED, which is final.                     *)
CrashOnlyDelays == \A d \in Docs : status[d] # "FAILED"

(* upload: "Validates state, saves file, updates metadata, and enqueues    *)
(* for processing".  So when a document that took an upload is DONE, the   *)
(* text of an upload it took is in the index.  Not so when the document is *)
(* claimed between the upload's plain SELECT and its UPDATE.               *)
AcceptedUploadIndexed ==
    \A d \in Docs : status[d] = "DONE" /\ (\E u \in Uploads : Accepted(u, d))
                       => \E u \in Uploads : Accepted(u, d) /\ Indexed(d, u)

(* process: "Acknowledge to remove from processing queue (prevent zombie)".*)
(* Without any fault, a worker that dead-letters a job acknowledges it.    *)
(* Not so when mark_failed refuses because the document is final already.  *)
DeadLetterAcknowledged ==
    [][\A w \in Workers : pc[w] \in DeadLettering
                             => pc'[w] \in DeadLettering \cup {"ack"}]_vars
=============================================================================
