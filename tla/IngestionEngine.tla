--------------------------- MODULE IngestionEngine ---------------------------
(***************************************************************************)
(* The whole engine: requests of the API and workers (DocumentService)     *)
(* joined by the Redis lists (DocumentQueue), so that a job is delivered   *)
(* because it was pushed and not because the environment feels like it.    *)
(* Requests pass the length check of ingest.py and upload.py first.        *)
(*                                                                         *)
(* As in the repository, nobody calls requeue_stale_jobs.  Redis commands  *)
(* fail only with the process that sends them; what lost replies do is in  *)
(* DocumentService.                                                        *)
(***************************************************************************)
EXTENDS DocumentService, Sequences

CONSTANTS QueueMaxLength,   \* settings.QUEUE_MAX_LENGTH
          MaxConcurrent     \* bound: requests the clients have open at a time

ASSUME EngineAssumption ==
    /\ {QueueMaxLength, MaxConcurrent} \subseteq Nat \ {0}
    /\ "redis" \notin Faults
    /\ IsFiniteSet(Ingests) /\ IsFiniteSet(Uploads) /\ Ingests \cap Uploads = {}
    /\ None \notin Nat

VARIABLES pending, processing, dlq, now, at, raw, payload,  \* see DocumentQueue
          sweepAt, items, sweepTime, pushed, settled, taken, lost, stranded,
          admitted,         \* requests that have passed the length check
          alive             \* worker processes that are there

Queue == INSTANCE DocumentQueue WITH
    Consumers <- Workers, Sweepers <- {}, MaxAge <- 1, MaxTime <- 0,
    MaxPushes <- Cardinality(Uploads) + 1

queueVars == <<pending, processing, dlq, now, at, raw, payload,
               sweepAt, items, sweepTime, pushed, settled, taken, lost, stranded>>
engineVars == <<vars, queueVars, admitted, alive>>

EngineInit == Init /\ Queue!Init /\ admitted = {} /\ alive = Workers

-----------------------------------------------------------------------------
(* dequeue: three commands, and then the job is in process.                *)
TakeJob(w) ==
    /\ Queue!Dequeue(w) \/ Queue!RemoveRaw(w)
    /\ UNCHANGED <<storeVars, workerVars>>

StartJob(w) == Queue!PushEnriched(w) /\ Deliver(w, payload[w].doc)

Ending == {"dlqAck", "ack"}

(* What the end of process means to the lists, and every other step.       *)
ListsFollow(w) ==
    \/ pc[w] = "dlqPush" /\ pc'[w] = "dlqRead" /\ Queue!DeadLetterJob(w)
    \/ pc'[w] \in Ending /\ Queue!JobDone(w)
    \/ pc'[w] = "idle" /\ Queue!JobFailed(w)
    \/ pc'[w] \notin Ending \cup {"idle"} /\ pc[w] # "dlqPush" /\ UNCHANGED queueVars

ProcessJob(w) == pc[w] \notin Ending /\ WorkerRuns(w) /\ ListsFollow(w)

AcknowledgeJob(w) ==
    \/ /\ AcknowledgeDeadLetter(w) \/ Acknowledge(w)
       /\ Queue!Acknowledge(w) \/ Queue!AcknowledgeLegacy(w)
    \/ Queue!AcknowledgeMisses(w) /\ UNCHANGED <<storeVars, workerVars>>

EngineWorker(w) ==
    /\ w \in alive
    /\ TakeJob(w) \/ StartJob(w) \/ ProcessJob(w) \/ AcknowledgeJob(w)
    /\ UNCHANGED <<apiVars, admitted, alive>>

(* The database fails a transaction; the worker lives on.                  *)
WorkerFails(w) ==
    /\ w \in alive
    /\ WorkerFault(w) /\ ListsFollow(w)
    /\ UNCHANGED <<apiVars, admitted, alive>>

(* The process dies, idle or in the middle of anything.  Nothing starts it *)
(* again; one that an operator starts in its place is another worker.      *)
WorkerDies(w) ==
    /\ "crash" \in Faults /\ w \in alive
    /\ alive' = alive \ {w}
    /\ \/ at[w] = "idle" /\ UNCHANGED <<storeVars, workerVars, queueVars>>
       \/ at[w] \in {"remove", "replace"} /\ Queue!Crash(w) /\ UNCHANGED <<storeVars, workerVars>>
       \/ Abandon(w) /\ Queue!Crash(w)
    /\ UNCHANGED <<apiVars, admitted>>

-----------------------------------------------------------------------------
Over(r) == IF r \in Ingests THEN ingestPc[r] = "done"
                            ELSE uploadPc[r] \in {"accepted", "failed"}

(* Requests that have read the length of the list and not yet pushed.      *)
InFlight == {r \in admitted : ~ Over(r) /\ (r \in Uploads => uploadPc[r] # "commit")}

(* Mutant: off by one.                                                     *)
QueueOverfull == Len(pending) > QueueMaxLength

QueueFull == Len(pending) >= QueueMaxLength

New(r) == IF r \in Ingests THEN ingestPc[r] = "new" ELSE uploadPc[r] = "new"

Admit(r) ==
    /\ New(r) /\ r \notin admitted
    /\ Cardinality({q \in admitted : ~ Over(q)}) < MaxConcurrent
    /\ ~ QueueFull
    /\ admitted' = admitted \cup {r}
    /\ UNCHANGED <<vars, queueVars, alive>>

IngestStep(i) ==
    /\ \/ i \in admitted /\ \E d \in Docs : Ingest(i, d) \/ IngestDuplicate(i, d)
       \/ i \notin admitted /\ QueueFull /\ EndIngest(i)
    /\ UNCHANGED queueVars

UploadStep(u) ==
    /\ \/ u \in admitted /\ \E path \in Paths : OpenFile(u, path)
       \/ SaveFile(u) \/ LookupDocument(u) \/ UploadConflict(u)
       \/ UpdateFilePath(u) \/ CommitUpload(u)
       \/ u \notin admitted /\ QueueFull /\ AbortUpload(u)
    /\ UNCHANGED queueVars

PushStep(r) ==
    \/ r \in Ingests /\ EnqueueIngest(r) /\ Queue!Enqueue(ingestDoc[r])
    \/ r \in Uploads /\ EnqueueUpload(r) /\ Queue!Enqueue(UploadDoc(r))

EngineRequest(r) ==
    /\ \/ r \in Ingests /\ IngestStep(r)
       \/ r \in Uploads /\ UploadStep(r)
       \/ PushStep(r)
    /\ UNCHANGED <<workerVars, admitted, alive>>

RequestFails(r) ==
    /\ ~ New(r)
    /\ \/ r \in Ingests /\ EndIngest(r)
       \/ r \in Uploads /\ AbortUpload(r)
    /\ UNCHANGED <<workerVars, queueVars, admitted, alive>>

EngineNext ==
    \/ \E w \in Workers :
         EngineWorker(w) \/ WorkerFails(w) \/ WorkerDies(w)
    \/ \E r \in Ingests \cup Uploads : Admit(r) \/ EngineRequest(r) \/ RequestFails(r)

(* Calls of the database, which postgres.py gives no timeout.              *)
WorkerAtDatabase(w) == pc[w] \in {"claim", "finish"} \cup MarkingFailed \cup {"dlqRead", "dlqWrite"}
RequestAtDatabase(r) ==
    IF r \in Ingests THEN ingestPc[r] \in {"new", "markFailed"}
                     ELSE uploadPc[r] \in {"lookup", "update", "commit"}

(* A worker that is there runs, and so does a request that was let in, but *)
(* neither need ever get an answer of the database.  No client has to send *)
(* anything, and no fault and no operator helps anybody who waits.         *)
EngineFairness ==
    /\ \A w \in Workers : WF_engineVars(~ WorkerAtDatabase(w) /\ EngineWorker(w))
    /\ \A r \in Ingests \cup Uploads :
          WF_engineVars(r \in admitted /\ ~ RequestAtDatabase(r) /\ EngineRequest(r))

EngineSpec == EngineInit /\ [][EngineNext]_engineVars /\ EngineFairness

-----------------------------------------------------------------------------
(* The length check bounds documents:pending although requests read the    *)
(* length first and push much later: it is exceeded by less than the       *)
(* number of requests open at a time.                                      *)
Check == INSTANCE Backpressure WITH
    Limit <- QueueMaxLength, Slots <- MaxConcurrent,
    length <- Len(pending), inFlight <- Cardinality(InFlight)

BackpressureSpec == Check!Spec

(* A job leaves documents:processing only after the outcome of its         *)
(* document is committed, whichever worker, delivery or error path got it  *)
(* there: whatever dies later, nothing is left to do for that job.         *)
AcknowledgedIsFinal ==
    \A d \in Docs : settled[d] + taken[d] > 0 => status[d] \in {"DONE", "FAILED"}

(* The premise that the code does not secure: Postgres answers every call. *)
DatabaseAnswers ==
    /\ \A w \in Workers : WF_engineVars(WorkerAtDatabase(w) /\ EngineWorker(w))
    /\ \A r \in Ingests \cup Uploads :
          WF_engineVars(r \in admitted /\ RequestAtDatabase(r) /\ EngineRequest(r))

NobodyBusy ==
    /\ \A w \in Workers : at[w] = "idle"
    /\ \A r \in Ingests \cup Uploads : New(r) \/ Over(r)

(* Then workers and requests come to rest, whatever crashes: no request    *)
(* waits for a row for ever, no worker turns round and round on a job, and *)
(* no job is left waiting while a worker is there to take it.              *)
ComesToRest ==
    DatabaseAnswers => <>[](NobodyBusy /\ (pending = <<>> \/ alive = {}))

Resting == NobodyBusy /\ pending = <<>>

(* What a document can be left in when all is at rest: final; or with a    *)
(* job in documents:processing, which needs a sweep; or its job was lost   *)
(* with a worker; or the request that created it died before it pushed.    *)
RestExplained ==
    Resting => \A d \in Docs :
        \/ status[d] \in {"ABSENT", "DONE", "FAILED"}
        \/ Queue!ForDoc(processing, d) > 0
        \/ lost[d] > 0
        \/ pushed[d] = 0
=============================================================================
