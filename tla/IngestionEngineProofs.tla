------------------------ MODULE IngestionEngineProofs ------------------------
(***************************************************************************)
(* Theorems about the whole engine.  First that it is a composition: seen  *)
(* from the service its steps are steps of DocumentService, and seen from  *)
(* the lists steps of DocumentQueue, so that what is proved of the two     *)
(* holds of the engine.  Then what only the two together guarantee.        *)
(***************************************************************************)
EXTENDS IngestionEngine, DocumentServiceProofs, SequenceTheorems

USE DEF files

(* Whatever happens to a worker.                                           *)
StepOf(w) == EngineWorker(w) \/ WorkerFails(w) \/ WorkerDies(w)

(* The service ------------------------------------------------------------*)

LEMMA WorkerIsService ==
  ASSUME TypeInv, NEW w \in Workers, StepOf(w)
  PROVE  WorkerNext \/ UNCHANGED vars
<1>1. UNCHANGED apiVars
  BY DEF StepOf, EngineWorker, WorkerFails, WorkerDies
<1>2. ASSUME UNCHANGED <<storeVars, workerVars>> PROVE UNCHANGED vars
  BY <1>1, <1>2 DEF vars
<1>3. ASSUME WorkerStep(w) PROVE WorkerNext
  BY <1>1, <1>3 DEF WorkerNext
<1>4. ASSUME StartJob(w) PROVE WorkerNext
  <2>1. Deliver(w, payload[w].doc) /\ payload[w].doc \in Docs
    BY <1>4 DEF StartJob, Deliver, TypeInv, TypeOK, StoreTypeOK
  <2> QED
    BY <1>1, <2>1 DEF WorkerNext
<1>5. \/ UNCHANGED <<storeVars, workerVars>> \/ StartJob(w)
      \/ WorkerRuns(w) \/ AcknowledgeDeadLetter(w) \/ Acknowledge(w)
      \/ WorkerFault(w) \/ Abandon(w)
  BY DEF StepOf, EngineWorker, WorkerFails, WorkerDies, TakeJob, ProcessJob, AcknowledgeJob
<1>6. \/ WorkerRuns(w) \/ AcknowledgeDeadLetter(w) \/ Acknowledge(w)
      \/ WorkerFault(w) \/ Abandon(w)
      => WorkerStep(w)
  BY DEF WorkerStep, WorkerRuns
<1> QED
  BY <1>2, <1>3, <1>4, <1>5, <1>6

LEMMA RequestIsService ==
  ASSUME NEW r \in Ingests \cup Uploads, Admit(r) \/ EngineRequest(r) \/ RequestFails(r)
  PROVE  ApiNext \/ UNCHANGED vars
<1>1. CASE Admit(r)
  BY <1>1 DEF Admit
<1>2. CASE EngineRequest(r)
  <2>1. UNCHANGED workerVars
    BY <1>2 DEF EngineRequest
  <2>2. CASE r \in Ingests /\ (IngestStep(r) \/ EnqueueIngest(r))
    BY <2>1, <2>2 DEF IngestStep, ApiNext, ApiStep
  <2>3. CASE r \in Uploads /\ (UploadStep(r) \/ EnqueueUpload(r))
    BY <2>1, <2>3 DEF UploadStep, ApiNext, ApiStep
  <2> QED
    BY <1>2, <2>2, <2>3 DEF EngineRequest, PushStep
<1>3. CASE RequestFails(r)
  <2>1. UNCHANGED workerVars
    BY <1>3 DEF RequestFails
  <2>2. (r \in Ingests /\ EndIngest(r)) \/ (r \in Uploads /\ AbortUpload(r))
    BY <1>3 DEF RequestFails
  <2> QED
    BY <2>1, <2>2 DEF ApiNext, ApiStep
<1> QED
  BY <1>1, <1>2, <1>3

LEMMA EngineStepIsService == TypeInv /\ [EngineNext]_engineVars => [Next]_vars
<1>1. UNCHANGED engineVars => UNCHANGED vars
  BY DEF engineVars
<1> QED
  BY <1>1, WorkerIsService, RequestIsService DEF EngineNext, Next, StepOf

(* What workers and requests do to rows, files and index in the engine is  *)
(* something they do in DocumentService, where any job may be delivered at *)
(* any time: its theorems hold of the engine, whatever the lists do.       *)
THEOREM EngineImplementsService == EngineSpec => Spec
<1>1. EngineInit => Init /\ TypeInv
  BY TypeInvInit DEF EngineInit
<1>2. TypeInv /\ [EngineNext]_engineVars => TypeInv'
  <2>1. TypeInv /\ [Next]_vars => TypeInv'
    BY NextTypeInv
  <2> QED
    BY <2>1, EngineStepIsService
<1> QED
  BY <1>1, <1>2, EngineStepIsService, PTL DEF EngineSpec, Spec

(* The lists --------------------------------------------------------------*)

LEMMA WorkerIsQueue ==
  ASSUME NEW w \in Workers, StepOf(w)
  PROVE  (\E c \in Workers : Queue!ConsumerStep(c)) \/ UNCHANGED queueVars
<1>1. ASSUME ListsFollow(w)
      PROVE  Queue!ConsumerStep(w) \/ UNCHANGED queueVars
  BY <1>1 DEF ListsFollow, Queue!ConsumerStep
<1>2. CASE EngineWorker(w)
  BY <1>1, <1>2 DEF EngineWorker, TakeJob, StartJob, ProcessJob, AcknowledgeJob,
                    Queue!ConsumerStep
<1>3. CASE WorkerFails(w)
  BY <1>1, <1>3 DEF WorkerFails, Queue!ConsumerStep
<1>4. CASE WorkerDies(w)
  BY <1>4 DEF WorkerDies, Queue!ConsumerStep
<1> QED
  BY <1>2, <1>3, <1>4 DEF StepOf

LEMMA RequestIsQueue ==
  ASSUME TypeInv, NEW r \in Ingests \cup Uploads,
         Admit(r) \/ EngineRequest(r) \/ RequestFails(r)
  PROVE  (\E d \in Docs : Queue!Enqueue(d)) \/ UNCHANGED queueVars
<1>1. CASE PushStep(r)
  <2>1. r \in Ingests /\ EnqueueIngest(r) => ingestDoc[r] \in Docs
    BY DEF EnqueueIngest, TypeInv, Grounded
  <2>2. r \in Uploads /\ EnqueueUpload(r) => UploadDoc(r) \in Docs
    BY DEF EnqueueUpload, UploadDoc, TypeInv, Grounded, Paths
  <2> QED
    BY <1>1, <2>1, <2>2 DEF PushStep
<1>2. CASE ~ PushStep(r)
  BY <1>2 DEF Admit, EngineRequest, RequestFails, IngestStep, UploadStep
<1> QED
  BY <1>1, <1>2

(* What the engine does to the lists is something DocumentQueue does with  *)
(* the workers as consumers and without a sweeper.                         *)
THEOREM EngineImplementsQueue == EngineSpec => Queue!Spec
<1>1. EngineInit => Queue!Init
  BY DEF EngineInit
<1>2. TypeInv /\ [EngineNext]_engineVars => [Queue!Next]_(Queue!vars)
  <2>1. UNCHANGED queueVars => UNCHANGED Queue!vars
    BY DEF queueVars, Queue!vars, Queue!lists, Queue!consumerVars, Queue!sweeperVars,
           Queue!history, Queue!ends
  <2>2. UNCHANGED engineVars => UNCHANGED queueVars
    BY DEF engineVars
  <2> QED
    BY <2>1, <2>2, WorkerIsQueue, RequestIsQueue DEF EngineNext, Queue!Next, StepOf
<1> QED
  BY <1>1, <1>2, EngineImplementsService, TypeCorrect, PTL DEF EngineSpec, Queue!Spec

(* The same instance of DocumentQueue, with its theorems.                  *)
QueueTheorems == INSTANCE DocumentQueueProofs WITH
    Consumers <- Workers, Sweepers <- {}, MaxAge <- 1, MaxTime <- 0,
    MaxPushes <- Cardinality(Uploads) + 1

LEMMA QueueConstants ==
  /\ {MaxRetries, 1, 0, Cardinality(Uploads) + 1} \subseteq Nat /\ 1 > 0
  /\ QueueTheorems!IsFiniteSet(Workers) /\ QueueTheorems!IsFiniteSet({})
  /\ None \notin Docs \cup Nat
<1>1. IsFiniteSet(Workers) /\ IsFiniteSet({}) /\ Cardinality(Uploads) \in Nat
  BY WorkerAssumption, EngineAssumption, FS_EmptySet, FS_CardinalityType
<1>2. QueueTheorems!IsFiniteSet(Workers) /\ QueueTheorems!IsFiniteSet({})
  BY <1>1 DEF IsFiniteSet, QueueTheorems!IsFiniteSet
<1> QED
  BY <1>1, <1>2, StoreAssumption, EngineAssumption

LEMMA SameSpec == Queue!Spec => QueueTheorems!Spec
<1> USE DEF Queue!lists, Queue!consumerVars, Queue!sweeperVars, Queue!history, Queue!ends,
            Queue!Plain, Queue!Malformed, QueueTheorems!lists, QueueTheorems!consumerVars,
            QueueTheorems!sweeperVars, QueueTheorems!history, QueueTheorems!ends,
            QueueTheorems!Plain, QueueTheorems!Malformed
<1>1. Queue!Init => QueueTheorems!Init
  BY DEF Queue!Init, QueueTheorems!Init
<1>2. ASSUME NEW list, NEW p
      PROVE  /\ Queue!RemoveFirst(list, p) = QueueTheorems!RemoveFirst(list, p)
             /\ Queue!Contains(list, p) <=> QueueTheorems!Contains(list, p)
             /\ Queue!Last(list) = QueueTheorems!Last(list)
             /\ Queue!Front(list) = QueueTheorems!Front(list)
  BY DEF Queue!RemoveFirst, Queue!RemoveAt, Queue!SelectInSeq, Queue!Min, Queue!Contains,
         Queue!Last, Queue!Front, QueueTheorems!RemoveFirst, QueueTheorems!RemoveAt,
         QueueTheorems!SelectInSeq, QueueTheorems!Min, QueueTheorems!Contains,
         QueueTheorems!Last, QueueTheorems!Front
<1>3. ASSUME NEW p
      PROVE  /\ Queue!PushProcessing(p) <=> QueueTheorems!PushProcessing(p)
             /\ Queue!RemoveProcessing(p) <=> QueueTheorems!RemoveProcessing(p)
             /\ Queue!Enriched(p) = QueueTheorems!Enriched(p)
             /\ Queue!DeadLetter(p) <=> QueueTheorems!DeadLetter(p)
             /\ Queue!Plain(p) = QueueTheorems!Plain(p)
  BY <1>2
  DEF Queue!PushProcessing, Queue!RemoveProcessing, Queue!Enriched, Queue!DeadLetter,
      QueueTheorems!PushProcessing, QueueTheorems!RemoveProcessing, QueueTheorems!Enriched,
      QueueTheorems!DeadLetter
<1>4. ASSUME NEW c
      PROVE  /\ Queue!Return(c) <=> QueueTheorems!Return(c)
             /\ \A next : Queue!ConsumerGoto(c, next) <=> QueueTheorems!ConsumerGoto(c, next)
  BY DEF Queue!Return, Queue!ConsumerGoto, QueueTheorems!Return, QueueTheorems!ConsumerGoto
<1>11. /\ Queue!LegacyOf = QueueTheorems!LegacyOf
       /\ Queue!Acknowledging = QueueTheorems!Acknowledging
       /\ Queue!Legacy = QueueTheorems!Legacy
  BY DEF Queue!LegacyOf, QueueTheorems!LegacyOf, Queue!Acknowledging,
         QueueTheorems!Acknowledging, Queue!Legacy, QueueTheorems!Legacy
<1>12. ASSUME NEW c
       PROVE  /\ Queue!EndAcknowledge(c) <=> QueueTheorems!EndAcknowledge(c)
              /\ \A p : Queue!EndJob(c, p) <=> QueueTheorems!EndJob(c, p)
  BY <1>2, <1>3, <1>4
  DEF Queue!EndAcknowledge, Queue!EndJob, Queue!Count, QueueTheorems!EndAcknowledge,
      QueueTheorems!EndJob, QueueTheorems!Count
<1>5. ASSUME NEW c, Queue!ConsumerStep(c) PROVE QueueTheorems!ConsumerStep(c)
  <2> USE <1>2, <1>3, <1>4, <1>11, <1>12
  <2>1. Queue!Dequeue(c) => QueueTheorems!Dequeue(c)
    BY DEF Queue!Dequeue, QueueTheorems!Dequeue
  <2>2. Queue!RemoveRaw(c) => QueueTheorems!RemoveRaw(c)
    BY DEF Queue!RemoveRaw, QueueTheorems!RemoveRaw
  <2>3. Queue!PushEnriched(c) => QueueTheorems!PushEnriched(c)
    BY DEF Queue!PushEnriched, QueueTheorems!PushEnriched
  <2>4. Queue!RejectMalformed(c) => QueueTheorems!RejectMalformed(c)
    BY DEF Queue!RejectMalformed, QueueTheorems!RejectMalformed
  <2>5. Queue!DropMalformed(c) => QueueTheorems!DropMalformed(c)
    BY DEF Queue!DropMalformed, QueueTheorems!DropMalformed
  <2>6. Queue!DeadLetterJob(c) => QueueTheorems!DeadLetterJob(c)
    BY DEF Queue!DeadLetterJob, QueueTheorems!DeadLetterJob
  <2>7. Queue!JobDone(c) => QueueTheorems!JobDone(c)
    BY DEF Queue!JobDone, QueueTheorems!JobDone
  <2>8. Queue!JobFailed(c) => QueueTheorems!JobFailed(c)
    BY DEF Queue!JobFailed, QueueTheorems!JobFailed
  <2>9. Queue!Acknowledge(c) => QueueTheorems!Acknowledge(c)
    BY DEF Queue!Acknowledge, QueueTheorems!Acknowledge
  <2>10. Queue!AcknowledgeMisses(c) => QueueTheorems!AcknowledgeMisses(c)
    BY DEF Queue!AcknowledgeMisses, QueueTheorems!AcknowledgeMisses
  <2>11. Queue!AcknowledgeLegacy(c) => QueueTheorems!AcknowledgeLegacy(c)
    BY DEF Queue!AcknowledgeLegacy, QueueTheorems!AcknowledgeLegacy
  <2>12. Queue!Crash(c) => QueueTheorems!Crash(c)
    BY DEF Queue!Crash, QueueTheorems!Crash, Queue!Count, QueueTheorems!Count
  <2> QED
    BY <1>5, <2>1, <2>2, <2>3, <2>4, <2>5, <2>6, <2>7, <2>8, <2>9, <2>10, <2>11, <2>12
    DEF Queue!ConsumerStep, QueueTheorems!ConsumerStep
<1>6. Queue!Tick => QueueTheorems!Tick
  BY DEF Queue!Tick, QueueTheorems!Tick
<1>7. ASSUME NEW d, Queue!Enqueue(d) PROVE QueueTheorems!Enqueue(d)
  BY <1>7 DEF Queue!Enqueue, QueueTheorems!Enqueue
<1>8. Queue!EnqueueMalformed => QueueTheorems!EnqueueMalformed
  BY DEF Queue!EnqueueMalformed, QueueTheorems!EnqueueMalformed, Queue!ToSet,
         QueueTheorems!ToSet
<1>9. UNCHANGED Queue!vars => UNCHANGED QueueTheorems!vars
  BY DEF Queue!vars, QueueTheorems!vars
<1>10. Queue!Next => QueueTheorems!Next
  BY <1>5, <1>6, <1>7, <1>8 DEF Queue!Next, QueueTheorems!Next
<1> QED
  BY <1>1, <1>9, <1>10, PTL DEF Queue!Spec, QueueTheorems!Spec

(* What the engine inherits from the lists.                                *)
QueueFacts == QueueTheorems!QueueInv /\ QueueTheorems!JobsKept

LEMMA EngineInherits == EngineSpec => [](TypeInv /\ QueueFacts)
<1>1. QueueTheorems!Spec => []QueueTheorems!QueueInv
  BY QueueConstants, QueueTheorems!QueueInvariant
<1>2. QueueTheorems!Spec => []QueueTheorems!JobsKept
  BY QueueConstants, QueueTheorems!JobsAreKept
<1> QED
  BY <1>1, <1>2, EngineImplementsService, TypeCorrect, EngineImplementsQueue, SameSpec, PTL
  DEF QueueFacts

(* Acknowledged jobs ------------------------------------------------------*)

(* The outcome of a job is committed once its worker is past the commit of *)
(* DONE, or has written FAILED for a job it dead-letters.                  *)
Committed == {"unlink", "clear", "dlqAck", "ack"}
Final(d) == status[d] \in {"DONE", "FAILED"}

(* Service and lists agree about the job a worker holds, and about whether *)
(* it dead-letters it.                                                     *)
HoldsJob(w) ==
    pc[w] # "idle" =>
        /\ at[w] \in {"work", "deadLettered"} \cup Queue!Acknowledging \cup Queue!Legacy
        /\ payload[w].doc = job[w]
        /\ pc[w] \in {"dlqRead", "dlqWrite"} => at[w] = "deadLettered"
        /\ pc[w] = "dlqAck" => at[w] \in {"dlqAck", "dlqLegacy"}

AckInv ==
    /\ \A w \in Workers : HoldsJob(w)
    /\ \A w \in Workers : pc[w] \in Committed => Final(job[w])
    /\ AcknowledgedIsFinal

LEMMA FinalStays ==
  ASSUME TypeInv, [EngineNext]_engineVars, NEW d \in Docs, Final(d)
  PROVE  Final(d)'
<1>1. Moves(d) /\ UNCHANGED retryCount => Final(d)'
  BY DEF Moves, Stutters, Appears, Overwrites, Claims, Reopens, Final, TypeInv, TypeOK,
         StoreTypeOK
<1>2. CASE WorkerNext
  <2>1. ASSUME NEW w \in Workers, WorkerStep(w) PROVE UNCHANGED retryCount
    BY <2>1 DEF WorkerStep, WorkerRuns, WorkerFault, ReadRetryKey, Claim, ClaimRefused,
       ClaimFails, ReadFile, ReadFileFails, FailProcessing, IndexChunks, IndexChunksFails,
       Finish, FinishFails, Unlink, MarkFailedRead, MarkFailedCommit, MarkFailedRefused,
       MarkFailedFails, ClearRetry, ClearRetryFails, IncrRetry, PushDlq,
       AcknowledgeDeadLetter, Acknowledge, Abandon, storeVars, rowVars
  <2>2. ASSUME NEW w \in Workers, NEW e \in Docs, Deliver(w, e) PROVE Final(d)'
    BY <2>2 DEF Deliver, storeVars, rowVars, Final
  <2> QED
    BY <1>1, <1>2, <2>1, <2>2, WorkerMoves DEF WorkerNext
<1>3. CASE ApiNext
  <2>1. UNCHANGED retryCount
    BY <1>3 DEF ApiNext, ApiStep, Ingest, CreateDocument, IngestDuplicate, EnqueueIngest,
       EnqueueIngestFails, MarkEnqueueFailed, EndIngest, OpenFile, SaveFile, CloseFile,
       LookupDocument,
       UploadConflict, UpdateFilePath, EnqueueUpload, EnqueueUploadFails, CommitUpload,
       AbortUpload, storeVars, rowVars
  <2> QED
    BY <1>1, <1>3, <2>1, ApiMoves DEF ApiNext
<1>4. CASE UNCHANGED vars
  BY <1>4 DEF vars, storeVars, rowVars, Final
<1> QED
  BY <1>2, <1>3, <1>4, WorkerIsService, RequestIsService DEF EngineNext, engineVars, StepOf

(* A worker comes to a settled job by committing its outcome.              *)
LEMMA WorkerCommits ==
  ASSUME TypeInv, NEW w \in Workers, WorkerStep(w), pc'[w] \in Committed
  PROVE  /\ job'[w] = job[w]
         /\ pc[w] \in Committed \/ Final(job[w])'
<1> USE DEF Committed, Goto, sessionVars, Release, FailProcessing, LeaveMarkFailed, TypeInv,
            TypeOK, Grounded, WorkerTypeOK
<1>1. CASE Finish(w)
  <2>1. status'[job[w]] = "DONE"
    BY <1>1, WriteStatusMoves DEF Finish
  <2> QED
    BY <1>1, <2>1 DEF Finish, Final
<1>2. CASE MarkFailedCommit(w)
  <2>1. status'[job[w]] = "FAILED"
    BY <1>2, WriteStatusMoves DEF MarkFailedCommit
  <2> QED
    BY <1>2, <2>1 DEF MarkFailedCommit, Final
<1>3. CASE \/ ReadRetryKey(w) \/ Claim(w) \/ ClaimRefused(w) \/ ClaimFails(w)
           \/ ReadFile(w) \/ ReadFileFails(w) \/ IndexChunks(w) \/ IndexChunksFails(w)
  BY <1>3 DEF ReadRetryKey, Claim, ClaimRefused, ClaimFails, ReadFile, ReadFileFails,
              IndexChunks, IndexChunksFails
<1>4. CASE \/ FinishFails(w) \/ Unlink(w) \/ MarkFailedRead(w) \/ MarkFailedRefused(w)
           \/ MarkFailedFails(w)
  BY <1>4 DEF FinishFails, Unlink, MarkFailedRead, MarkFailedRefused, MarkFailedFails
<1>5. CASE \/ ClearRetry(w) \/ ClearRetryFails(w) \/ IncrRetry(w) \/ PushDlq(w)
           \/ AcknowledgeDeadLetter(w) \/ Acknowledge(w) \/ Abandon(w)
  BY <1>5 DEF ClearRetry, ClearRetryFails, IncrRetry, PushDlq, AcknowledgeDeadLetter,
              Acknowledge, Abandon
<1> QED
  BY <1>1, <1>2, <1>3, <1>4, <1>5 DEF WorkerStep, WorkerRuns, WorkerFault

(* What a step of the engine changes about a worker that is not its own.   *)
LEMMA OthersHold ==
  ASSUME TypeInv, QueueFacts, NEW w \in Workers, StepOf(w),
         NEW v \in Workers, v # w
  PROVE  UNCHANGED <<pc[v], job[v], at[v], payload[v]>>
<1>1. UNCHANGED <<pc[v], job[v]>>
  <2>1. ASSUME WorkerStep(w) PROVE UNCHANGED <<pc[v], job[v]>>
    BY <2>1, OtherWorkersStay
  <2>2. ASSUME StartJob(w) PROVE UNCHANGED <<pc[v], job[v]>>
    BY <2>2 DEF StartJob, Deliver, Goto, TypeInv, TypeOK, WorkerTypeOK
  <2>3. ASSUME UNCHANGED workerVars PROVE UNCHANGED <<pc[v], job[v]>>
    BY <2>3 DEF workerVars, sessionVars
  <2> QED
    BY <2>1, <2>2, <2>3 DEF StepOf, EngineWorker, WorkerFails, WorkerDies, TakeJob, ProcessJob,
       AcknowledgeJob, WorkerStep, WorkerRuns
<1>2. UNCHANGED <<at[v], payload[v]>>
  <2>1. ASSUME Queue!ConsumerStep(w) PROVE UNCHANGED <<at[v], payload[v]>>
    BY <2>1 DEF Queue!ConsumerStep, Queue!Dequeue, Queue!RemoveRaw, Queue!PushEnriched,
       Queue!RejectMalformed, Queue!DropMalformed, Queue!DeadLetterJob, Queue!JobDone,
       Queue!JobFailed, Queue!Acknowledge, Queue!AcknowledgeMisses,
       Queue!AcknowledgeLegacy, Queue!EndAcknowledge, Queue!Crash, Queue!Return,
       Queue!ConsumerGoto, QueueFacts, QueueTheorems!QueueInv, QueueTheorems!QueueTypeOK
  <2>2. ASSUME UNCHANGED queueVars PROVE UNCHANGED <<at[v], payload[v]>>
    BY <2>2 DEF queueVars
  <2>3. ASSUME ListsFollow(w) PROVE Queue!ConsumerStep(w) \/ UNCHANGED queueVars
    BY <2>3 DEF ListsFollow, Queue!ConsumerStep
  <2> QED
    BY <2>1, <2>2, <2>3 DEF StepOf, EngineWorker, WorkerFails, WorkerDies, TakeJob, StartJob,
       ProcessJob, AcknowledgeJob, Queue!ConsumerStep
<1> QED
  BY <1>1, <1>2

(* Only a worker with a job has steps; it comes to write FAILED for a job  *)
(* it dead-letters by way of the LPUSH, and to the acknowledge by way of   *)
(* the write; and it lets go of the job after the last acknowledge.        *)
LEMMA WorkerIsBusy ==
  ASSUME TypeInv, NEW w \in Workers, WorkerStep(w)
  PROVE  /\ pc[w] # "idle"
         /\ pc[w] = "ack" => pc'[w] = "idle"
         /\ pc'[w] = "dlqRead" => pc[w] = "dlqPush"
         /\ pc'[w] = "dlqWrite" => pc[w] = "dlqRead"
         /\ pc'[w] = "dlqAck" => pc[w] = "dlqWrite"
<1> USE DEF Goto, Release, TypeInv, TypeOK, WorkerTypeOK
<1>1. CASE \/ ReadRetryKey(w) \/ Claim(w) \/ ClaimRefused(w) \/ ClaimFails(w)
           \/ ReadFile(w) \/ ReadFileFails(w) \/ IndexChunks(w) \/ IndexChunksFails(w)
           \/ Finish(w) \/ FinishFails(w) \/ Unlink(w)
  BY <1>1 DEF ReadRetryKey, Claim, ClaimRefused, ClaimFails, ReadFile, ReadFileFails,
              IndexChunks, IndexChunksFails, Finish, FinishFails, Unlink, FailProcessing
<1>2. CASE \/ MarkFailedRead(w) \/ MarkFailedCommit(w) \/ MarkFailedRefused(w)
           \/ MarkFailedFails(w)
  BY <1>2 DEF MarkFailedRead, MarkFailedCommit, MarkFailedRefused, MarkFailedFails,
              MarkingFailed, LeaveMarkFailed
<1>3. CASE \/ ClearRetry(w) \/ ClearRetryFails(w) \/ IncrRetry(w) \/ PushDlq(w)
           \/ AcknowledgeDeadLetter(w) \/ Acknowledge(w) \/ Abandon(w)
  BY <1>3 DEF ClearRetry, ClearRetryFails, IncrRetry, PushDlq, AcknowledgeDeadLetter,
              Acknowledge, Abandon
<1> QED
  BY <1>1, <1>2, <1>3 DEF WorkerStep, WorkerRuns, WorkerFault

LEMMA WorkerHolds ==
  ASSUME TypeInv, TypeInv', QueueFacts, NEW w \in Workers, HoldsJob(w), StepOf(w)
  PROVE  HoldsJob(w)'
<1> USE DEF HoldsJob, QueueFacts, QueueTheorems!QueueInv, QueueTheorems!QueueTypeOK,
            Queue!Acknowledging, Queue!LegacyOf, Queue!Legacy
<1>1. CASE TakeJob(w)
  BY <1>1 DEF TakeJob, Queue!Dequeue, Queue!RemoveRaw, workerVars
<1>2. CASE StartJob(w)
  BY <1>2 DEF StartJob, Deliver, Goto, Queue!PushEnriched, Queue!ConsumerGoto, TypeInv,
     TypeOK, WorkerTypeOK
<1>3. ASSUME WorkerStep(w), pc[w] \notin Ending, ListsFollow(w), pc'[w] # "idle"
      PROVE  HoldsJob(w)'
  <2>1. /\ pc[w] # "idle"
        /\ pc'[w] = "dlqRead" => pc[w] = "dlqPush"
        /\ pc'[w] = "dlqWrite" => pc[w] = "dlqRead"
        /\ pc'[w] = "dlqAck" => pc[w] = "dlqWrite"
    BY <1>3, WorkerIsBusy
  <2>2. job'[w] = job[w]
    BY <1>3, WorkerKeepsJob, StoreAssumption DEF TypeInv, Grounded
  <2>3. CASE pc[w] = "dlqPush" /\ pc'[w] = "dlqRead" /\ Queue!DeadLetterJob(w)
    BY <2>1, <2>2, <2>3 DEF Queue!DeadLetterJob, Queue!ConsumerGoto
  <2>4. CASE pc'[w] \in Ending /\ Queue!JobDone(w)
    BY <2>1, <2>2, <2>4 DEF Queue!JobDone, Queue!ConsumerGoto, Ending
  <2>5. CASE pc'[w] \notin Ending \cup {"idle"} /\ pc[w] # "dlqPush" /\ UNCHANGED queueVars
    BY <2>1, <2>2, <2>5 DEF queueVars, Ending
  <2> QED
    BY <1>3, <2>3, <2>4, <2>5 DEF ListsFollow
<1>4. CASE AcknowledgeDeadLetter(w) /\ (Queue!Acknowledge(w) \/ Queue!AcknowledgeLegacy(w))
  <2>1. at[w] \in {"dlqAck", "dlqLegacy"} /\ pc[w] = "dlqAck" /\ pc'[w] = "ack"
    BY <1>4 DEF AcknowledgeDeadLetter, Goto, TypeInv, TypeOK, WorkerTypeOK
  <2>2. at'[w] = "ackAgain" /\ payload' = payload /\ job' = job
    BY <1>4, <2>1 DEF Queue!Acknowledge, Queue!AcknowledgeLegacy, Queue!EndAcknowledge,
       Queue!ConsumerGoto, AcknowledgeDeadLetter, sessionVars
  <2> QED
    BY <2>1, <2>2
<1>5. CASE Acknowledge(w) \/ Abandon(w)
  BY <1>5 DEF Acknowledge, Abandon, Release, Goto, TypeInv, TypeOK, WorkerTypeOK
<1>6. CASE Queue!AcknowledgeMisses(w) /\ UNCHANGED <<storeVars, workerVars>>
  BY <1>6 DEF Queue!AcknowledgeMisses, Queue!ConsumerGoto, workerVars, sessionVars
<1>7. CASE WorkerDies(w)
  <2>1. CASE at[w] = "idle" /\ UNCHANGED <<storeVars, workerVars, queueVars>>
    BY <2>1 DEF workerVars, sessionVars, queueVars
  <2>2. CASE at[w] \in {"remove", "replace"} /\ UNCHANGED <<storeVars, workerVars>>
    BY <2>2 DEF workerVars, sessionVars
  <2> QED
    BY <1>5, <1>7, <2>1, <2>2 DEF WorkerDies
<1>8. CASE ProcessJob(w)
  BY <1>3, <1>8 DEF ProcessJob, WorkerStep
<1>9. CASE WorkerFails(w)
  <2>1. WorkerFault(w) => pc[w] \notin Ending
    BY DEF WorkerFault, ClaimFails, IndexChunksFails, FinishFails, MarkFailedFails,
           ClearRetryFails, MarkingFailed, Ending
  <2> QED
    BY <1>3, <1>9, <2>1 DEF WorkerFails, WorkerStep
<1> QED
  BY <1>1, <1>2, <1>4, <1>5, <1>6, <1>7, <1>8, <1>9 DEF StepOf, EngineWorker, AcknowledgeJob

LEMMA EndedByWorker ==
  ASSUME QueueFacts, NEW w \in Workers, HoldsJob(w), StepOf(w),
         NEW d \in Docs, settled'[d] # settled[d] \/ taken'[d] # taken[d]
  PROVE  pc[w] \in Ending /\ job[w] = d
<1>1. /\ AcknowledgeDeadLetter(w) \/ Acknowledge(w)
      /\ Queue!Acknowledge(w) \/ Queue!AcknowledgeLegacy(w)
  BY DEF StepOf, EngineWorker, WorkerFails, WorkerDies, TakeJob, StartJob, ProcessJob,
     AcknowledgeJob, ListsFollow, queueVars, Queue!Dequeue, Queue!RemoveRaw,
     Queue!PushEnriched, Queue!DeadLetterJob, Queue!JobDone, Queue!JobFailed,
     Queue!AcknowledgeMisses, Queue!Crash, Queue!history, Queue!ends
<1>2. Queue!EndJob(w, payload[w]) \/ Queue!EndJob(w, Queue!Plain(payload[w].doc))
  BY <1>1 DEF Queue!Acknowledge, Queue!AcknowledgeLegacy
<1>3. settled \in [Docs -> Nat] /\ taken \in [Docs -> Nat]
  BY DEF QueueFacts, QueueTheorems!QueueInv, QueueTheorems!QueueTypeOK
<1>4. ASSUME NEW p, Queue!EndJob(w, p) PROVE p.doc = d
  BY <1>3, <1>4 DEF Queue!EndJob, Queue!Count
<1>5. payload[w].doc = d
  BY <1>2, <1>4 DEF Queue!Plain
<1> QED
  BY <1>1, <1>5 DEF AcknowledgeDeadLetter, Acknowledge, Ending, HoldsJob

LEMMA WorkerAckInv ==
  ASSUME TypeInv, TypeInv', QueueFacts, AckInv, [EngineNext]_engineVars, NEW w \in Workers,
         StepOf(w)
  PROVE  AckInv'
<1>1. ASSUME NEW d \in Docs, Final(d) PROVE Final(d)'
  BY <1>1, FinalStays
<1>2. ASSUME NEW v \in Workers PROVE HoldsJob(v)'
  <2>1. CASE v = w
    BY <2>1, WorkerHolds DEF AckInv
  <2>2. CASE v # w
    BY <2>2, OthersHold DEF AckInv, HoldsJob
  <2> QED
    BY <2>1, <2>2
<1>3. ASSUME NEW v \in Workers, pc'[v] \in Committed PROVE Final(job[v])' /\ job'[v] = job[v]
  <2>1. \A x \in Workers : pc[x] \in Committed => job[x] \in Docs /\ Final(job[x])
    BY DEF AckInv, Committed, TypeInv, Grounded
  <2>2. CASE UNCHANGED <<pc[v], job[v]>>
    BY <1>1, <1>3, <2>1, <2>2
  <2>3. CASE v = w /\ WorkerStep(w)
    BY <1>1, <1>3, <2>1, <2>3, WorkerCommits
  <2>4. CASE v = w /\ StartJob(w)
    BY <1>3, <2>4 DEF StartJob, Deliver, Goto, Committed, TypeInv, TypeOK, WorkerTypeOK
  <2>5. UNCHANGED workerVars => UNCHANGED <<pc[v], job[v]>>
    BY DEF workerVars, sessionVars
  <2> QED
    BY <2>2, <2>3, <2>4, <2>5, OthersHold
    DEF StepOf, EngineWorker, WorkerFails, WorkerDies, TakeJob, ProcessJob, AcknowledgeJob,
        WorkerStep, WorkerRuns
<1>4. ASSUME NEW d \in Docs, settled'[d] + taken'[d] > 0 PROVE Final(d)'
  <2>1. CASE settled'[d] = settled[d] /\ taken'[d] = taken[d]
    BY <1>1, <1>4, <2>1 DEF AckInv, AcknowledgedIsFinal, Final
  <2>2. CASE settled'[d] # settled[d] \/ taken'[d] # taken[d]
    <3>1. pc[w] \in Ending /\ job[w] = d
      BY <2>2, EndedByWorker DEF AckInv
    <3> QED
      BY <1>1, <3>1 DEF AckInv, Committed, Ending
  <2> QED
    BY <2>1, <2>2
<1>5. \A v \in Workers : pc'[v] \in Committed => Final(job[v])' /\ job'[v] = job[v]
  BY <1>3
<1> QED
  BY <1>2, <1>4, <1>5 DEF AckInv, AcknowledgedIsFinal, Final

LEMMA AckInvariant == EngineSpec => []AckInv
<1>1. EngineInit => AckInv
  BY DEF EngineInit, Init, WorkerInit, Queue!Init, AckInv, HoldsJob, Committed,
     AcknowledgedIsFinal
<1>2. TypeInv /\ TypeInv' /\ QueueFacts /\ AckInv /\ [EngineNext]_engineVars => AckInv'
  <2> SUFFICES ASSUME TypeInv, TypeInv', QueueFacts, AckInv, [EngineNext]_engineVars
               PROVE  AckInv'
    OBVIOUS
  <2>1. ASSUME NEW w \in Workers, StepOf(w) PROVE AckInv'
    BY <2>1, WorkerAckInv
  <2>2. ASSUME UNCHANGED workerVars, UNCHANGED <<at, payload, settled, taken>> PROVE AckInv'
    <3>1. \A d \in Docs : Final(d) => Final(d)'
      BY FinalStays
    <3>2. \A w \in Workers : pc[w] \in Committed => job[w] \in Docs
      BY DEF Committed, TypeInv, Grounded
    <3> QED
      BY <2>2, <3>1, <3>2 DEF AckInv, HoldsJob, AcknowledgedIsFinal, Final, workerVars,
         sessionVars
  <2>3. ASSUME NEW r \in Ingests \cup Uploads, Admit(r) \/ EngineRequest(r) \/ RequestFails(r)
        PROVE  UNCHANGED workerVars /\ UNCHANGED <<at, payload, settled, taken>>
    <3>1. UNCHANGED workerVars
      BY <2>3 DEF Admit, EngineRequest, RequestFails, vars
    <3>2. (\E d \in Docs : Queue!Enqueue(d)) \/ UNCHANGED queueVars
      BY <2>3, RequestIsQueue
    <3> QED
      BY <3>1, <3>2 DEF Queue!Enqueue, Queue!consumerVars, Queue!ends, queueVars
  <2>4. CASE UNCHANGED engineVars
    BY <2>2, <2>4 DEF engineVars, vars, queueVars
  <2> QED
    BY <2>1, <2>2, <2>3, <2>4 DEF EngineNext, StepOf
<1> QED
  BY <1>1, <1>2, EngineInherits, PTL DEF EngineSpec

(* A job leaves documents:processing only after the outcome of its         *)
(* document is committed: for any workers, requests, retry limit and       *)
(* deliveries, and whatever the database, the index and the disk do.  Only *)
(* Redis commands do not fail on their own.                                *)
THEOREM AcknowledgedJobsAreFinal == EngineSpec => []AcknowledgedIsFinal
<1>1. AckInv => AcknowledgedIsFinal
  BY DEF AckInv
<1> QED
  BY <1>1, AckInvariant, PTL

(* Rest -------------------------------------------------------------------*)

(* Whatever crashes: once all is at rest, a document that is not final     *)
(* never had a job, or lost it with a worker, or still has it in           *)
(* documents:processing, for a sweep that nobody starts.                   *)
THEOREM RestIsExplained == EngineSpec => []RestExplained
<1>1. TypeInv /\ QueueFacts /\ AckInv => RestExplained
  <2> SUFFICES ASSUME TypeInv, QueueFacts, AckInv, Resting, NEW d \in Docs
               PROVE  \/ status[d] \in {"ABSENT", "DONE", "FAILED"}
                      \/ Queue!ForDoc(processing, d) > 0
                      \/ lost[d] > 0
                      \/ pushed[d] = 0
    BY DEF RestExplained
  <2>0. QueueTheorems!Cardinality({}) = 0
    BY FS_EmptySet DEF Cardinality, QueueTheorems!Cardinality
  <2>1. pushed[d] \in Nat
    BY QueueConstants DEF QueueFacts, QueueTheorems!QueueInv, QueueTheorems!QueueTypeOK
  <2>2. CASE pushed[d] > 0
    <3>1. \/ QueueTheorems!waiting[d] > 0 \/ QueueTheorems!out[d] > 0
          \/ QueueTheorems!moving[d] > 0 \/ settled[d] > 0 \/ taken[d] > 0 \/ lost[d] > 0
      BY <2>2 DEF QueueFacts, QueueTheorems!JobsKept, QueueTheorems!Kept
    <3>2. QueueTheorems!waiting[d] = 0
      <4>1. {i \in DOMAIN pending : pending[i].doc = d} = {}
        BY DEF Resting
      <4> QED
        BY <2>0, <4>1 DEF QueueTheorems!waiting, QueueTheorems!ForDoc
    <3>3. QueueTheorems!moving[d] = 0
      <4>1. QueueTheorems!ReplacedBy(d) = {} /\ QueueTheorems!MovedBy(d) = {}
        BY DEF Resting, NobodyBusy, QueueTheorems!ReplacedBy, QueueTheorems!MovedBy
      <4> QED
        BY <2>0, <4>1 DEF QueueTheorems!moving, QueueTheorems!InHands
    <3>4. QueueTheorems!out[d] = Queue!ForDoc(processing, d)
      <4>1. QueueTheorems!ForDoc(processing, d) = Queue!ForDoc(processing, d)
        BY DEF QueueTheorems!ForDoc, Queue!ForDoc, QueueTheorems!Cardinality,
               Queue!Cardinality
      <4> QED
        BY <4>1 DEF QueueTheorems!out
    <3>5. settled[d] \in Nat /\ taken[d] \in Nat
      BY DEF QueueFacts, QueueTheorems!QueueInv, QueueTheorems!QueueTypeOK
    <3> QED
      BY <3>1, <3>2, <3>3, <3>4, <3>5 DEF AckInv, AcknowledgedIsFinal
  <2> QED
    BY <2>1, <2>2
<1> QED
  BY <1>1, EngineInherits, AckInvariant, PTL

(* Backpressure -----------------------------------------------------------*)

(* A request past the length check is one that passed it.                  *)
AdmittedInv ==
    /\ admitted \subseteq Ingests \cup Uploads
    /\ \A i \in Ingests : ingestPc[i] \in {"enqueue", "markFailed"} => i \in admitted
    /\ \A u \in Uploads :
          uploadPc[u] \in {"save", "lookup", "update", "enqueue"} => u \in admitted

CountsStep == [Check!Next]_(Check!counts)

(* Of the requests in flight, a request changes nothing but itself.        *)
LEMMA OthersInFlight ==
  ASSUME TypeInv, NEW r \in Ingests \cup Uploads, EngineRequest(r) \/ RequestFails(r),
         NEW q \in Ingests \cup Uploads, q # r
  PROVE  /\ q \in Ingests => ingestPc'[q] = ingestPc[q]
         /\ q \in Uploads => uploadPc'[q] = uploadPc[q]
         /\ q \in InFlight' <=> q \in InFlight
<1>1. /\ q \in Ingests => ingestPc'[q] = ingestPc[q]
      /\ q \in Uploads => uploadPc'[q] = uploadPc[q]
  BY DEF EngineRequest, RequestFails, IngestStep, UploadStep, PushStep, Ingest,
     IngestDuplicate, EnqueueIngest, EndIngest, OpenFile, SaveFile, LookupDocument,
     UploadConflict, UpdateFilePath, EnqueueUpload, CommitUpload, AbortUpload, IngestGoto,
     UploadGoto, ingestVars, uploadVars, TypeInv, TypeOK, ApiTypeOK
<1>2. UNCHANGED admitted
  BY DEF EngineRequest, RequestFails
<1> QED
  BY <1>1, <1>2 DEF InFlight, Over

LEMMA InFlightCount ==
  ASSUME AdmittedInv, AdmittedInv', NEW r \in Ingests \cup Uploads,
         \A q \in Ingests \cup Uploads : q # r => (q \in InFlight' <=> q \in InFlight)
  PROVE  /\ Cardinality(InFlight) \in Nat /\ Cardinality(InFlight') \in Nat
         /\ (r \in InFlight <=> r \in InFlight') =>
                Cardinality(InFlight') = Cardinality(InFlight)
         /\ r \in InFlight /\ r \notin InFlight' =>
                Cardinality(InFlight') = Cardinality(InFlight) - 1
         /\ r \notin InFlight /\ r \in InFlight' =>
                Cardinality(InFlight') = Cardinality(InFlight) + 1
<1> DEFINE A == InFlight
           B == InFlight'
<1>1. A \in SUBSET (Ingests \cup Uploads) /\ B \in SUBSET (Ingests \cup Uploads)
  BY DEF AdmittedInv, InFlight
<1>2. IsFiniteSet(Ingests \cup Uploads)
  BY EngineAssumption, FS_Union
<1>3. IsFiniteSet(A) /\ IsFiniteSet(B)
  BY <1>1, <1>2, FS_Subset
<1> HIDE DEF A, B
<1>4. r \in A /\ r \notin B => B = A \ {r}
  BY <1>1 DEF A, B
<1>5. r \notin A /\ r \in B => B = A \cup {r}
  BY <1>1 DEF A, B
<1>6. (r \in A <=> r \in B) => B = A
  BY <1>1 DEF A, B
<1>7. /\ Cardinality(A) \in Nat /\ Cardinality(B) \in Nat
      /\ r \in A => Cardinality(A \ {r}) = Cardinality(A) - 1
      /\ r \notin A => Cardinality(A \cup {r}) = Cardinality(A) + 1
  BY <1>3, FS_CardinalityType, FS_AddElement, FS_RemoveElement
<1> QED
  BY <1>4, <1>5, <1>6, <1>7 DEF A, B

LEMMA RequestAdmitted ==
  ASSUME TypeInv, AdmittedInv, NEW r \in Ingests \cup Uploads,
         Admit(r) \/ EngineRequest(r) \/ RequestFails(r)
  PROVE  AdmittedInv'
<1>1. CASE Admit(r)
  BY <1>1 DEF Admit, AdmittedInv, vars, apiVars, ingestVars, uploadVars
<1>2. CASE EngineRequest(r) \/ RequestFails(r)
  <2>1. UNCHANGED admitted
    BY <1>2 DEF EngineRequest, RequestFails
  <2>2. \A q \in Ingests \cup Uploads : q # r =>
            /\ q \in Ingests => ingestPc'[q] = ingestPc[q]
            /\ q \in Uploads => uploadPc'[q] = uploadPc[q]
    BY <1>2, OthersInFlight
  <2>3. r \in Ingests /\ ingestPc'[r] \in {"enqueue", "markFailed"} => r \in admitted
    BY <1>2, EngineAssumption DEF EngineRequest, RequestFails, IngestStep, PushStep, UploadStep, Ingest,
       IngestDuplicate, EnqueueIngest, EndIngest, EnqueueUpload, OpenFile, SaveFile,
       LookupDocument, UploadConflict, UpdateFilePath, CommitUpload, AbortUpload, IngestGoto,
       ingestVars, AdmittedInv, TypeInv, TypeOK, ApiTypeOK
  <2>4. r \in Uploads /\ uploadPc'[r] \in {"save", "lookup", "update", "enqueue"}
            => r \in admitted
    BY <1>2, EngineAssumption DEF EngineRequest, RequestFails, UploadStep, PushStep, OpenFile, SaveFile,
       LookupDocument, UploadConflict, UpdateFilePath, EnqueueUpload, CommitUpload,
       AbortUpload, UploadGoto, AdmittedInv, TypeInv, TypeOK, ApiTypeOK
  <2> QED
    BY <2>1, <2>2, <2>3, <2>4 DEF AdmittedInv
<1> QED
  BY <1>1, <1>2

(* A request that pushes was in flight and is not any more; any other step *)
(* of a request leaves it in flight or takes it off.                       *)
LEMMA RequestFlight ==
  ASSUME TypeInv, AdmittedInv, NEW r \in Ingests \cup Uploads,
         EngineRequest(r) \/ RequestFails(r)
  PROVE  \/ /\ r \in InFlight /\ r \notin InFlight'
            /\ \E p : pending' = Append(pending, p)
         \/ (r \in InFlight' => r \in InFlight) /\ UNCHANGED pending
<1>1. UNCHANGED admitted
  BY DEF EngineRequest, RequestFails
<1>2. CASE PushStep(r)
  <2>1. \E p : pending' = Append(pending, p)
    BY <1>2 DEF PushStep, Queue!Enqueue
  <2>2. CASE r \in Ingests /\ EnqueueIngest(r)
    BY <1>1, <2>1, <2>2, EngineAssumption DEF EnqueueIngest, IngestGoto, InFlight, Over, AdmittedInv,
       TypeInv, TypeOK, ApiTypeOK
  <2>3. CASE r \in Uploads /\ EnqueueUpload(r)
    BY <1>1, <2>1, <2>3, EngineAssumption DEF EnqueueUpload, UploadGoto, InFlight, Over, AdmittedInv,
       TypeInv, TypeOK, ApiTypeOK
  <2> QED
    BY <1>2, <2>1, <2>2, <2>3 DEF PushStep
<1>3. CASE r \in Ingests /\ (IngestStep(r) \/ EndIngest(r)) /\ UNCHANGED queueVars
  <2>1. ingestPc[r] # "done"
    BY <1>3 DEF IngestStep, EndIngest, Ingest, IngestDuplicate
  <2> QED
    BY <1>1, <1>3, <2>1, EngineAssumption DEF InFlight, Over, queueVars
<1>4. CASE r \in Uploads /\ (UploadStep(r) \/ AbortUpload(r)) /\ UNCHANGED queueVars
  <2>1. /\ uploadPc[r] \notin {"accepted", "failed"}
        /\ uploadPc[r] = "commit" => uploadPc'[r] \in {"accepted", "failed"}
    BY <1>4 DEF UploadStep, OpenFile, SaveFile, LookupDocument, UploadConflict,
       UpdateFilePath, CommitUpload, AbortUpload, UploadGoto, OpenTransaction, TypeInv,
       TypeOK, ApiTypeOK
  <2> QED
    BY <1>1, <1>4, <2>1, EngineAssumption DEF InFlight, Over, queueVars
<1> QED
  BY <1>2, <1>3, <1>4 DEF EngineRequest, RequestFails, IngestStep, UploadStep

LEMMA AdmitCounts ==
  ASSUME AdmittedInv, AdmittedInv', NEW r \in Ingests \cup Uploads, Admit(r)
  PROVE  Check!Admit
<1>1. UNCHANGED <<ingestPc, uploadPc, pending>>
  BY DEF Admit, vars, apiVars, ingestVars, uploadVars, queueVars
<1>2. r \notin InFlight /\ r \in InFlight'
  BY <1>1, EngineAssumption DEF Admit, New, InFlight, Over
<1>3. \A q \in Ingests \cup Uploads : q # r => (q \in InFlight' <=> q \in InFlight)
  BY <1>1 DEF Admit, InFlight, Over
<1>4. /\ Cardinality(InFlight') = Cardinality(InFlight) + 1
      /\ Cardinality(InFlight) \in Nat
  BY <1>2, <1>3, InFlightCount
<1>5. Cardinality(InFlight) < MaxConcurrent
  <2> DEFINE open == {q \in admitted : ~ Over(q)}
  <2>1. InFlight \in SUBSET open /\ open \in SUBSET (Ingests \cup Uploads)
    BY DEF InFlight, AdmittedInv
  <2>2. IsFiniteSet(Ingests \cup Uploads)
    BY EngineAssumption, FS_Union
  <2>3. Cardinality(open) < MaxConcurrent
    BY DEF Admit
  <2> HIDE DEF open
  <2>4. IsFiniteSet(open)
    BY <2>1, <2>2, FS_Subset
  <2>5. Cardinality(open) \in Nat /\ Cardinality(InFlight) <= Cardinality(open)
    BY <2>1, <2>4, FS_Subset, FS_CardinalityType
  <2> QED
    BY <1>4, <2>3, <2>5, EngineAssumption
<1>6. Len(pending) < QueueMaxLength
  BY EngineAssumption DEF Admit, QueueFull
<1> QED
  BY <1>1, <1>4, <1>5, <1>6 DEF Check!Admit

LEMMA RequestCounts ==
  ASSUME TypeInv, QueueFacts, AdmittedInv, AdmittedInv', NEW r \in Ingests \cup Uploads,
         Admit(r) \/ EngineRequest(r) \/ RequestFails(r)
  PROVE  CountsStep
<1>1. CASE Admit(r)
  BY <1>1, AdmitCounts DEF CountsStep, Check!Next
<1>2. CASE EngineRequest(r) \/ RequestFails(r)
  <2>1. \A q \in Ingests \cup Uploads : q # r => (q \in InFlight' <=> q \in InFlight)
    BY <1>2, OthersInFlight
  <2>2. Cardinality(InFlight) \in Nat
    BY <2>1, InFlightCount
  <2>3. CASE r \in InFlight /\ r \notin InFlight'
    <3>1. Cardinality(InFlight') = Cardinality(InFlight) - 1 /\ Cardinality(InFlight') \in Nat
      BY <2>1, <2>3, InFlightCount
    <3>2. Len(pending') = Len(pending) + 1 \/ UNCHANGED pending
      BY <1>2, RequestFlight DEF QueueFacts, QueueTheorems!QueueInv, QueueTheorems!QueueTypeOK
    <3>3. Check!Push \/ Check!Leave
      BY <2>2, <3>1, <3>2 DEF Check!Push, Check!Leave
    <3> QED
      BY <3>3 DEF CountsStep, Check!Next
  <2>4. CASE (r \in InFlight' <=> r \in InFlight) /\ UNCHANGED pending
    <3>1. Cardinality(InFlight') = Cardinality(InFlight)
      BY <2>1, <2>4, InFlightCount
    <3> QED
      BY <2>4, <3>1 DEF CountsStep, Check!counts
  <2> QED
    BY <1>2, <2>3, <2>4, RequestFlight
<1> QED
  BY <1>1, <1>2

LEMMA WorkerCounts ==
  ASSUME QueueFacts, NEW w \in Workers, StepOf(w)
  PROVE  CountsStep
<1>1. InFlight' = InFlight
  BY DEF StepOf, EngineWorker, WorkerFails, WorkerDies, apiVars, ingestVars, uploadVars,
     InFlight, Over
<1>2. CASE UNCHANGED pending
  BY <1>1, <1>2 DEF CountsStep, Check!counts
<1>3. CASE Queue!Dequeue(w)
  <2>1. pending # <<>> /\ pending' = SubSeq(pending, 1, Len(pending) - 1)
    BY <1>3 DEF Queue!Dequeue, Queue!Front
  <2>2. pending \in Seq(QueueTheorems!Payload)
    BY DEF QueueFacts, QueueTheorems!QueueInv, QueueTheorems!QueueTypeOK
  <2>3. Len(pending) \in Nat \ {0} /\ \A i \in 1..Len(pending) : pending[i] \in QueueTheorems!Payload
    BY <2>1, <2>2, EmptySeq, ElementOfSeq
  <2>4. Len(pending') = IF 1 <= Len(pending) - 1 THEN Len(pending) - 1 - 1 + 1 ELSE 0
    BY <2>1, <2>3, SubSeqProperties
  <2>5. Len(pending) > 0 /\ Len(pending') = Len(pending) - 1
    <3>1. ASSUME NEW n \in Nat \ {0}, NEW m, m = IF 1 <= n - 1 THEN n - 1 - 1 + 1 ELSE 0
          PROVE  n > 0 /\ m = n - 1
      BY <3>1
    <3> QED
      BY <2>3, <2>4, <3>1
  <2>6. Check!Take
    BY <1>1, <2>5 DEF Check!Take
  <2> QED
    BY <2>6 DEF CountsStep, Check!Next
<1>4. Queue!ConsumerStep(w) => Queue!Dequeue(w) \/ UNCHANGED pending
  BY DEF Queue!ConsumerStep, Queue!RemoveRaw, Queue!PushEnriched, Queue!RejectMalformed,
     Queue!DropMalformed, Queue!DeadLetterJob, Queue!JobDone, Queue!JobFailed,
     Queue!Acknowledge, Queue!AcknowledgeMisses, Queue!AcknowledgeLegacy, Queue!Crash,
     Queue!lists
<1>5. Queue!ConsumerStep(w) \/ UNCHANGED queueVars
  BY DEF StepOf, EngineWorker, WorkerFails, WorkerDies, TakeJob, StartJob, ProcessJob,
     AcknowledgeJob, ListsFollow, Queue!ConsumerStep
<1> QED
  BY <1>2, <1>3, <1>4, <1>5 DEF queueVars

LEMMA AdmittedInvariant == EngineSpec => []AdmittedInv
<1>1. EngineInit => AdmittedInv
  BY DEF EngineInit, Init, ApiInit, AdmittedInv
<1>2. TypeInv /\ AdmittedInv /\ [EngineNext]_engineVars => AdmittedInv'
  <2> SUFFICES ASSUME TypeInv, AdmittedInv, [EngineNext]_engineVars PROVE AdmittedInv'
    OBVIOUS
  <2>1. ASSUME UNCHANGED <<apiVars, admitted>> PROVE AdmittedInv'
    BY <2>1 DEF AdmittedInv, apiVars, ingestVars, uploadVars
  <2> QED
    BY <2>1, RequestAdmitted DEF EngineNext, EngineWorker, WorkerFails, WorkerDies, engineVars, vars
<1> QED
  BY <1>1, <1>2, EngineInherits, PTL DEF EngineSpec

(* The two steps of a length check that is not atomic with its push, in    *)
(* every interleaving of requests and workers, are steps of Backpressure.  *)
THEOREM ImplementsBackpressure == EngineSpec => BackpressureSpec
<1>1. EngineInit => Check!Init
  <2> SUFFICES ASSUME EngineInit PROVE Check!Init
    OBVIOUS
  <2>1. InFlight = {} /\ Len(pending) = 0
    BY DEF EngineInit, Queue!Init, InFlight
  <2> QED
    BY <2>1, FS_EmptySet DEF Check!Init
<1>2. /\ TypeInv /\ QueueFacts /\ AdmittedInv /\ AdmittedInv'
      /\ [EngineNext]_engineVars
      => [Check!Next]_(Check!counts)
  <2> SUFFICES ASSUME TypeInv, QueueFacts, AdmittedInv, AdmittedInv', [EngineNext]_engineVars
               PROVE  CountsStep
    BY DEF CountsStep
  <2>1. CASE UNCHANGED engineVars
    <3>1. InFlight' = InFlight /\ pending' = pending
      BY <2>1 DEF engineVars, vars, queueVars, apiVars, ingestVars, uploadVars, InFlight, Over
    <3> QED
      BY <3>1 DEF CountsStep, Check!counts
  <2> QED
    BY <2>1, WorkerCounts, RequestCounts DEF EngineNext, StepOf
<1> QED
  BY <1>1, <1>2, EngineInherits, AdmittedInvariant, PTL
  DEF EngineSpec, BackpressureSpec, Check!Spec

CheckTheorems == INSTANCE BackpressureProofs WITH
    Limit <- QueueMaxLength, Slots <- MaxConcurrent,
    length <- Len(pending), inFlight <- Cardinality(InFlight)

PendingBounded == Len(pending) + Cardinality(InFlight) < QueueMaxLength + MaxConcurrent

(* documents:pending, with every push on its way to it, exceeds the limit  *)
(* by less than the number of requests open at a time, however many of     *)
(* them have read the length and not pushed yet.                           *)
THEOREM PendingIsBounded == EngineSpec => []PendingBounded
<1>1. QueueMaxLength \in Nat \ {0} /\ MaxConcurrent \in Nat
  BY EngineAssumption
<1>2. CheckTheorems!Spec => []CheckTheorems!Bounded
  BY <1>1, CheckTheorems!ListIsBounded
<1>3. Check!Spec => CheckTheorems!Spec
  <2>1. Check!Init => CheckTheorems!Init
    BY DEF Check!Init, CheckTheorems!Init
  <2>2. Check!Next => CheckTheorems!Next
    BY DEF Check!Next, Check!Admit, Check!Push, Check!Leave, Check!Take, CheckTheorems!Next,
       CheckTheorems!Admit, CheckTheorems!Push, CheckTheorems!Leave, CheckTheorems!Take
  <2>3. UNCHANGED Check!counts => UNCHANGED CheckTheorems!counts
    BY DEF Check!counts, CheckTheorems!counts
  <2> QED
    BY <2>1, <2>2, <2>3, PTL DEF Check!Spec, CheckTheorems!Spec
<1>4. CheckTheorems!Bounded => PendingBounded
  BY DEF CheckTheorems!Bounded, PendingBounded
<1> QED
  BY <1>2, <1>3, <1>4, ImplementsBackpressure, PTL DEF BackpressureSpec
=============================================================================
