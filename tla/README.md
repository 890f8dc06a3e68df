# Verification of the async RAG ingestion engine

TLA+ models of the ingestion pipeline in `src/`: the HTTP API that registers and
uploads documents, the Redis queue, the workers that chunk and index them, the
documents table, the upload directory and the vector index. TLC checks the models
on small instances, TLAPS proves the theorems for all of them.

Run one check with `tlc -config service_faults.cfg MCDocumentService.tla`, one
proof with `tlapm DocumentServiceProofs.tla`.

## Inventory

| Component (under `src/src`) | State | Operations | Talks to |
|---|---|---|---|
| Documents table: `domains/documents/{models,repository}.py`, `infra/db/postgres.py` | `status`, `file_path`, `retry_count` per document, row locks, each session's identity map | create, get, get for update, `update_status`, `retry_document`, `update_file_path`, `clear_file_path` | shared by all |
| File store: `services/file_store.py` | files under `data/uploads` | save (truncate, fill); reading and deleting are in the pipeline | upload, pipeline |
| Ingest: `application/documents/ingest.py` | one request | backpressure, insert or return the existing document, RPUSH after commit, mark FAILED when that fails | table, queue |
| Upload: `application/documents/upload.py` | one request, one open transaction | backpressure, save file, check status, set path, RPUSH inside the transaction | file store, table, queue |
| Queue: `infra/queue/document_queue.py` | three Redis lists | `enqueue`, `dequeue` (three commands), `acknowledge` (one or two), `move_to_dlq`, `requeue_stale_jobs`, lengths | API, worker |
| Worker: `workers/document_worker.py` | job in hand, Redis retry counter per document | `run`, `process` (retry counter, dead-lettering), `process_job` | queue, pipeline |
| Pipeline: `application/documents/process.py` | one session per attempt | `process`: claim, read, chunk, index, finish, unlink; `mark_failed` | table, file store, index |
| Vector index: `infra/vector/index.py` | points keyed by (document, chunk index) | `upsert_chunks`, `ensure_collection_exists`, `search` | pipeline, search |
| Chunking: `services/chunking.py` | loop variables | `chunk` | pipeline |
| Processes: `main` and `run` of the worker, `infra/lifecycle/app.py`, `infra/monitoring.py`, `api/health.py` | whether each process runs, the worker's `running` flag, the collection in Qdrant | start-up check, readiness probe, worker start and SIGTERM, shutdown | Postgres, Redis, Qdrant |
| Search: `application/search/search.py` | none | one query of the index | vector index |
| Embeddings, LLM, metrics, settings, scripts, migrations | none the documents depend on | mocks and constants | - |

What is hard here:

- **Sessions cache rows.** `SessionLocal` sets `expire_on_commit=False`, and a
  `SELECT ... FOR UPDATE` does not overwrite an object the session has loaded. The
  lock is taken, but the status that `update_status` checks may be an old one.
- **Steps of several processes interleave**: two deliveries of one job, an upload
  against the claim of the same document, a sweeper against `acknowledge`, the API's
  failure handler against a worker that is already done.
- **Several stores, no common transaction**: row, file, vector points, Redis lists
  and Redis counter change one after the other, and any step may fail, or succeed
  with its reply lost.
- **Crashes** between any two of those steps, and redelivery afterwards.
- **Checks before waits**: the queue length is read long before the push, the collection
  is looked for before it is created, `running` is read before a blocking BRPOPLPUSH, and
  the services are probed one after the other.

Correct means: a document is processed by one worker at a time and a bounded number
of times; its status only moves along the lifecycle; DONE means that the whole text
is in the index; a file is there as long as a PENDING document needs it, and no longer; a
job leaves the lists only when its document is final; the queue stays bounded; the
system comes to rest; workers start and stop; chunking leaves nothing out.

## Modules

| Module | Models | Extends |
|---|---|---|
| `DocumentStore` | table, upload directory, set of documents ever enqueued | - |
| `DocumentWorker` | worker loop, pipeline, vector index, retry counters | `DocumentStore` |
| `DocumentApi` | ingest and upload requests | `DocumentStore` |
| `DocumentService` | both together, with `retry_document`; the properties | `DocumentWorker`, `DocumentApi` |
| `DocumentLifecycle` | the abstract state machine of documents | - |
| `DocumentQueue` | Redis lists, consumers, sweeper | - |
| `JobLedger` | the abstract at-least-once queue: how many jobs of a document wait, are out, being moved, settled, taken for another, lost | - |
| `IngestionEngine` | the service and the queue composed, with the length check of requests | `DocumentService`, instance of `DocumentQueue` |
| `Backpressure` | the abstract length check that is not atomic with its push | - |
| `ProcessLifecycle` | start and end of workers and API, health checks, the Qdrant collection, search | - |
| `ChunkingService` | the chunking loop | - |
| `DocumentServiceProofs`, `DocumentQueueProofs`, `IngestionEngineProofs`, `ProcessLifecycleProofs`, `ChunkingServiceProofs`, `JobLedgerProofs`, `BackpressureProofs` | theorems | the module they are about |
| `DocumentFileProofs` | the theorems about uploaded files | `DocumentServiceProofs` |
| `MCDocumentService`, `MCDocumentQueue`, `MCIngestionEngine` | instances for TLC | the module they check |

Three abstract specifications are implemented by detailed ones, as PROPERTY of a run:
`DocumentService` implements `DocumentLifecycle` (one worker), `DocumentQueue` implements
`JobLedger` with counts of the list entries for its variables, and `IngestionEngine`
implements `Backpressure` with the length of `documents:pending` and the number of requests
between their check and their push. That `IngestionEngine` implements `DocumentService` and
`DocumentQueue`, which makes it their composition, is proved and not run.

### State and steps

*Documents.* The unique index on `source` makes source and id one-to-one; `Docs` is
both. `status[d] = "ABSENT"` means no row. A database transaction is one step where
nothing outside the database happens in it: nobody can see between its first lock
and its commit. Only an upload sends a Redis command with the row locked, so its
transaction takes several steps and `lock` names it; every other writer waits for it,
a plain SELECT does not. In an upload whose path equals the one it read, the ORM sends
no UPDATE, and nothing is locked.

*Sessions.* `cache[w]` is the row in the identity map of the session of one attempt.
The claim loads it. A later `update_status` in that session checks `cache`, not
`status`. A rollback (a refused claim, a failed transaction) expires it, and then
`mark_failed` reads afresh, by a plain SELECT (`MarkFailedRead`), and writes in a later
step (`MarkFailedCommit`), because between the two it may wait for the lock.
`DocumentApi!MarkEnqueueFailed` likewise checks the PENDING object that the request
created. A column is written only if the session sees its value change, which is why
`WriteStatus` leaves `file_path` alone when the cached path is `None`.

*Texts.* An upload request stands for the content it carries. `Torn` is the content of a file
that is none of them in full: it was opened for writing and is not filled yet, or uploads of the
same name wrote over each other. `writers[path]` are the uploads that opened the file that is
there now, since the last time nobody had it open; when more than one did, `SaveFile` may leave
the text of any of them or a mixture, because two handles opened with `"wb"` write to one file
from its start and the shorter text does not cut off the longer. Deleting a file that is open
(`DeleteFile`) takes its name away, and the copy then goes nowhere. `ChunkCount` says how many chunks a
content yields; zero, an empty file, skips the index as the code does.

*Worker.* `pc[w]` follows the source line by line:
`idle - begin - claim - read - index - finish - unlink - clear - ack` on the good path,
`failRead - failWrite - incr` after a failed attempt,
`dlqPush - dlqRead - dlqWrite - dlqAck - ack` when the retry counter has reached its limit:
`process` acknowledges a job it dead-letters, and then `run` acknowledges it again.
`Abandon` is a process that dies and is restarted, or a Redis error that ends the
attempt.

*Delivery.* In `DocumentService` a document that was ever enqueued may be delivered at
any time, any number of times, to any worker: this is at-least-once delivery without
order, and contains what the lists of `DocumentQueue` do with duplicates, requeueing
and order. What is proved about `DocumentService` therefore does not depend on the queue;
that the engine with its lists has no other behaviour is the theorem `EngineImplementsService`.

*Faults.* `Faults` selects what may go wrong: `crash` (a process dies anywhere),
`redis` (a command fails, perhaps after it took effect; INCR may count twice since the
client resends on timeouts), `db` (a transaction fails, perhaps after its commit),
`qdrant` (an upsert fails after some points), `file` (reading, saving or deleting fails).

*Queue.* Every Redis command is one step. Payloads are records; LREM compares texts, and
two texts are equal exactly if the records are. The clock is discrete; `time.time()` is
read together with the command before it. `Malformed` is a text that is not JSON, pushed
by something else than this repository (its tests do). JSON without a `document_id`, which
`dequeue` would send to the DLQ and the sweeper skip, and a text that has `started_at` already when
it is popped are left out: nothing in the repository pushes either. `acknowledge` is an LREM of the
worker's text and, when that finds nothing, one of the plain text of the document. The history
variables tell its outcomes apart: `settled` counts jobs that an acknowledge of their worker removed
or a sweeper gave up on; `taken` those that the second acknowledge of a dead-lettered job
(`ackAgain`, `legacyAgain`) removed, whose own job is gone by then, so that what it
finds is another job of the document, just dequeued or pushed by the sweeper. A DLQ entry is not an
end: it takes nothing out of `documents:processing`. DLQ entries are counted, not
listed: nothing reads them but the admin listing.

*Engine.* A worker is both a consumer of `DocumentQueue` and a worker of `DocumentService`:
it takes a job in the three commands of `dequeue`, then `Deliver` is the last of them; the
steps of the attempt leave the lists alone until it ends in an acknowledge (one or two
commands; for a dead-lettered job twice that), in an exception, which leaves the job in `documents:processing`, or in a death. `alive` are the
worker processes that are there. `WorkerDies` takes one away for good, idle or at any point, and
nothing brings it back: docker-compose.yml has no restart policy for workers. One that an operator
starts in its place is another element of `Workers`.
A push of a request is an `Enqueue`. A request may start only when the list is shorter than
`QUEUE_MAX_LENGTH`, and is turned away only when it is not; `MaxConcurrent` bounds the requests
open at a time. As in the repository there is no sweeper. A Redis command fails only with the
process that sent it (`"redis"` is not among the faults): lost replies are in `DocumentService`.

*Processes.* A worker is at `list`, `create` (`ensure_collection_exists`), `loop`, `take` (the
blocking BRPOPLPUSH) or `job`; what happens in a job is in `DocumentWorker`. The calls of
`ensure_collection_exists` are outside the `try` of `run`, so an error ends the process; Qdrant is
taken to refuse the creation of a collection that exists. `main` closes the Qdrant client on the
way out, which changes nothing here. The API serves once `check_all_infrastructure` has got an
answer of all three services; an outage (`Flip`) may begin or end between any two calls. Nobody
restarts a process by himself: docker-compose.yml has a restart policy for the services only.

*Chunking.* A text is its length, a chunk an interval of positions.

### Not modelled

What embeddings and the LLM compute (mocks without state), scores and order of search results,
the liveness probe (it checks nothing), metrics, settings but `QUEUE_MAX_LENGTH`, status codes,
logging, the wiring of dependencies. An upload for an unknown id (answered 404, its file stays).
The scripts, which drive the API or repeat its start-up check from outside, and the migrations,
which create the table that the models start from. A Redis command other than INCR that is
resent after a timeout and takes effect twice. That API and workers see one upload directory is
taken for granted, as `file_path` does; docker-compose.yml gives them no volume in common. Nothing in `src/` calls `requeue_stale_jobs` or
`retry_document`: the models have a sweeper and an `OperatorRetry` switch, because the code
provides them.

## Runs

| Run | Instance | Shows |
|---|---|---|
| `service_faults` | 1 document, 2 workers, 1 upload, 1 ingest, all faults, `retry_document`, limit 1 | `TypeOK`; `ClaimsBounded`: claims never exceed 1 + `retry_count`; `RetryKeyBounded` |
| `service_uploads` | 1 document, 2 workers, 2 uploads, 2 names, Redis and index faults | `ClaimExclusive`, `PendingFileOnDisk`, `DoneMeansIndexed`; `DoneIndexIsOneText`: a DONE document has nothing in the index or the whole text of one of its uploads, and half a text or a mixture only where two uploads share a name; `DoneIndexStays`: no late or repeated delivery changes that; `TornNeedsSameName`: half a text is read only where two uploads share a name; `FileHasOwner`: no file is forgotten but those of refused, failed or replaced uploads |
| `service_single` | 1 document, 1 worker, 2 uploads, crash, database, index and file faults, `retry_document`, limit 2 | `LifecycleSpec`: the detailed model implements `DocumentLifecycle` |
| `queue` | 1 document, 2 jobs, 2 consumers and 1 sweeper that may die anywhere, a clock of one tick, timeout 1 | `QueueTypeOK`; `LedgerSpec`: the lists implement `JobLedger`, so a death loses only what the dead had between two lists, no LREM takes two texts, and a job is taken for another only by the second acknowledge of a dead-lettered one; `PlainJobsBeingEnriched` |
| `engine` | 1 document, 2 workers, 2 uploads, 1 ingest, queue limit 1, 2 concurrent requests, crashes and database failures | `AcknowledgedIsFinal`: a job is acknowledged only when its document is final; `RestExplained`: what a document can be left in; `BackpressureSpec`; `ComesToRest`: if Postgres answers, all workers become idle, all requests end, and no job waits while a worker is left |
| `lifecycle` | 2 workers, the API, its probe and searches, every pattern of outages | `TypeOK`; `RaceHasWinner`: while Qdrant answers, workers that start together never all die; `SearchWorksWithWorkers`; `OneLateJob`; `SigtermEndsWorker`; `NoServiceDownThroughout` |
| `chunking` | size 5, overlap 2, texts of up to 60 characters | `TypeOK`, `PassagesKept`, `ChunksWellFormed`, `Terminates` |

Runs that end in a violation, each the shortest example of something the documentation
says and the code does not do:

| Run | What is said | What happens |
|---|---|---|
| `done_overwritten` | repository.py:55 "DONE is always terminal" | An RPUSH takes effect but raises; the worker finishes; the API's handler, whose session still holds PENDING, writes FAILED over DONE. One worker suffices. |
| `dead_letter_zombie` | document_worker.py:138 "Acknowledge to remove from processing queue (prevent zombie)" | The document is final already, `mark_failed` raises, the acknowledge is never reached. |
| the same run | README.md:162 "Document reprocessed if ack lost" | The job of a DONE document comes again, as after a lost acknowledge. It is refused, counted as a failure, and in the end dead-lettered: the document is never reprocessed (`ClaimsBounded`), although safe in that its index stays (`DoneIndexStays`). |
| `upload_lost` | upload.py:25 "Validates state, ... and enqueues for processing" | The document is claimed, without a file, between the SELECT and the UPDATE of the upload: 202, DONE, nothing indexed. |
| `job_lost` | document_queue.py:32 "Job stays in processing queue until acknowledged" | A crash between LREM and LPUSH. |
| `crash_not_retried` | README.md:107-111, a worker crash: "retry overwrites partial work safely" | The redelivered job finds PROCESSING and is refused; `mark_failed` then makes the document FAILED, which is final. |

README.md:59 promises "FIFO ordering" as well; `enqueue` pushes right and BRPOPLPUSH pops right, so
the last job in is the first out. That needs no model checker and has no run.

### Bounds

Documents share nothing but workers, so one document shows every interaction; two workers
are what it takes for a stale session to meet a commit, two uploads for a file name to be
reused and for a path to be replaced. A text has one or two chunks, so an upsert can stop half way and a
shorter text can leave the tail of a longer one. `MaxRetries` is 1 or 2 instead of 3: the
counters pass their limit in the same way. Each ingest and upload request runs once; a
client that repeats is another request. In the queue, two jobs for one document make two
equal texts, and one tick with visibility timeout 1 makes a job stale while its worker
still holds it; a second requeue of the same job meets the same steps again. In the engine
three requests, two at a time, against a limit of one: without the check the list would grow
to three, with it to two. Two workers starting together are enough for one to lose the
race. Worker and consumer symmetry is used in runs without liveness.

Deadlock checking is off: clients have a finite number of requests, and when the last is
done and nothing was enqueued the system stands still, as it may; the chunking loop ends.

### Fairness

- `ChunkingService`: the loop, which is sequential code, goes on as long as it can.
- `IngestionEngine`: a worker that is there takes its steps, and each request that was let in runs
  on, as far as neither is waiting for the database: the Redis client has a `socket_timeout` and the
  Qdrant client a `timeout`. postgres.py sets no timeout of any kind, so a call of the database
  (`WorkerAtDatabase`, `RequestAtDatabase`) may wait for ever; that Postgres answers is the
  premise `DatabaseAnswers` of `ComesToRest`, not part of the specification. No client has to send
  anything. Faults are steps of their own (`WorkerFails`, `WorkerDies`, `RequestFails`) and have no
  fairness, so nothing comes to rest only because it failed; a dead worker takes no step any more,
  and if all are dead, jobs may wait for ever, which `ComesToRest` says.
- `ProcessLifecycle`: a worker process takes its steps outside of jobs: BRPOPLPUSH returns after two
  seconds, and the calls of Qdrant time out. A job may wait for Postgres and need not
  end, so there is no fairness in it, and `SigtermEndsWorker` says that a worker told to stop ends or
  stays in its job for ever. Nobody has to start anything, and no service has to come back.

`DocumentService` and `DocumentQueue` have none, and only safety is claimed of them.

## Proofs

All theorems are about any number of documents, uploads, requests, workers, sweepers and
processes, and, where nothing else is said, any set of faults. Each leaf is checked by Z3, Zenon
or LS4; nothing is assumed but the named constant assumptions listed below.

### Documents (`DocumentServiceProofs`)

- `TypeCorrect`, `TypesHold`: `TypeInv` is inductive. `TypeOK` alone is not: a worker that
  indexes must have read a text and a request must have its document, which `Grounded` adds.
- `DocumentMoves` lists all that one step can do to a row: nothing, appear, be claimed from
  PENDING, be overwritten with DONE or FAILED, or be reopened by `retry_document`. The
  overwriting is unconditional, since the session decides on what it cached, and yet enough.
- `ClaimsAreBounded` follows from it: no overwriting leads back to PENDING, and only a locking
  read that sees PENDING leads to PROCESSING.
- `ClaimsAreExclusive` (without `retry_document`): the inductive invariant adds
  `ProcessingNotPending`, that a document a worker holds has left PENDING for good; then
  nobody else can claim it. Exclusion by itself says nothing about the row and is not
  inductive. `retry_document` does break it: it reopens a document on whose old attempt a
  worker may still be at work.
- `DoneOnlyWhenIndexed` and `DoneIndexIsKept` (without `retry_document`): `IndexInv` says that
  nothing is indexed before a claim, that the index of a document being processed is blank until
  the upsert and exactly the worker's text after it, and that such a document is not DONE. With
  exclusion, nobody else touches those points.
- `RetryKeyIsBounded`: reading the retry counter, failing and incrementing it are far apart, so
  the bound on the counter is not inductive. What is: the counter plus all the failures that
  workers now in an attempt may still count. A worker enters an attempt only below the limit.
- `ImplementsLifecycle` (one worker, no failing Redis command): `CacheIsCurrent` says that
  the status a session has cached is that of the row wherever `update_status` would act on it.
  More workers, or an enqueue that raises after it took effect, break it: the run
  `done_overwritten` shows the latter.

### Files (`DocumentFileProofs`)

- `PathInv`, which all rest on, says who knows which path: rows and sessions know only
  paths of accepted uploads of their own document, and an upload about to commit holds
  the lock of the row or found its own path there.
- `OnlySameNameTears`: a half-written or mixed file belongs to an upload that is still saving or gave up.
  A worker reads what a row names, hence the file of an accepted upload: two
  uploads, one path.
- `DoneIndexIsWhole` (without `retry_document`): `IndexInv` gives one content, and `FileInv` and
  `TextInv` say where it is from: a file that is whole is an upload of its path; a file that is
  not is still being saved, or its upload gave up, or two wrote it; and what a worker or the index
  has of a document is an upload of that document, or `Torn`, and then two of them share a name
  (`Origin`).
- `PendingKeepsFile` (without database failures and `retry_document`): a worker that is past its
  claim, and a retry counter above zero, mean that the document has left PENDING (`BegunInv`), so
  only files of such documents are deleted. A failing claim breaks this, and is why the
  assumption is there: `mark_failed` then runs for a document that is still PENDING, and if its
  own transaction fails in turn the row stays PENDING while the file is deleted.
- `EveryFileHasOwner` (without crashes and disk failures): whoever loses sight of a path has
  deleted it (`Discarded`). A worker that dies between the commit and the unlink breaks it, and so
  does an unlink that fails, which is logged and forgotten.

### Lists (`DocumentQueueProofs`)

The first part is about lists: LREM of the first occurrence, a push and a pop change the number of
occurrences of a text by one, or not at all (`CopiesRemoveFirst`, `CopiesCons`, `CopiesFront`).

- `QueueTypesHold`: with what a consumer past the parsing knows of its text (`QueueInv`).
- `ImplementsLedger`: every Redis command of every consumer and sweeper is a step of `JobLedger`
  or leaves it alone, for any number of equal texts in the lists; the second acknowledge of a
  dead-lettered job may be a `TakeForOther`. `LedgerStep` is proved command by
  command; consumers and sweepers do not own what they remove, so an LREM that finds nothing is a
  case of its own.
- `JobsAreConserved` (without crashes): by the theorem of the ledger, which the refinement
  transfers. `taken` is on the right side, because a job that a second acknowledge took is gone for
  good; a DLQ entry and an acknowledge that found nothing are not. A crash breaks it, which is the
  run `job_lost`.
- `PlainJobsAreEnriched`: `PlainJobsBeingEnriched` is not inductive, for a worker may find that
  another has removed its text, and then only texts of another kind (another number of tries) can
  make up for it. `PlainInv` makes the claim for every choice among the plain texts of a document.
- `JobsAreKept` (without a sweeper, as in the repository): a document with a job has one in
  a list or in hands, or one that an acknowledge removed or a death lost. An entry in
  `documents:dlq` does not count: only an acknowledge removes from `documents:processing`.

`JobLedgerProofs` shows that the ledger loses nothing, per document: the sum of what waits, is out,
is moved, is settled, taken or lost never falls below what was pushed. Each action moves one unit or adds
one; typing is the only strengthening.

### Engine (`IngestionEngineProofs`)

- `EngineImplementsService`, `EngineImplementsQueue`: every step of the engine is a step of
  `DocumentService` or leaves its variables alone, and likewise of `DocumentQueue` with the
  workers as consumers. What is proved of the two holds of the engine.
- `AcknowledgedJobsAreFinal` needs both. `AckInv` ties a worker to its consumer: `HoldsJob` says
  that the place in `dequeue` and the place in the attempt belong together and are about one
  document. A worker about to acknowledge, for the first or the second time, is past the commit of
  an outcome (`Committed`), so its document is final; and final is for good without `retry_document`, which the
  engine, like the repository, never calls.
- `RestIsExplained`: `JobsKept` at rest leaves four cases, and a document of which an acknowledge
  removed a job is final by the theorem above.
- `ImplementsBackpressure`: a request past the check was admitted (`AdmittedInv`), and
  a step changes at most the request that takes it, so the number of requests between check and
  push changes by at most one and falls whenever the list grows. With `BackpressureProofs`, where
  the bound on the list is made inductive by counting what is on its way, this gives
  `PendingIsBounded`: list and pushes under way stay below the sum of limit and
  concurrent requests.

### Processes and chunking

`ProcessLifecycleProofs`: `RaceIsWon` rests on `Winner` (while Qdrant has failed nobody, whoever
created the collection lives, and before that nobody has failed), `SearchWorks` on the collection
being there for whoever loops, `AtMostOneLateJob` on the loop never going back to `take` without
the flag, `NothingDownThroughout` on `CheckInv`: a service that was asked has failed the check or
was up at some time of it.

`ChunkingServiceProofs` is about any chunk size, overlap below it, and text length. The
loop invariant `PassagesBeforeStart` says that passages beginning before `start` are kept
already; the next chunk takes those that begin before the next `start`, and holds them
whole because it reaches `overlap` characters further. `ChunkingTypeCorrect` has the bounds in the
type: chunks are intervals of the text, and `start` passes its end by less than one step.

### Assumptions

`MaxRetries` is positive (it is 3), `Overlap < ChunkSize` (50 and 500), the sets of workers,
consumers, sweepers, ingests and uploads are finite, there is a worker, `None` and `Torn` are no
data and no numbers. In the engine the queue limit and the number of concurrent requests are positive
and Redis commands fail only with the process that sends them. The hypotheses of single theorems
(no `retry_document`, no crash, and so on) are given above with the step that breaks the property
without them.

### Model-checked only

Liveness: `Terminates`, `ComesToRest`, `SigtermEndsWorker` (out of the prover's reach). That the
assumptions named above are needed is not proved: the runs that end in a violation show it for
`JobsConserved` and for the lifecycle. Every other property of a passing run is a theorem.

## Plan

1. Done: the modules and runs above, and a theorem for each of their safety properties.
2. Next: the hazards that no property covers yet. The unbounded requeueing of a job that always times
   out (the enriched text drops `retry_count`), and commands other than INCR that are resent.
3. Then theorems about the engine that neither part gives: that a document in
   `documents:pending` has a row (`Created` of the service, with the lists), and what a sweeper
   would add to `RestExplained`.
