--------------------------- MODULE ProcessLifecycle ---------------------------
(***************************************************************************)
(* The life of the processes: the API starts only after                    *)
(* check_all_infrastructure, which the readiness probe runs too; several   *)
(* workers create the Qdrant collection if it is missing, loop, and stop   *)
(* on SIGTERM; a search needs the collection.  Postgres, Redis and Qdrant  *)
(* come and go between any two calls.  Nobody restarts a worker or the API *)
(* but an operator (docker-compose.yml has no policy for them).  What      *)
(* happens inside a job is in DocumentWorker.                              *)
(***************************************************************************)
EXTENDS Naturals, FiniteSets

CONSTANT Workers        \* worker processes

ASSUME LifecycleAssumption == IsFiniteSet(Workers) /\ Workers # {}

Infra == {"postgres", "redis", "qdrant"}
Checkers == {"lifespan", "ready"}   \* who runs check_all_infrastructure

VARIABLES up,           \* the services that answer
          collection,   \* whether Qdrant has the collection
          qdrantFailed, \* history: Qdrant failed a starting worker
          at,           \* where each worker process stands
          running,      \* its flag, cleared by SIGTERM
          lateJobs,     \* history: jobs it took after that
          apiUp,        \* whether the API serves requests
          searchFailed, \* the outcome of the last search
          next,         \* the service each checker asks next
          failed,       \* the services that did not answer it
          seen          \* history: services that were up at some time of its check

workerVars == <<at, running, lateJobs>>
checkVars == <<next, failed, seen>>
vars == <<up, collection, qdrantFailed, workerVars, apiUp, searchFailed, checkVars>>

Starting == {"list", "create"}
Looping == {"loop", "take", "job"}
Gone == {"off", "stopped", "failed"}

TypeOK ==
    /\ up \subseteq Infra
    /\ collection \in BOOLEAN /\ qdrantFailed \in BOOLEAN
    /\ apiUp \in BOOLEAN /\ searchFailed \in BOOLEAN
    /\ at \in [Workers -> Starting \cup Looping \cup Gone]
    /\ running \in [Workers -> BOOLEAN]
    /\ lateJobs \in [Workers -> Nat]
    /\ next \in [Checkers -> Infra \cup {"none", "decide"}]
    /\ failed \in [Checkers -> SUBSET Infra] /\ seen \in [Checkers -> SUBSET Infra]
    /\ \A k \in Checkers : next[k] = "none" => failed[k] = {}

Init ==
    /\ up = Infra /\ collection = FALSE /\ qdrantFailed = FALSE
    /\ at = [w \in Workers |-> "off"]
    /\ running = [w \in Workers |-> FALSE]
    /\ lateJobs = [w \in Workers |-> 0]
    /\ apiUp = FALSE /\ searchFailed = FALSE
    /\ next = [k \in Checkers |-> "none"]
    /\ failed = [k \in Checkers |-> {}] /\ seen = [k \in Checkers |-> {}]

Answers(s) == s \in up
Goto(w, place) == at' = [at EXCEPT ![w] = place]

-----------------------------------------------------------------------------
(* A service stops answering, or answers again.                            *)
Flip(s) ==
    /\ up' = IF s \in up THEN up \ {s} ELSE up \cup {s}
    /\ seen' = [k \in Checkers |-> IF next[k] \in Infra THEN seen[k] \cup up' ELSE seen[k]]
    /\ UNCHANGED <<collection, qdrantFailed, workerVars, apiUp, searchFailed, next, failed>>

(* main: the signal handlers are in place before run starts.               *)
StartWorker(w) ==
    /\ at[w] \in Gone
    /\ Goto(w, "list")
    /\ running' = [running EXCEPT ![w] = TRUE]
    /\ lateJobs' = [lateJobs EXCEPT ![w] = 0]
    /\ UNCHANGED <<up, collection, qdrantFailed, apiUp, searchFailed, checkVars>>

StopWorker(w) ==
    /\ at[w] \notin Gone /\ running[w]
    /\ running' = [running EXCEPT ![w] = FALSE]
    /\ UNCHANGED <<up, collection, qdrantFailed, at, lateJobs, apiUp, searchFailed, checkVars>>

(* Mutant: the answer of get_collections is not looked at.                 *)
ListCollectionsIgnored(w) ==
    /\ at[w] = "list" /\ Answers("qdrant")
    /\ Goto(w, "create")
    /\ UNCHANGED <<up, collection, qdrantFailed, running, lateJobs, apiUp, searchFailed, checkVars>>

(* ensure_collection_exists: look, ...                                     *)
ListCollections(w) ==
    /\ at[w] = "list" /\ Answers("qdrant")
    /\ Goto(w, IF collection THEN "loop" ELSE "create")
    /\ UNCHANGED <<up, collection, qdrantFailed, running, lateJobs, apiUp, searchFailed, checkVars>>

(* ... then create.  Qdrant refuses a name that another worker has created *)
(* meanwhile; the exception leaves run, and main shuts the worker down.    *)
CreateCollection(w) ==
    /\ at[w] = "create" /\ Answers("qdrant")
    /\ Goto(w, IF collection THEN "failed" ELSE "loop")
    /\ collection' = TRUE
    /\ UNCHANGED <<up, qdrantFailed, running, lateJobs, apiUp, searchFailed, checkVars>>

(* Mutant: the worker starts without the collection.                       *)
StartupErrorIgnored(w) ==
    /\ at[w] \in Starting
    /\ ~ Answers("qdrant")
    /\ Goto(w, "loop")
    /\ qdrantFailed' = TRUE
    /\ UNCHANGED <<up, collection, running, lateJobs, apiUp, searchFailed, checkVars>>

(* Either call fails when Qdrant does not answer; the create may have been *)
(* done although its reply is lost.  Both calls are outside the try.       *)
StartupError(w) ==
    /\ at[w] \in Starting
    /\ \/ ~ Answers("qdrant") /\ UNCHANGED collection
       \/ at[w] = "create" /\ collection' = TRUE
    /\ Goto(w, "failed")
    /\ qdrantFailed' = TRUE
    /\ UNCHANGED <<up, running, lateJobs, apiUp, searchFailed, checkVars>>

-----------------------------------------------------------------------------
(* Mutant: while True.                                                     *)
LoopForEver(w) ==
    /\ at[w] = "loop"
    /\ Goto(w, "take")
    /\ UNCHANGED <<up, collection, qdrantFailed, running, lateJobs, apiUp, searchFailed, checkVars>>

(* while self.running; after the loop, shutdown closes the Qdrant client.  *)
Loop(w) ==
    /\ at[w] = "loop"
    /\ Goto(w, IF running[w] THEN "take" ELSE "stopped")
    /\ UNCHANGED <<up, collection, qdrantFailed, running, lateJobs, apiUp, searchFailed, checkVars>>

(* BRPOPLPUSH finds a job, also after SIGTERM came while it blocked.       *)
TakeJob(w) ==
    /\ at[w] = "take" /\ Answers("redis")
    /\ Goto(w, "job")
    /\ lateJobs' = [lateJobs EXCEPT ![w] = IF running[w] THEN @ ELSE @ + 1]
    /\ UNCHANGED <<up, collection, qdrantFailed, running, apiUp, searchFailed, checkVars>>

(* Its timeout of two seconds, or an error, leads back to the loop, and so *)
(* does every end of a job: acknowledged, failed, or a Redis error.        *)
NextRound(w) ==
    /\ at[w] \in {"take", "job"}
    /\ Goto(w, "loop")
    /\ UNCHANGED <<up, collection, qdrantFailed, running, lateJobs, apiUp, searchFailed, checkVars>>

RunWorker(w) ==
    \/ ListCollections(w) \/ CreateCollection(w) \/ StartupError(w)
    \/ Loop(w) \/ TakeJob(w) \/ NextRound(w)

-----------------------------------------------------------------------------
(* check_all_infrastructure asks the services one after the other.  The    *)
(* API is not up yet when lifespan asks, and is when the probe does.       *)
BeginCheck(k) ==
    /\ next[k] = "none"
    /\ k = "lifespan" => ~ apiUp
    /\ k = "ready" => apiUp
    /\ next' = [next EXCEPT ![k] = "postgres"]
    /\ seen' = [seen EXCEPT ![k] = up]
    /\ UNCHANGED <<up, collection, qdrantFailed, workerVars, apiUp, searchFailed, failed>>

After(s) == CASE s = "postgres" -> "redis" [] s = "redis" -> "qdrant" [] OTHER -> "decide"

(* Mutant: a check that logs its error and does not raise it again.        *)
CheckServiceQuietly(k) ==
    /\ next[k] \in Infra
    /\ next' = [next EXCEPT ![k] = After(@)]
    /\ UNCHANGED <<up, collection, qdrantFailed, workerVars, apiUp, searchFailed, failed, seen>>

CheckService(k) ==
    /\ next[k] \in Infra
    /\ next' = [next EXCEPT ![k] = After(@)]
    /\ failed' = [failed EXCEPT ![k] = @ \cup ({next[k]} \ up)]
    /\ UNCHANGED <<up, collection, qdrantFailed, workerVars, apiUp, searchFailed, seen>>

(* Mutant: the dict of one check is used again by the next one.            *)
ConcludeKeepingStatus(k) ==
    /\ next[k] = "decide"
    /\ next' = [next EXCEPT ![k] = "none"]
    /\ seen' = [seen EXCEPT ![k] = {}]
    /\ UNCHANGED <<up, collection, qdrantFailed, workerVars, searchFailed, failed>>

(* A check has its own status dict, which goes with its caller.            *)
Conclude(k) ==
    /\ next[k] = "decide"
    /\ next' = [next EXCEPT ![k] = "none"]
    /\ failed' = [failed EXCEPT ![k] = {}] /\ seen' = [seen EXCEPT ![k] = {}]
    /\ UNCHANGED <<up, collection, qdrantFailed, workerVars, searchFailed>>

(* lifespan raises, or the API serves.                                     *)
StartApi == Conclude("lifespan") /\ apiUp' = (failed["lifespan"] = {})

(* 200 or 503.                                                             *)
AnswerProbe == Conclude("ready") /\ UNCHANGED apiUp

(* The clients are closed, an error of a close is logged; a probe under    *)
(* way is answered first.                                                  *)
StopApi ==
    /\ apiUp /\ next["ready"] = "none"
    /\ apiUp' = FALSE
    /\ UNCHANGED <<up, collection, qdrantFailed, workerVars, searchFailed, checkVars>>

Searchable == Answers("qdrant") /\ collection

(* The embedding and the answer cannot fail; the query of Qdrant can.      *)
Search ==
    /\ apiUp
    /\ searchFailed' = ~ Searchable
    /\ UNCHANGED <<up, collection, qdrantFailed, workerVars, apiUp, checkVars>>

Next ==
    \/ \E s \in Infra : Flip(s)
    \/ \E w \in Workers : StartWorker(w) \/ StopWorker(w) \/ RunWorker(w)
    \/ \E k \in Checkers : BeginCheck(k) \/ CheckService(k)
    \/ StartApi \/ AnswerProbe \/ StopApi \/ Search

(* A worker process that is not in a job runs: what it waits for there is  *)
(* a call of Redis or Qdrant, and both clients are built with timeouts     *)
(* (redis.py, qdrant.py).  A job also calls Postgres, for which            *)
(* postgres.py sets none, so nothing is assumed about the end of a job.    *)
Spec == Init /\ [][Next]_vars /\ \A w \in Workers : WF_vars(at[w] # "job" /\ RunWorker(w))

-----------------------------------------------------------------------------
(* Workers that start together look for the collection before any of them  *)
(* has created it, and all but one of them die.  But one of them survives: *)
(* as long as Qdrant answers, never do all of them fail to start.          *)
RaceHasWinner == (\A w \in Workers : at[w] = "failed") => qdrantFailed

(* Jobs are taken, and searches fail for want of the collection, not at    *)
(* the same time: where a worker has got through its start, a search fails *)
(* only because Qdrant is down.                                            *)
SearchWorksWithWorkers ==
    [][\A w \in Workers : at[w] \in Looping /\ ~ searchFailed /\ searchFailed'
           => ~ Answers("qdrant")]_vars

(* SIGTERM ends a worker after at most one more job: the one for which it  *)
(* was already waiting when the flag was cleared.                          *)
OneLateJob == \A w \in Workers : lateJobs[w] <= 1

(* And it does end it, whatever services are down or coming back, unless   *)
(* the worker hangs in a job, waiting for Postgres.                        *)
SigtermEndsWorker ==
    \A w \in Workers : ~ running[w] ~> (at[w] \in Gone \/ [](at[w] = "job"))

(* The three checks are not a snapshot: services may come and go between   *)
(* them.  Yet nobody concludes that all is well - the API before it serves *)
(* its first request among them - while a service was down throughout.     *)
NoServiceDownThroughout ==
    \A k \in Checkers : next[k] = "decide" /\ failed[k] = {} => seen[k] = Infra
=============================================================================
