------------------------ MODULE ProcessLifecycleProofs ------------------------
(***************************************************************************)
(* Theorems about ProcessLifecycle, for any finite set of workers and any  *)
(* pattern of outages.                                                     *)
(***************************************************************************)
EXTENDS ProcessLifecycle, TLAPS

USE DEF Infra, Checkers, Starting, Looping, Gone

THEOREM LifecycleTypeCorrect == Spec => []TypeOK
<1>1. Init => TypeOK
  <2> SUFFICES ASSUME Init PROVE TypeOK
    OBVIOUS
  <2>1. /\ collection \in BOOLEAN /\ qdrantFailed \in BOOLEAN
        /\ apiUp \in BOOLEAN /\ searchFailed \in BOOLEAN
    BY DEF Init
  <2>2. /\ at \in [Workers -> Starting \cup Looping \cup Gone]
        /\ running \in [Workers -> BOOLEAN]
        /\ lateJobs \in [Workers -> Nat]
    BY DEF Init
  <2>3. /\ up \subseteq Infra
        /\ next \in [Checkers -> Infra \cup {"none", "decide"}]
        /\ failed \in [Checkers -> SUBSET Infra] /\ seen \in [Checkers -> SUBSET Infra]
        /\ \A k \in Checkers : next[k] = "none" => failed[k] = {}
    BY DEF Init
  <2> QED
    BY <2>1, <2>2, <2>3 DEF TypeOK
<1>2. TypeOK /\ [Next]_vars => TypeOK'
  <2> SUFFICES ASSUME TypeOK, [Next]_vars PROVE TypeOK'
    OBVIOUS
  <2> USE DEF TypeOK, workerVars, checkVars, Goto
  <2>1. ASSUME NEW s \in Infra, Flip(s) PROVE TypeOK'
    BY <2>1 DEF Flip
  <2>2. ASSUME NEW w \in Workers, StartWorker(w) \/ StopWorker(w) PROVE TypeOK'
    <3>1. running' \in [Workers -> BOOLEAN]
      BY <2>2 DEF StartWorker, StopWorker
    <3>2. at' \in [Workers -> Starting \cup Looping \cup Gone] /\ lateJobs' \in [Workers -> Nat]
      BY <2>2 DEF StartWorker, StopWorker
    <3> QED
      BY <2>2, <3>1, <3>2 DEF StartWorker, StopWorker
  <2>3. ASSUME NEW w \in Workers, ListCollections(w) PROVE TypeOK'
    BY <2>3 DEF ListCollections
  <2>4. ASSUME NEW w \in Workers, CreateCollection(w) PROVE TypeOK'
    BY <2>4 DEF CreateCollection
  <2>5. ASSUME NEW w \in Workers, StartupError(w) PROVE TypeOK'
    BY <2>5 DEF StartupError
  <2>6. ASSUME NEW w \in Workers, Loop(w) PROVE TypeOK'
    BY <2>6 DEF Loop
  <2>7. ASSUME NEW w \in Workers, TakeJob(w) PROVE TypeOK'
    BY <2>7 DEF TakeJob
  <2>8. ASSUME NEW w \in Workers, NextRound(w) PROVE TypeOK'
    BY <2>8 DEF NextRound
  <2>9. ASSUME NEW k \in Checkers, BeginCheck(k) PROVE TypeOK'
    BY <2>9 DEF BeginCheck
  <2>10. ASSUME NEW k \in Checkers, CheckService(k) PROVE TypeOK'
    BY <2>10 DEF CheckService, After
  <2>11. CASE StartApi \/ AnswerProbe
    <3>1. apiUp' \in BOOLEAN
      BY <2>11 DEF StartApi, AnswerProbe
    <3>2. PICK k \in Checkers : Conclude(k)
      BY <2>11 DEF StartApi, AnswerProbe
    <3> QED
      BY <3>1, <3>2 DEF Conclude
  <2>12. CASE StopApi \/ Search
    BY <2>12 DEF StopApi, Search
  <2>13. CASE UNCHANGED vars
    BY <2>13 DEF vars
  <2> QED
    BY <2>1, <2>2, <2>3, <2>4, <2>5, <2>6, <2>7, <2>8, <2>9, <2>10, <2>11, <2>12, <2>13
       DEF Next, RunWorker
<1> QED
  BY <1>1, <1>2, PTL DEF Spec

-----------------------------------------------------------------------------
(* As long as Qdrant has failed nobody: before the collection is there no  *)
(* worker has failed, and once it is, some worker - the one that created   *)
(* it, wherever it is by then - is neither dead nor about to create it.    *)
Winner ==
    ~ qdrantFailed =>
        IF collection THEN \E w \in Workers : at[w] \notin {"create", "failed"}
                      ELSE \A w \in Workers : at[w] # "failed"

(* A worker that loops has seen or created the collection, which stays.    *)
CollectionForLooping == collection \/ \A w \in Workers : at[w] \notin Looping

StartInv == Winner /\ CollectionForLooping

LEMMA StartInvariant == Spec => []StartInv
<1>1. Init => StartInv
  BY DEF Init, StartInv, Winner, CollectionForLooping
<1>2. TypeOK /\ StartInv /\ [Next]_vars => StartInv'
  <2> SUFFICES ASSUME TypeOK, StartInv, [Next]_vars PROVE StartInv'
    OBVIOUS
  <2> USE DEF StartInv, Winner, CollectionForLooping, TypeOK, workerVars, Goto
  <2>1. CASE UNCHANGED <<at, collection, qdrantFailed>>
    BY <2>1
  <2>2. ASSUME NEW w \in Workers, StartWorker(w) PROVE StartInv'
    BY <2>2 DEF StartWorker
  <2>3. ASSUME NEW w \in Workers, ListCollections(w) PROVE StartInv'
    BY <2>3 DEF ListCollections
  <2>4. ASSUME NEW w \in Workers, CreateCollection(w) PROVE StartInv'
    BY <2>4 DEF CreateCollection
  <2>5. ASSUME NEW w \in Workers, StartupError(w) PROVE StartInv'
    BY <2>5 DEF StartupError
  <2>6. ASSUME NEW w \in Workers, Loop(w) \/ TakeJob(w) \/ NextRound(w) PROVE StartInv'
    BY <2>6 DEF Loop, TakeJob, NextRound
  <2> QED
    BY <2>1, <2>2, <2>3, <2>4, <2>5, <2>6
       DEF Next, RunWorker, vars, Flip, StopWorker, BeginCheck, CheckService, StartApi,
           AnswerProbe, Conclude, StopApi, Search
<1> QED
  BY <1>1, <1>2, LifecycleTypeCorrect, PTL DEF Spec

(* However many workers race to create the collection, and in whatever     *)
(* order: they do not all die of it.                                       *)
THEOREM RaceIsWon == Spec => []RaceHasWinner
<1>1. StartInv => RaceHasWinner
  BY LifecycleAssumption DEF StartInv, Winner, RaceHasWinner
<1> QED
  BY <1>1, StartInvariant, PTL

(* A search fails beside a worker that got through its start only because  *)
(* Qdrant does not answer, never for want of the collection.               *)
THEOREM SearchWorks == Spec => SearchWorksWithWorkers
<1>1. StartInv /\ [Next]_vars =>
        [\A w \in Workers : at[w] \in Looping /\ ~ searchFailed /\ searchFailed'
             => ~ Answers("qdrant")]_vars
  <2> SUFFICES ASSUME StartInv, Next, NEW w \in Workers,
                      at[w] \in Looping, ~ searchFailed, searchFailed'
               PROVE  ~ Answers("qdrant")
    OBVIOUS
  <2>1. Search
    BY DEF Next, RunWorker, Flip, StartWorker, StopWorker, ListCollections,
           CreateCollection, StartupError, Loop, TakeJob, NextRound, BeginCheck,
           CheckService, StartApi, AnswerProbe, Conclude, StopApi
  <2> QED
    BY <2>1 DEF Search, Searchable, StartInv, CollectionForLooping
<1> QED
  BY <1>1, StartInvariant, PTL DEF Spec, SearchWorksWithWorkers

-----------------------------------------------------------------------------
(* A late job is taken from "take" alone, and without the flag the loop    *)
(* does not lead back there.                                               *)
LateInv ==
    \A w \in Workers : /\ lateJobs[w] <= 1
                       /\ running[w] \/ at[w] = "take" => lateJobs[w] = 0

(* After SIGTERM a worker takes at most the one job it was waiting for.    *)
THEOREM AtMostOneLateJob == Spec => []OneLateJob
<1>1. Init => LateInv
  BY DEF Init, LateInv
<1>2. TypeOK /\ LateInv /\ [Next]_vars => LateInv'
  <2> SUFFICES ASSUME TypeOK, LateInv, [Next]_vars PROVE LateInv'
    OBVIOUS
  <2> USE DEF LateInv, TypeOK, workerVars, Goto
  <2>1. CASE UNCHANGED workerVars
    BY <2>1
  <2>2. ASSUME NEW w \in Workers, StartWorker(w) \/ StopWorker(w) PROVE LateInv'
    BY <2>2 DEF StartWorker, StopWorker
  <2>3. ASSUME NEW w \in Workers,
               ListCollections(w) \/ CreateCollection(w) \/ StartupError(w)
        PROVE  LateInv'
    BY <2>3 DEF ListCollections, CreateCollection, StartupError
  <2>4. ASSUME NEW w \in Workers, Loop(w) PROVE LateInv'
    BY <2>4 DEF Loop
  <2>5. ASSUME NEW w \in Workers, TakeJob(w) PROVE LateInv'
    BY <2>5 DEF TakeJob
  <2>6. ASSUME NEW w \in Workers, NextRound(w) PROVE LateInv'
    BY <2>6 DEF NextRound
  <2> QED
    BY <2>1, <2>2, <2>3, <2>4, <2>5, <2>6
       DEF Next, RunWorker, vars, Flip, BeginCheck, CheckService, StartApi, AnswerProbe,
           Conclude, StopApi, Search
<1>3. LateInv => OneLateJob
  BY DEF LateInv, OneLateJob
<1> QED
  BY <1>1, <1>2, <1>3, LifecycleTypeCorrect, PTL DEF Spec

-----------------------------------------------------------------------------
(* The services that a checker has asked already.                          *)
Asked(place) ==
    CASE place = "redis"  -> {"postgres"}
      [] place = "qdrant" -> {"postgres", "redis"}
      [] place = "decide" -> Infra
      [] OTHER            -> {}

(* While a check runs, what is up now counts as seen; and a service that   *)
(* was asked has failed the check or was up at some time of it.            *)
CheckInv ==
    \A k \in Checkers : /\ next[k] \in Infra => up \subseteq seen[k]
                        /\ Asked(next[k]) \subseteq failed[k] \cup seen[k]

(* No check concludes that all is well with a service down throughout it.  *)
THEOREM NothingDownThroughout == Spec => []NoServiceDownThroughout
<1>1. Init => CheckInv
  BY DEF Init, CheckInv, Asked
<1>2. TypeOK /\ CheckInv /\ [Next]_vars => CheckInv'
  <2> SUFFICES ASSUME TypeOK, CheckInv, [Next]_vars PROVE CheckInv'
    OBVIOUS
  <2> USE DEF CheckInv, TypeOK, checkVars
  <2>1. CASE UNCHANGED <<up, checkVars>>
    BY <2>1
  <2>2. ASSUME NEW s \in Infra, Flip(s) PROVE CheckInv'
    BY <2>2 DEF Flip, Asked
  <2>3. ASSUME NEW k \in Checkers, BeginCheck(k) PROVE CheckInv'
    BY <2>3 DEF BeginCheck, Asked
  <2>4. ASSUME NEW k \in Checkers, CheckService(k) PROVE CheckInv'
    BY <2>4 DEF CheckService, Asked, After
  <2>5. CASE StartApi \/ AnswerProbe
    BY <2>5 DEF StartApi, AnswerProbe, Conclude, Asked
  <2> QED
    BY <2>1, <2>2, <2>3, <2>4, <2>5
       DEF Next, RunWorker, vars, StartWorker, StopWorker, ListCollections,
           CreateCollection, StartupError, Loop, TakeJob, NextRound, StopApi, Search
<1>3. TypeOK /\ CheckInv => NoServiceDownThroughout
  BY DEF TypeOK, CheckInv, NoServiceDownThroughout, Asked
<1> QED
  BY <1>1, <1>2, <1>3, LifecycleTypeCorrect, PTL DEF Spec
=============================================================================
