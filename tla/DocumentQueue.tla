---------------------------- MODULE DocumentQueue ----------------------------
(***************************************************************************)
(* The Redis lists of document_queue.py: documents:pending,                *)
(* documents:processing and documents:dlq, the workers that take jobs from *)
(* them and the sweeper that puts stale jobs back.  Every Redis command is *)
(* one step; between two of them anybody else may run.                     *)
(*                                                                         *)
(* A payload is the JSON text of a job, and LREM compares texts: two       *)
(* payloads are the same text exactly if all their fields are the same.    *)
(* The head of a list is its left end.                                     *)
(***************************************************************************)
EXTENDS Naturals, SequencesExt

CONSTANTS Docs,         \* documents jobs are pushed for
          Consumers,    \* workers
          Sweepers,     \* callers of requeue_stale_jobs (none in src)
          Faults,       \* {"crash"} or {}
          MaxRetries,   \* max_retries of requeue_stale_jobs
          MaxAge,       \* max_age_seconds
          MaxTime,      \* bound: the clock stops here
          MaxPushes,    \* bound: jobs pushed for each document
          None

ASSUME QueueAssumption ==
    /\ {MaxRetries, MaxAge, MaxTime, MaxPushes} \subseteq Nat
    /\ MaxAge > 0
    /\ IsFiniteSet(Consumers) /\ IsFiniteSet(Sweepers)
    /\ None \notin Docs \cup Nat

VARIABLES pending,      \* documents:pending
          processing,   \* documents:processing
          dlq,          \* how many entries documents:dlq has for each document
          now,          \* time.time()
          at,           \* where each consumer stands
          raw,          \* the text it popped
          payload,      \* the text dequeue returned
          sweepAt,      \* where each sweeper stands
          items,        \* what is left of its snapshot
          sweepTime,    \* when it took the snapshot
          pushed,       \* history, per document: jobs pushed,
          settled,      \* ended by an acknowledge, or dead-lettered by a sweeper,
          taken,        \* removed by an acknowledge that had no job left to end,
          lost,         \* lost by a death,
          stranded      \* left without a timestamp by a death

lists == <<pending, processing, dlq>>
consumerVars == <<at, raw, payload>>
sweeperVars == <<sweepAt, items, sweepTime>>
ends == <<settled, taken>>
history == <<pushed, ends, lost, stranded>>
vars == <<lists, now, consumerVars, sweeperVars, history>>

Times == 0..MaxTime
Payload == [doc : Docs \cup {None}, started : Times \cup {None},
            tries : 0..(MaxRetries + 1) \cup {None}]
Plain(d) == [doc |-> d, started |-> None, tries |-> None]
(* A text that is not JSON, which dequeue and sweeper reject alike.  (JSON  *)
(* without a document_id, which the sweeper skips, is left out.)           *)
Malformed == Plain(None)

(* acknowledge is one LREM, of the text dequeue returned, and another one, *)
(* of the plain ("legacy") text, when that finds nothing.  A job that the  *)
(* worker dead-letters is acknowledged twice: by process, and then again   *)
(* by run.                                                                 *)
LegacyOf == [ack |-> "legacy", dlqAck |-> "dlqLegacy", ackAgain |-> "legacyAgain"]
Acknowledging == DOMAIN LegacyOf
Legacy == {LegacyOf[a] : a \in Acknowledging}
ConsumerStates == {"idle", "remove", "replace", "reject", "drop", "work", "deadLettered"}
                    \cup Acknowledging \cup Legacy

QueueTypeOK ==
    /\ pending \in Seq(Payload) /\ processing \in Seq(Payload)
    /\ dlq \in [Docs \cup {None} -> Nat]
    /\ now \in Times
    /\ at \in [Consumers -> ConsumerStates]
    /\ raw \in [Consumers -> Payload] /\ payload \in [Consumers -> Payload]
    /\ sweepAt \in [Sweepers -> {"idle", "next", "move"}]
    /\ items \in [Sweepers -> Seq(Payload)] /\ sweepTime \in [Sweepers -> Times]
    /\ pushed \in [Docs -> 0..MaxPushes]
    /\ settled \in [Docs -> Nat] /\ taken \in [Docs -> Nat]
    /\ lost \in [Docs -> Nat] /\ stranded \in [Docs -> Nat]

Init ==
    /\ pending = <<>> /\ processing = <<>>
    /\ dlq = [d \in Docs \cup {None} |-> 0]
    /\ now = 0
    /\ at = [c \in Consumers |-> "idle"]
    /\ raw = [c \in Consumers |-> Malformed]
    /\ payload = [c \in Consumers |-> Malformed]
    /\ sweepAt = [s \in Sweepers |-> "idle"]
    /\ items = [s \in Sweepers |-> <<>>]
    /\ sweepTime = [s \in Sweepers |-> 0]
    /\ pushed = [d \in Docs |-> 0]
    /\ settled = [d \in Docs |-> 0] /\ taken = [d \in Docs |-> 0]
    /\ lost = [d \in Docs |-> 0] /\ stranded = [d \in Docs |-> 0]

ConsumerGoto(c, next) == at' = [at EXCEPT ![c] = next]
SweeperGoto(s, next) == sweepAt' = [sweepAt EXCEPT ![s] = next]

(* The call is over: what it held no longer matters.                       *)
Return(c) ==
    /\ ConsumerGoto(c, "idle")
    /\ raw' = [raw EXCEPT ![c] = Malformed]
    /\ payload' = [payload EXCEPT ![c] = Malformed]

DeadLetter(d) == dlq' = [dlq EXCEPT ![d] = @ + 1]
PushProcessing(p) == processing' = <<p>> \o processing
(* Mutant: LREM with count 0, which removes every occurrence.              *)
RemoveEvery(p) == processing' = Remove(processing, p)

(* LREM documents:processing 1 p                                           *)
RemoveProcessing(p) == processing' = RemoveFirst(processing, p)

-----------------------------------------------------------------------------
Tick ==
    /\ now < MaxTime
    /\ now' = now + 1
    /\ UNCHANGED <<lists, consumerVars, sweeperVars, history>>

Enqueue(d) ==
    /\ pushed[d] < MaxPushes
    /\ pending' = Append(pending, Plain(d))
    /\ pushed' = [pushed EXCEPT ![d] = @ + 1]
    /\ UNCHANGED <<processing, dlq, now, consumerVars, sweeperVars, ends, lost, stranded>>

(* Somebody pushes a text that dequeue cannot parse; one is enough.        *)
EnqueueMalformed ==
    /\ Malformed \notin ToSet(pending) \cup ToSet(processing)
    /\ dlq[None] = 0
    /\ pending' = Append(pending, Malformed)
    /\ UNCHANGED <<processing, dlq, now, consumerVars, sweeperVars, history>>

(* Mutant: the text says when the job becomes stale, not when it started.  *)
EnrichedWithDeadline(p) == [doc |-> p.doc, started |-> now + MaxAge, tries |-> None]

(* The text that replaces p; a retry_count that p had is not carried over. *)
Enriched(p) == [doc |-> p.doc, started |-> now, tries |-> None]

(* Mutant: BRPOP instead of BRPOPLPUSH.                                    *)
DequeueWithoutCopy(c) ==
    LET p == Last(pending) IN
    /\ at[c] = "idle"
    /\ pending # <<>>
    /\ pending' = Front(pending)
    /\ raw' = [raw EXCEPT ![c] = p]
    /\ payload' = [payload EXCEPT ![c] = Enriched(p)]
    /\ ConsumerGoto(c, IF p.doc = None THEN "reject" ELSE "remove")
    /\ UNCHANGED <<processing, dlq, now, sweeperVars, history>>

(* BRPOPLPUSH takes the right end, where Enqueue appends.  time.time() is  *)
(* taken before the next command.  (A text that has a timestamp already    *)
(* would be returned as it is; nobody pushes one.)                         *)
Dequeue(c) ==
    LET p == Last(pending) IN
    /\ at[c] = "idle"
    /\ pending # <<>>
    /\ pending' = Front(pending)
    /\ PushProcessing(p)
    /\ raw' = [raw EXCEPT ![c] = p]
    /\ payload' = [payload EXCEPT ![c] = Enriched(p)]
    /\ ConsumerGoto(c, IF p.doc = None THEN "reject" ELSE "remove")
    /\ UNCHANGED <<dlq, now, sweeperVars, history>>

(* Mutant: the new text is removed instead of the old one.                 *)
RemoveNewText(c) ==
    /\ at[c] = "remove"
    /\ RemoveProcessing(payload[c])
    /\ ConsumerGoto(c, "replace")
    /\ UNCHANGED <<pending, dlq, now, raw, payload, sweeperVars, history>>

(* "Atomically replace: remove old, add enriched" are two commands.        *)
RemoveRaw(c) ==
    /\ at[c] = "remove"
    /\ RemoveProcessing(raw[c])
    /\ ConsumerGoto(c, "replace")
    /\ UNCHANGED <<pending, dlq, now, raw, payload, sweeperVars, history>>

PushEnriched(c) ==
    /\ at[c] = "replace"
    /\ PushProcessing(payload[c])
    /\ ConsumerGoto(c, "work")
    /\ UNCHANGED <<pending, dlq, now, raw, payload, sweeperVars, history>>

(* A text that does not parse: first into the DLQ, then out of processing. *)
RejectMalformed(c) ==
    /\ at[c] = "reject"
    /\ DeadLetter(None)
    /\ ConsumerGoto(c, "drop")
    /\ UNCHANGED <<pending, processing, now, raw, payload, sweeperVars, history>>

DropMalformed(c) ==
    /\ at[c] = "drop"
    /\ RemoveProcessing(raw[c])
    /\ Return(c)
    /\ UNCHANGED <<pending, dlq, now, sweeperVars, history>>

-----------------------------------------------------------------------------
(* What the worker does with the job: it may push it to the DLQ; then it   *)
(* returns, or it raises and the job stays in documents:processing.        *)
DeadLetterJob(c) ==
    /\ at[c] = "work"
    /\ DeadLetter(payload[c].doc)
    /\ ConsumerGoto(c, "deadLettered")
    /\ UNCHANGED <<pending, processing, now, raw, payload, sweeperVars, history>>

JobDone(c) ==
    /\ at[c] \in {"work", "deadLettered"}
    /\ ConsumerGoto(c, IF at[c] = "work" THEN "ack" ELSE "dlqAck")
    /\ UNCHANGED <<lists, now, raw, payload, sweeperVars, history>>

JobFailed(c) ==
    /\ at[c] \in {"work", "deadLettered"}
    /\ Return(c)
    /\ UNCHANGED <<lists, now, sweeperVars, history>>

Count(f, d, happens) == [e \in Docs |-> IF happens /\ e = d THEN f[e] + 1 ELSE f[e]]

(* LREM of p by an acknowledge.  What the last acknowledge of a            *)
(* dead-lettered job removes is some other job, for its own is gone.       *)
EndJob(c, p) ==
    LET again == at[c] \in {"ackAgain", "legacyAgain"}
        found == Contains(processing, p) IN
    /\ RemoveProcessing(p)
    /\ settled' = Count(settled, p.doc, found /\ ~ again)
    /\ taken' = Count(taken, p.doc, found /\ again)

EndAcknowledge(c) ==
    IF at[c] \in {"dlqAck", "dlqLegacy"}
    THEN ConsumerGoto(c, "ackAgain") /\ UNCHANGED <<raw, payload>>
    ELSE Return(c)

Acknowledge(c) ==
    /\ at[c] \in Acknowledging
    /\ Contains(processing, payload[c])
    /\ EndJob(c, payload[c])
    /\ EndAcknowledge(c)
    /\ UNCHANGED <<pending, dlq, now, sweeperVars, pushed, lost, stranded>>

AcknowledgeMisses(c) ==
    /\ at[c] \in Acknowledging
    /\ ~ Contains(processing, payload[c])
    /\ ConsumerGoto(c, LegacyOf[at[c]])
    /\ UNCHANGED <<lists, now, raw, payload, sweeperVars, history>>

AcknowledgeLegacy(c) ==
    /\ at[c] \in Legacy
    /\ EndJob(c, Plain(payload[c].doc))
    /\ EndAcknowledge(c)
    /\ UNCHANGED <<pending, dlq, now, sweeperVars, pushed, lost, stranded>>

(* The process dies, or a Redis command fails, perhaps after it took       *)
(* effect, and the loop starts over.                                       *)
Crash(c) ==
    LET d == payload[c].doc IN
    /\ "crash" \in Faults
    /\ at[c] # "idle"
    /\ Return(c)
    /\ lost' = Count(lost, d, at[c] = "replace")
    /\ stranded' = Count(stranded, d, at[c] = "remove")
    /\ UNCHANGED <<lists, now, sweeperVars, pushed, ends>>

-----------------------------------------------------------------------------
(* requeue_stale_jobs works through a snapshot of documents:processing.    *)
Snapshot(s) ==
    /\ sweepAt[s] = "idle"
    /\ processing # <<>>
    /\ items' = [items EXCEPT ![s] = processing]
    /\ sweepTime' = [sweepTime EXCEPT ![s] = now]
    /\ SweeperGoto(s, "next")
    /\ UNCHANGED <<lists, now, consumerVars, history>>

Stale(p, time) == p.started # None /\ time >= p.started + MaxAge
Tries(p) == IF p.tries = None THEN 0 ELSE p.tries

NextItem(s) == items' = [items EXCEPT ![s] = Tail(@)]

SkipItem(s) ==
    /\ sweepAt[s] = "next"
    /\ items[s] # <<>>
    /\ items[s][1] # Malformed
    /\ ~ Stale(items[s][1], sweepTime[s])
    /\ NextItem(s)
    /\ UNCHANGED <<lists, now, consumerVars, sweepAt, sweepTime, history>>

(* LREM, whether or not the item is still there ...                        *)
RemoveStale(s) ==
    /\ sweepAt[s] = "next"
    /\ items[s] # <<>>
    /\ items[s][1] = Malformed \/ Stale(items[s][1], sweepTime[s])
    /\ RemoveProcessing(items[s][1])
    /\ SweeperGoto(s, "move")
    /\ UNCHANGED <<pending, dlq, now, consumerVars, items, sweepTime, history>>

(* ... then the DLQ, or documents:pending with one more try on it.         *)
MoveStale(s) ==
    LET p == items[s][1] IN
    /\ sweepAt[s] = "move"
    /\ IF p = Malformed \/ Tries(p) >= MaxRetries
       THEN /\ DeadLetter(p.doc)
            /\ settled' = Count(settled, p.doc, TRUE)
            /\ UNCHANGED pending
       ELSE /\ pending' = <<[Plain(p.doc) EXCEPT !.tries = Tries(p) + 1]>> \o pending
            /\ UNCHANGED <<dlq, settled>>
    /\ NextItem(s)
    /\ SweeperGoto(s, "next")
    /\ UNCHANGED <<processing, now, consumerVars, sweepTime, pushed, taken, lost, stranded>>

ForgetSweep(s) ==
    /\ items' = [items EXCEPT ![s] = <<>>]
    /\ sweepTime' = [sweepTime EXCEPT ![s] = 0]
    /\ SweeperGoto(s, "idle")

EndSweep(s) ==
    /\ sweepAt[s] = "next" /\ items[s] = <<>>
    /\ ForgetSweep(s)
    /\ UNCHANGED <<lists, now, consumerVars, history>>

CrashSweep(s) ==
    /\ "crash" \in Faults
    /\ sweepAt[s] # "idle"
    /\ ForgetSweep(s)
    /\ lost' = Count(lost, items[s][1].doc, sweepAt[s] = "move")
    /\ UNCHANGED <<lists, now, consumerVars, pushed, ends, stranded>>

-----------------------------------------------------------------------------
ConsumerStep(c) ==
    \/ Dequeue(c) \/ RemoveRaw(c) \/ PushEnriched(c)
    \/ RejectMalformed(c) \/ DropMalformed(c)
    \/ DeadLetterJob(c) \/ JobDone(c) \/ JobFailed(c)
    \/ Acknowledge(c) \/ AcknowledgeMisses(c) \/ AcknowledgeLegacy(c) \/ Crash(c)

SweeperStep(s) ==
    Snapshot(s) \/ SkipItem(s) \/ RemoveStale(s) \/ MoveStale(s)
    \/ EndSweep(s) \/ CrashSweep(s)

Next ==
    \/ Tick
    \/ \E d \in Docs : Enqueue(d)
    \/ EnqueueMalformed
    \/ \E c \in Consumers : ConsumerStep(c)
    \/ \E s \in Sweepers : SweeperStep(s)

Spec == Init /\ [][Next]_vars

-----------------------------------------------------------------------------
ForDoc(list, d) == Cardinality({i \in DOMAIN list : list[i].doc = d})

(* A job between two commands that take it out of one list and put it into *)
(* another: in the hands of a consumer or of a sweeper.                    *)
ReplacedBy(d) == {c \in Consumers : at[c] = "replace" /\ payload[c].doc = d}
MovedBy(d) == {s \in Sweepers : sweepAt[s] = "move" /\ items[s][1].doc = d}
InHands(d) == Cardinality(ReplacedBy(d)) + Cardinality(MovedBy(d))

waiting == [d \in Docs |-> ForDoc(pending, d)]
out == [d \in Docs |-> ForDoc(processing, d)]
moving == [d \in Docs |-> InHands(d)]

(* The lists lose no job behind anybody's back.  Whatever consumers and    *)
(* sweepers do to each other's texts - stale snapshots, acknowledges of a  *)
(* text that has been replaced, double deliveries -, a step moves or       *)
(* copies a job, or it is one of three: an acknowledge or a sweeper ends   *)
(* it; a death loses what the dead had in hands, so that a job survives    *)
(* any crash before and after, in particular while it is processed; and    *)
(* the second acknowledge of a dead-lettered job takes the text of         *)
(* another.  No LREM takes two.                                            *)
Ledger == INSTANCE JobLedger

LedgerSpec == Ledger!Ledger

(* dequeue: "Job stays in processing queue until acknowledged": every job  *)
(* is in a list, in somebody's hands, or came to an end.  Not so when a    *)
(* worker dies between the LREM and the LPUSH of dequeue.                  *)
Accounted(d) == ForDoc(pending, d) + ForDoc(processing, d) + InHands(d) + settled[d]
JobsConserved == \A d \in Docs : pushed[d] <= Accounted(d)

(* requeue_stale_jobs skips jobs without a timestamp because "they're      *)
(* actively being enriched": for each of them a consumer is about to       *)
(* replace it, or died when it was, and then no sweep will ever move it.   *)
PlainJobsBeingEnriched ==
    \A d \in Docs :
        Cardinality({i \in DOMAIN processing :
                        processing[i].doc = d /\ processing[i].started = None})
            <= Cardinality({c \in Consumers : at[c] = "remove" /\ raw[c].doc = d})
                 + stranded[d]
=============================================================================
