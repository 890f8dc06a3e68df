-------------------------- MODULE DocumentLifecycle --------------------------
(***************************************************************************)
(* What the state machine of documents promises (models.py and the checks  *)
(* of update_status and retry_document): the status of each document, seen *)
(* from outside, with nothing about who writes it or when.                 *)
(***************************************************************************)
EXTENDS Naturals

CONSTANTS Docs, MaxRetries

VARIABLES status, retryCount

Move(d, from, to) == status[d] \in from /\ status' = [status EXCEPT ![d] = to]

Create(d) == Move(d, {"ABSENT"}, "PENDING") /\ UNCHANGED retryCount

Start(d) == Move(d, {"PENDING"}, "PROCESSING") /\ UNCHANGED retryCount

Complete(d) == Move(d, {"PROCESSING"}, "DONE") /\ UNCHANGED retryCount

Fail(d) == Move(d, {"PENDING", "PROCESSING"}, "FAILED") /\ UNCHANGED retryCount

Retry(d) ==
    /\ retryCount[d] < MaxRetries
    /\ Move(d, {"FAILED"}, "PENDING")
    /\ retryCount' = [retryCount EXCEPT ![d] = @ + 1]

Init ==
    /\ status = [d \in Docs |-> "ABSENT"]
    /\ retryCount = [d \in Docs |-> 0]

Next == \E d \in Docs :
    Create(d) \/ Start(d) \/ Complete(d) \/ Fail(d) \/ Retry(d)

Spec == Init /\ [][Next]_<<status, retryCount>>
=============================================================================
