----------------------------- MODULE Backpressure -----------------------------
(***************************************************************************)
(* What a length check buys when the check and the push are two commands:  *)
(* up to Slots requests that have passed the check may be on their way at  *)
(* the same time, and each of them pushes at most one job.                 *)
(***************************************************************************)
EXTENDS Integers

CONSTANTS Limit,        \* a request passes only below this length
          Slots         \* requests that can be on their way at once

VARIABLES length, inFlight

counts == <<length, inFlight>>

Init == length = 0 /\ inFlight = 0

Admit ==
    /\ length < Limit /\ inFlight < Slots
    /\ inFlight' = inFlight + 1
    /\ UNCHANGED length

Push ==
    /\ inFlight > 0
    /\ inFlight' = inFlight - 1
    /\ length' = length + 1

Leave ==
    /\ inFlight > 0
    /\ inFlight' = inFlight - 1
    /\ UNCHANGED length

Take ==
    /\ length > 0
    /\ length' = length - 1
    /\ UNCHANGED inFlight

Next == Admit \/ Push \/ Leave \/ Take

Spec == Init /\ [][Next]_counts

(* The list, with everything on its way to it, exceeds the limit by less   *)
(* than the number of requests that can be on their way.                   *)
Bounded == length + inFlight < Limit + Slots
=============================================================================
