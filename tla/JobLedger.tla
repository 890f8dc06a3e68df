------------------------------ MODULE JobLedger ------------------------------
(***************************************************************************)
(* What the job lists promise, counted per document: a job that was pushed *)
(* waits, is out for processing, is being moved by somebody, or came to an *)
(* end; it may be delivered more often than once; and the only ways to     *)
(* lose one are to die while moving it, and to take it for another.        *)
(***************************************************************************)
EXTENDS Integers

CONSTANT Docs

VARIABLES pushed,       \* jobs pushed so far
          waiting,      \* in documents:pending
          out,          \* in documents:processing
          moving,       \* taken out of one list, not yet put into the next
          settled,      \* ended, by an acknowledge or in the dead-letter queue
          taken,        \* removed by somebody whose own job had ended
          lost          \* gone with whoever moved it

ends == <<settled, taken, lost>>
jobs == <<pushed, waiting, out, moving, ends>>

LedgerInit ==
    LET zero == [d \in Docs |-> 0] IN
    /\ pushed = zero /\ waiting = zero /\ out = zero
    /\ moving = zero /\ settled = zero /\ taken = zero /\ lost = zero

Inc(d, f) == [f EXCEPT ![d] = @ + 1]
Dec(d, f) == [f EXCEPT ![d] = @ - 1]

Push(d) ==
    /\ pushed' = Inc(d, pushed) /\ waiting' = Inc(d, waiting)
    /\ UNCHANGED <<out, moving, ends>>

Take(d) ==
    /\ waiting' = Dec(d, waiting) /\ out' = Inc(d, out)
    /\ UNCHANGED <<pushed, moving, ends>>

(* Whoever wants to move a job goes on even if it is not there any more.   *)
Lift(d) ==
    /\ out' \in {out, Dec(d, out)} /\ moving' = Inc(d, moving)
    /\ UNCHANGED <<pushed, waiting, ends>>

Replace(d) ==
    /\ moving' = Dec(d, moving) /\ out' = Inc(d, out)
    /\ UNCHANGED <<pushed, waiting, ends>>

Requeue(d) ==
    /\ moving' = Dec(d, moving) /\ waiting' = Inc(d, waiting)
    /\ UNCHANGED <<pushed, out, ends>>

(* A sweeper gives up on the job it moves.                                 *)
Bury(d) ==
    /\ moving' = Dec(d, moving) /\ settled' = Inc(d, settled)
    /\ UNCHANGED <<pushed, waiting, out, taken, lost>>

Finish(d) ==
    /\ out' = Dec(d, out) /\ settled' = Inc(d, settled)
    /\ UNCHANGED <<pushed, waiting, moving, taken, lost>>

TakeForOther(d) ==
    /\ out' = Dec(d, out) /\ taken' = Inc(d, taken)
    /\ UNCHANGED <<pushed, waiting, moving, settled, lost>>

Lose(d) ==
    /\ moving' = Dec(d, moving) /\ lost' = Inc(d, lost)
    /\ UNCHANGED <<pushed, waiting, out, settled, taken>>

LedgerNext ==
    \E d \in Docs : \/ Push(d) \/ Take(d) \/ Lift(d) \/ Replace(d)
                    \/ Requeue(d) \/ Bury(d) \/ Finish(d)
                    \/ TakeForOther(d) \/ Lose(d)

Ledger == LedgerInit /\ [][LedgerNext]_jobs

(* Every job ever pushed is in a list, in somebody's hands, settled, taken *)
(* for another, or lost with whoever had it in hands.                      *)
Conserved ==
    \A d \in Docs :
        pushed[d] <= waiting[d] + out[d] + moving[d]
                       + settled[d] + taken[d] + lost[d]
=============================================================================
