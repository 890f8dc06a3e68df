-------------------------- MODULE BackpressureProofs --------------------------
(* The length check bounds the list, for any limit and any concurrency.    *)
EXTENDS Backpressure, TLAPS

CountsOK == length \in Int /\ inFlight \in Nat

(* However many requests race between their check and their push, the list *)
(* and everything on its way to it stay below Limit + Slots.               *)
THEOREM ListIsBounded ==
    ASSUME Limit \in Nat \ {0}, Slots \in Nat
    PROVE  Spec => []Bounded
<1>1. Init => CountsOK /\ Bounded
  BY DEF Init, CountsOK, Bounded
<1>2. CountsOK /\ Bounded /\ [Next]_counts => CountsOK' /\ Bounded'
  <2> SUFFICES ASSUME CountsOK, Bounded, [Next]_counts PROVE CountsOK' /\ Bounded'
    OBVIOUS
  <2> USE DEF CountsOK, Bounded
  <2>1. CASE Admit
    BY <2>1 DEF Admit
  <2>2. CASE Push
    BY <2>2 DEF Push
  <2>3. CASE Leave
    BY <2>3 DEF Leave
  <2>4. CASE Take
    BY <2>4 DEF Take
  <2>5. CASE UNCHANGED counts
    BY <2>5 DEF counts
  <2> QED
    BY <2>1, <2>2, <2>3, <2>4, <2>5 DEF Next
<1> QED
  BY <1>1, <1>2, PTL DEF Spec
=============================================================================
