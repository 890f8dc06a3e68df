--------------------------- MODULE JobLedgerProofs ---------------------------
(* The ledger conserves jobs, for any set of documents.                    *)
EXTENDS JobLedger, TLAPS

Counts == [Docs -> Int]

LedgerTypeOK ==
    /\ pushed \in Counts /\ waiting \in Counts /\ out \in Counts
    /\ moving \in Counts /\ settled \in Counts /\ taken \in Counts /\ lost \in Counts

(* Every count of every document stays an integer.                         *)
LEMMA LedgerTyped == Ledger => []LedgerTypeOK
<1>1. LedgerInit => LedgerTypeOK
  BY DEF LedgerInit, LedgerTypeOK, Counts
<1>2. LedgerTypeOK /\ [LedgerNext]_jobs => LedgerTypeOK'
  <2> SUFFICES ASSUME LedgerTypeOK, [LedgerNext]_jobs PROVE LedgerTypeOK'
    OBVIOUS
  <2> USE DEF LedgerTypeOK, Counts, Inc, Dec, ends
  <2>1. CASE UNCHANGED jobs
    BY <2>1 DEF jobs
  <2>2. ASSUME NEW d \in Docs, Push(d) PROVE LedgerTypeOK'
    BY <2>2 DEF Push
  <2>3. ASSUME NEW d \in Docs, Take(d) PROVE LedgerTypeOK'
    BY <2>3 DEF Take
  <2>4. ASSUME NEW d \in Docs, Lift(d) PROVE LedgerTypeOK'
    BY <2>4 DEF Lift
  <2>5. ASSUME NEW d \in Docs, Replace(d) PROVE LedgerTypeOK'
    BY <2>5 DEF Replace
  <2>6. ASSUME NEW d \in Docs, Requeue(d) PROVE LedgerTypeOK'
    BY <2>6 DEF Requeue
  <2>7. ASSUME NEW d \in Docs, Bury(d) PROVE LedgerTypeOK'
    BY <2>7 DEF Bury
  <2>8. ASSUME NEW d \in Docs, Finish(d) PROVE LedgerTypeOK'
    BY <2>8 DEF Finish
  <2>9. ASSUME NEW d \in Docs, Lose(d) PROVE LedgerTypeOK'
    BY <2>9 DEF Lose
  <2>10. ASSUME NEW d \in Docs, TakeForOther(d) PROVE LedgerTypeOK'
    BY <2>10 DEF TakeForOther
  <2> QED
    BY <2>1, <2>2, <2>3, <2>4, <2>5, <2>6, <2>7, <2>8, <2>9, <2>10 DEF LedgerNext
<1> QED
  BY <1>1, <1>2, PTL DEF Ledger

(* No job goes missing but by the two ways the ledger names: what was      *)
(* pushed waits, is out, is being moved, is settled, was taken for another *)
(* job, or is lost.                                                        *)
THEOREM LedgerConserves == Ledger => []Conserved
<1>1. LedgerInit => Conserved
  <2> SUFFICES ASSUME LedgerInit, NEW d \in Docs
               PROVE pushed[d] <= waiting[d] + out[d] + moving[d] + settled[d] + taken[d] + lost[d]
    BY DEF Conserved
  <2>1. /\ pushed[d] = 0 /\ waiting[d] = 0 /\ out[d] = 0
        /\ moving[d] = 0 /\ settled[d] = 0 /\ taken[d] = 0 /\ lost[d] = 0
    BY DEF LedgerInit
  <2> QED
    BY <2>1
<1>2. LedgerTypeOK /\ Conserved /\ [LedgerNext]_jobs => Conserved'
  <2> SUFFICES ASSUME LedgerTypeOK, Conserved, [LedgerNext]_jobs,
                      NEW e \in Docs
               PROVE (pushed[e] <= waiting[e] + out[e] + moving[e]
                                     + settled[e] + taken[e] + lost[e])'
    BY DEF Conserved
  <2> USE DEF LedgerTypeOK, Counts, Conserved, Inc, Dec, ends
  <2>1. CASE UNCHANGED jobs
    BY <2>1 DEF jobs
  <2>2. ASSUME NEW d \in Docs, Push(d) \/ Take(d)
        PROVE (pushed[e] <= waiting[e] + out[e] + moving[e] + settled[e] + taken[e] + lost[e])'
    BY <2>2 DEF Push, Take
  <2>3. ASSUME NEW d \in Docs, Lift(d)
        PROVE (pushed[e] <= waiting[e] + out[e] + moving[e] + settled[e] + taken[e] + lost[e])'
    BY <2>3 DEF Lift
  <2>4. ASSUME NEW d \in Docs, Replace(d) \/ Requeue(d) \/ Lose(d)
        PROVE (pushed[e] <= waiting[e] + out[e] + moving[e] + settled[e] + taken[e] + lost[e])'
    BY <2>4 DEF Replace, Requeue, Lose
  <2>5. ASSUME NEW d \in Docs, Bury(d) \/ Finish(d) \/ TakeForOther(d)
        PROVE (pushed[e] <= waiting[e] + out[e] + moving[e] + settled[e] + taken[e] + lost[e])'
    BY <2>5 DEF Bury, Finish, TakeForOther
  <2> QED
    BY <2>1, <2>2, <2>3, <2>4, <2>5 DEF LedgerNext
<1> QED
  BY <1>1, <1>2, LedgerTyped, PTL DEF Ledger
=============================================================================
