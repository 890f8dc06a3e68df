------------------------- MODULE DocumentQueueProofs -------------------------
(***************************************************************************)
(* Theorems about the Redis lists of DocumentQueue, for any finite sets of *)
(* workers and sweepers, any number of documents and of jobs for each, any *)
(* limits and any deaths.                                                  *)
(***************************************************************************)
EXTENDS DocumentQueue, TLAPS, SequenceTheorems, FunctionTheorems, FiniteSetTheorems

(* How many entries of a list are one of these texts.                      *)
Positions(list, texts) == {i \in 1..Len(list) : list[i] \in texts}
Copies(list, texts) == Cardinality(Positions(list, texts))

(* The texts of a document, and those of them without a timestamp.         *)
Texts(d) == {p \in Payload : p.doc = d}
PlainTexts(d) == {p \in Texts(d) : p.started = None}

One(happens) == IF happens THEN 1 ELSE 0

(* Lists ------------------------------------------------------------------*)

LEMMA PositionsFinite ==
  ASSUME NEW S, NEW list \in Seq(S), NEW texts
  PROVE  IsFiniteSet(Positions(list, texts)) /\ Copies(list, texts) \in Nat
<1>1. IsFiniteSet(1..Len(list)) /\ Positions(list, texts) \in SUBSET (1..Len(list))
  BY FS_Interval, LenProperties DEF Positions
<1> QED
  BY <1>1, FS_Subset, FS_CardinalityType DEF Copies

(* One entry less is one copy less of what it was.                         *)
LEMMA CopiesWithout ==
  ASSUME NEW S, NEW long \in Seq(S), NEW short \in Seq(S), NEW k \in 1..Len(long),
         Len(short) = Len(long) - 1,
         \A i \in 1..Len(short) : short[i] = long[IF i < k THEN i ELSE i + 1],
         NEW texts
  PROVE  Copies(long, texts) = Copies(short, texts) + One(long[k] \in texts)
<1> DEFINE A == Positions(long, texts)
           B == Positions(short, texts)
           f == [i \in B |-> IF i < k THEN i ELSE i + 1]
<1>1. Len(long) \in Nat /\ Len(short) \in Nat
  BY LenProperties
<1>2. f \in [B -> A \ {k}]
  BY <1>1 DEF Positions
<1>3. \A a, b \in B : f[a] = f[b] => a = b
  BY <1>1 DEF Positions
<1>4. \A j \in A \ {k} : \E i \in B : f[i] = j
  <2> SUFFICES ASSUME NEW j \in A \ {k} PROVE \E i \in B : f[i] = j
    OBVIOUS
  <2>1. CASE j < k
    <3>1. j \in B
      BY <1>1, <2>1 DEF Positions
    <3> QED
      BY <2>1, <3>1
  <2>2. CASE j > k
    <3>1. j - 1 \in B /\ ~ (j - 1 < k) /\ j - 1 + 1 = j
      BY <1>1, <2>2 DEF Positions
    <3> QED
      BY <3>1
  <2>3. j \in Nat /\ k \in Nat /\ j # k
    BY <1>1 DEF Positions
  <2> QED
    BY <2>1, <2>2, <2>3
<1>5. ExistsBijection(B, A \ {k})
  <2>1. f \in Bijection(B, A \ {k})
    BY <1>2, <1>3, <1>4, Fun_IsBij
  <2> QED
    BY <2>1 DEF ExistsBijection
<1>6. Cardinality(A \ {k}) = Cardinality(B)
  BY <1>5, FS_Bijection, PositionsFinite
<1>7. Cardinality(A \ {k}) = IF k \in A THEN Cardinality(A) - 1 ELSE Cardinality(A)
  BY FS_RemoveElement, PositionsFinite
<1>8. k \in A <=> long[k] \in texts
  BY DEF Positions
<1>9. Cardinality(A) \in Nat /\ Cardinality(B) \in Nat
  BY PositionsFinite DEF Copies
<1> QED
  BY <1>6, <1>7, <1>8, <1>9 DEF Copies, One

(* RPUSH, LPUSH, and what BRPOPLPUSH does to the list it pops.             *)
LEMMA CopiesAppend ==
  ASSUME NEW S, NEW list \in Seq(S), NEW p \in S
  PROVE  /\ Append(list, p) \in Seq(S)
         /\ \A texts : Copies(Append(list, p), texts)
                         = Copies(list, texts) + One(p \in texts)
<1> DEFINE long == Append(list, p)
           k == Len(list) + 1
<1>1. /\ long \in Seq(S) /\ Len(list) \in Nat /\ Len(long) = k
      /\ \A i \in 1..Len(list) : long[i] = list[i]
      /\ long[k] = p
  BY AppendProperties, LenProperties
<1>2. k \in 1..Len(long) /\ Len(list) = Len(long) - 1
  BY <1>1
<1>3. \A i \in 1..Len(list) : list[i] = long[IF i < k THEN i ELSE i + 1]
  BY <1>1
<1> HIDE DEF long, k
<1>4. \A texts : Copies(long, texts) = Copies(list, texts) + One(long[k] \in texts)
  BY <1>1, <1>2, <1>3, CopiesWithout
<1> QED
  BY <1>1, <1>4 DEF long

LEMMA CopiesCons ==
  ASSUME NEW S, NEW list \in Seq(S), NEW p \in S
  PROVE  /\ <<p>> \o list \in Seq(S)
         /\ \A texts : Copies(<<p>> \o list, texts)
                         = Copies(list, texts) + One(p \in texts)
<1> DEFINE long == <<p>> \o list
<1>1. <<p>> \in Seq(S) /\ Len(<<p>>) = 1 /\ <<p>>[1] = p
  OBVIOUS
<1>2. /\ long \in Seq(S) /\ Len(list) \in Nat /\ Len(long) = Len(list) + 1
      /\ long[1] = p
      /\ \A i \in 1..Len(list) : long[i + 1] = list[i]
  BY <1>1, ConcatProperties, LenProperties
<1> HIDE DEF long
<1>3. 1 \in 1..Len(long) /\ Len(list) = Len(long) - 1
  BY <1>2
<1>4. \A i \in 1..Len(list) : list[i] = long[IF i < 1 THEN i ELSE i + 1]
  BY <1>2
<1>5. \A texts : Copies(long, texts) = Copies(list, texts) + One(long[1] \in texts)
  BY <1>2, <1>3, <1>4, CopiesWithout
<1> QED
  BY <1>2, <1>5 DEF long

LEMMA CopiesFront ==
  ASSUME NEW S, NEW list \in Seq(S), list # <<>>
  PROVE  /\ Front(list) \in Seq(S) /\ Last(list) \in S
         /\ \A texts : Copies(list, texts)
                         = Copies(Front(list), texts) + One(Last(list) \in texts)
<1>1. Len(list) \in Nat \ {0} /\ \A i \in 1..Len(list) : list[i] \in S
  BY EmptySeq, ElementOfSeq
<1>2. /\ Front(list) \in Seq(S) /\ Len(Front(list)) = Len(list) - 1
      /\ \A i \in 1..(Len(list) - 1) : Front(list)[i] = list[i]
  <2> DEFINE n == Len(list) - 1
  <2>1. n \in Nat /\ n - 1 + 1 = n /\ \A i \in 1..n : list[i] \in S /\ 1 + i - 1 = i
    BY <1>1
  <2> HIDE DEF n
  <2>2. /\ SubSeq(list, 1, n) \in Seq(S)
        /\ Len(SubSeq(list, 1, n)) = IF 1 <= n THEN n - 1 + 1 ELSE 0
        /\ \A i \in 1..(n - 1 + 1) : SubSeq(list, 1, n)[i] = list[1 + i - 1]
    BY <2>1, SubSeqProperties
  <2>3. Len(SubSeq(list, 1, n)) = n /\ \A i \in 1..n : SubSeq(list, 1, n)[i] = list[i]
    BY <2>1, <2>2
  <2> QED
    BY <2>2, <2>3 DEF Front, n
<1>3. Len(list) \in 1..Len(list)
  BY <1>1
<1>4. \A i \in 1..Len(Front(list)) :
        Front(list)[i] = list[IF i < Len(list) THEN i ELSE i + 1]
  BY <1>1, <1>2
<1> QED
  BY <1>1, <1>2, <1>3, <1>4, CopiesWithout DEF Last

(* LREM with count 1.                                                      *)
LEMMA LeastExists ==
  ASSUME NEW I \in SUBSET Nat, I # {}
  PROVE  \E m \in I : \A i \in I : m =< i
<1>1. PICK m \in I : \A y \in I : ~ (<<y, m>> \in OpToRel(<, Nat))
  BY WFMin, NatLessThanWellFounded, Zenon
<1>2. \A y \in I : ~ (y < m)
  BY <1>1 DEF OpToRel
<1> QED
  BY <1>2

LEMMA RemoveFirstRemoves ==
  ASSUME NEW S, NEW list \in Seq(S), NEW p, Contains(list, p)
  PROVE  \E k \in 1..Len(list) : list[k] = p /\ RemoveFirst(list, p) = RemoveAt(list, k)
<1> DEFINE I == {i \in 1..Len(list) : list[i] = p}
<1>1. I # {} /\ I \in SUBSET Nat
  BY DEF Contains
<1>2. Min(I) \in I
  BY <1>1, LeastExists DEF Min
<1>3. RemoveFirst(list, p) = RemoveAt(list, Min(I))
  BY <1>1 DEF RemoveFirst, SelectInSeq, Contains
<1> QED
  BY <1>2, <1>3

LEMMA CopiesRemoveFirst ==
  ASSUME NEW S, NEW list \in Seq(S), NEW p
  PROVE  /\ RemoveFirst(list, p) \in Seq(S)
         /\ ~ Contains(list, p) => RemoveFirst(list, p) = list
         /\ Contains(list, p) =>
              \A texts : Copies(list, texts)
                           = Copies(RemoveFirst(list, p), texts) + One(p \in texts)
<1>1. CASE ~ Contains(list, p)
  BY <1>1 DEF Contains, RemoveFirst
<1>2. CASE Contains(list, p)
  <2>1. PICK k \in 1..Len(list) : list[k] = p /\ RemoveFirst(list, p) = RemoveAt(list, k)
    BY <1>2, RemoveFirstRemoves
  <2> DEFINE left == SubSeq(list, 1, k - 1)
             right == SubSeq(list, k + 1, Len(list))
  <2>2. Len(list) \in Nat /\ \A i \in 1..Len(list) : list[i] \in S
    BY LenProperties, ElementOfSeq
  <2>3. /\ left \in Seq(S) /\ Len(left) = k - 1
        /\ \A i \in 1..(k - 1) : left[i] = list[i]
    <3>1. \A i \in 1..(k - 1) : list[i] \in S
      BY <2>2
    <3> QED
      BY <2>2, <3>1, SubSeqProperties
  <2>4. /\ right \in Seq(S) /\ Len(right) = Len(list) - k
        /\ \A i \in 1..(Len(list) - k) : right[i] = list[k + i]
    <3>1. \A i \in (k + 1)..Len(list) : list[i] \in S
      BY <2>2
    <3>2. /\ right \in Seq(S)
          /\ Len(right) = IF k + 1 <= Len(list) THEN Len(list) - (k + 1) + 1 ELSE 0
          /\ \A i \in 1..(Len(list) - (k + 1) + 1) : right[i] = list[(k + 1) + i - 1]
      <4>1. k + 1 \in Int /\ Len(list) \in Int
        BY <2>2
      <4> QED
        BY <4>1, <3>1, SubSeqProperties
    <3>3. Len(list) - (k + 1) + 1 = Len(list) - k
      BY <2>2
    <3>4. \A i \in 1..(Len(list) - k) : (k + 1) + i - 1 = k + i
      BY <2>2
    <3>5. Len(right) = Len(list) - k
      BY <2>2, <3>2
    <3> HIDE DEF right
    <3> QED
      BY <3>2, <3>3, <3>4, <3>5
  <2>5. RemoveAt(list, k) = left \o right
    BY DEF RemoveAt
  <2> HIDE DEF left, right
  <2>6. /\ left \o right \in Seq(S) /\ Len(left \o right) = Len(list) - 1
        /\ \A i \in 1..(Len(list) - 1) :
             (left \o right)[i] = IF i <= k - 1 THEN left[i] ELSE right[i - (k - 1)]
    <3>1. Len(left) + Len(right) = Len(list) - 1
      BY <2>2, <2>3, <2>4
    <3>2. /\ left \o right \in Seq(S) /\ Len(left \o right) = Len(left) + Len(right)
          /\ \A i \in 1..(Len(left) + Len(right)) :
               (left \o right)[i] = IF i <= Len(left) THEN left[i] ELSE right[i - Len(left)]
      BY <2>3, <2>4, ConcatProperties
    <3> QED
      BY <2>3, <3>1, <3>2
  <2>7. \A i \in 1..(Len(list) - 1) :
          (left \o right)[i] = list[IF i < k THEN i ELSE i + 1]
    BY <2>2, <2>3, <2>4, <2>6
  <2> DEFINE short == left \o right
  <2> HIDE DEF short
  <2>8. \A texts : Copies(list, texts) = Copies(short, texts) + One(list[k] \in texts)
    <3>1. /\ short \in Seq(S) /\ Len(short) = Len(list) - 1
          /\ \A i \in 1..Len(short) : short[i] = list[IF i < k THEN i ELSE i + 1]
      BY <2>6, <2>7 DEF short
    <3> QED
      BY <3>1, CopiesWithout
  <2> QED
    BY <1>2, <2>1, <2>5, <2>6, <2>8 DEF short
<1> QED
  BY <1>1, <1>2

(* Types ------------------------------------------------------------------*)

(* A worker past the parsing of a text has a document and the enriched     *)
(* text of it; one that could not parse has a text without document.       *)
Busy == {"remove", "replace", "work", "deadLettered"} \cup Acknowledging \cup Legacy
HasJob(c) ==
    /\ at[c] \in Busy => payload[c].doc \in Docs /\ payload[c].started # None
    /\ at[c] = "remove" => raw[c].doc = payload[c].doc
    /\ at[c] \in {"reject", "drop"} => raw[c].doc = None
HasItem(s) == sweepAt[s] = "move" => items[s] # <<>>

QueueInv ==
    /\ QueueTypeOK
    /\ \A c \in Consumers : HasJob(c)
    /\ \A s \in Sweepers : HasItem(s)

LEMMA CountTypes ==
  ASSUME NEW D, NEW f \in [D -> Nat], NEW d
  PROVE  [f EXCEPT ![d] = @ + 1] \in [D -> Nat]
<1>1. [f EXCEPT ![d] = @ + 1] = [e \in D |-> IF e = d THEN f[e] + 1 ELSE f[e]]
  OBVIOUS
<1>2. \A e \in D : (IF e = d THEN f[e] + 1 ELSE f[e]) \in Nat
  OBVIOUS
<1> QED
  BY <1>1, <1>2, Zenon

(* A history counts what happened to a document.                           *)
LEMMA CountType ==
  ASSUME NEW f \in [Docs -> Nat], NEW d, NEW happens \in BOOLEAN
  PROVE  Count(f, d, happens) \in [Docs -> Nat]
<1>1. \A e \in Docs : (IF happens /\ e = d THEN f[e] + 1 ELSE f[e]) \in Nat
  OBVIOUS
<1> QED
  BY <1>1 DEF Count

LEMMA PayloadTypes ==
  /\ \A d \in Docs \cup {None} : Plain(d) \in Payload
  /\ Malformed \in Payload
  /\ \A p \in Payload : now \in Times => Enriched(p) \in Payload
  /\ \A p \in Payload : Tries(p) \in Nat /\ (Tries(p) < MaxRetries =>
        [Plain(p.doc) EXCEPT !.tries = Tries(p) + 1] \in Payload)
<1>1. MaxRetries \in Nat /\ None \notin Nat
  BY QueueAssumption
<1> QED
  BY <1>1 DEF Payload, Plain, Malformed, Enriched, Tries

(* The first item of a snapshot, and what is left without it.              *)
LEMMA FirstItem ==
  ASSUME NEW s \in Sweepers, items \in [Sweepers -> Seq(Payload)], items[s] # <<>>
  PROVE  items[s][1] \in Payload /\ Tail(items[s]) \in Seq(Payload)
<1>1. items[s] \in Seq(Payload)
  OBVIOUS
<1>2. 1 \in 1..Len(items[s])
  BY <1>1, EmptySeq
<1> QED
  BY <1>1, <1>2, ElementOfSeq, HeadTailProperties

LEMMA ConsumerQueueInv ==
  ASSUME QueueInv, NEW c \in Consumers, ConsumerStep(c)
  PROVE  QueueInv'
<1> USE DEF QueueInv, QueueTypeOK, HasJob, HasItem, Busy, ConsumerStates, ConsumerGoto,
            Acknowledging, Legacy, LegacyOf, Return, lists, consumerVars, sweeperVars,
            ends, history
<1>1. CASE Dequeue(c)
  <2> DEFINE p == Last(pending)
  <2>1. p \in Payload /\ Front(pending) \in Seq(Payload)
    BY <1>1, CopiesFront DEF Dequeue
  <2>2. <<p>> \o processing \in Seq(Payload) /\ Enriched(p) \in Payload
    BY <2>1, CopiesCons, PayloadTypes
  <2>3. p.doc \in Docs \cup {None} /\ Enriched(p).doc = p.doc /\ Enriched(p).started # None
    BY <2>1, QueueAssumption DEF Payload, Enriched, Times
  <2> QED
    BY <1>1, <2>1, <2>2, <2>3 DEF Dequeue, PushProcessing
<1>2. CASE RemoveRaw(c) \/ DropMalformed(c) \/ Acknowledge(c) \/ AcknowledgeLegacy(c)
  <2>1. \A p : RemoveFirst(processing, p) \in Seq(Payload)
    BY CopiesRemoveFirst
  <2>2. processing' \in Seq(Payload)
    BY <1>2, <2>1
    DEF RemoveRaw, DropMalformed, Acknowledge, AcknowledgeLegacy, EndJob, RemoveProcessing
  <2>3. settled' \in [Docs -> Nat] /\ taken' \in [Docs -> Nat]
    <3>1. ASSUME NEW p, EndJob(c, p)
          PROVE  settled' \in [Docs -> Nat] /\ taken' \in [Docs -> Nat]
      BY <3>1 DEF Count, EndJob
    <3>2. UNCHANGED ends \/ \E p : EndJob(c, p)
      BY <1>2 DEF RemoveRaw, DropMalformed, Acknowledge, AcknowledgeLegacy
    <3> QED
      BY <3>1, <3>2
  <2>4. UNCHANGED <<pending, dlq, now, sweeperVars, pushed, lost, stranded>>
    BY <1>2 DEF RemoveRaw, DropMalformed, Acknowledge, AcknowledgeLegacy
  <2>5. \/ at[c] = "remove" /\ at' = [at EXCEPT ![c] = "replace"] /\ UNCHANGED <<raw, payload>>
        \/ /\ at[c] \in {"dlqAck", "dlqLegacy"} /\ at' = [at EXCEPT ![c] = "ackAgain"]
           /\ UNCHANGED <<raw, payload>>
        \/ Return(c)
    BY <1>2 DEF RemoveRaw, DropMalformed, Acknowledge, AcknowledgeLegacy, EndAcknowledge
  <2>6. CASE at[c] = "remove" /\ at' = [at EXCEPT ![c] = "replace"] /\ UNCHANGED <<raw, payload>>
    BY <2>2, <2>3, <2>4, <2>6
  <2>7. CASE Return(c)
    BY <2>2, <2>3, <2>4, <2>7, PayloadTypes
  <2>8. CASE /\ at[c] \in {"dlqAck", "dlqLegacy"} /\ at' = [at EXCEPT ![c] = "ackAgain"]
             /\ UNCHANGED <<raw, payload>>
    BY <2>2, <2>3, <2>4, <2>8
  <2> QED
    BY <2>5, <2>6, <2>7, <2>8
<1>3. CASE PushEnriched(c)
  <2>1. <<payload[c]>> \o processing \in Seq(Payload)
    BY CopiesCons
  <2> QED
    BY <1>3, <2>1 DEF PushEnriched, PushProcessing
<1>4. CASE RejectMalformed(c) \/ DeadLetterJob(c)
  <2>1. dlq' \in [Docs \cup {None} -> Nat]
    BY <1>4, CountTypes DEF RejectMalformed, DeadLetterJob, DeadLetter
  <2>2. UNCHANGED <<pending, processing, now, raw, payload, sweeperVars, history>>
    BY <1>4 DEF RejectMalformed, DeadLetterJob
  <2>3. \/ at[c] = "reject" /\ at' = [at EXCEPT ![c] = "drop"]
        \/ at[c] = "work" /\ at' = [at EXCEPT ![c] = "deadLettered"]
    BY <1>4 DEF RejectMalformed, DeadLetterJob
  <2>4. CASE at[c] = "reject" /\ at' = [at EXCEPT ![c] = "drop"]
    BY <2>1, <2>2, <2>4
  <2>5. CASE at[c] = "work" /\ at' = [at EXCEPT ![c] = "deadLettered"]
    BY <2>1, <2>2, <2>5
  <2> QED
    BY <2>3, <2>4, <2>5
<1>5. CASE JobDone(c) \/ JobFailed(c) \/ AcknowledgeMisses(c)
  <2>1. CASE JobDone(c)
    BY <1>5, <2>1 DEF JobDone
  <2>2. CASE JobFailed(c)
    BY <1>5, <2>2, PayloadTypes DEF JobFailed
  <2>3. CASE AcknowledgeMisses(c)
    BY <1>5, <2>3 DEF AcknowledgeMisses
  <2> QED
    BY <1>5, <2>1, <2>2, <2>3
<1>6. CASE Crash(c)
  <2>1. lost' \in [Docs -> Nat] /\ stranded' \in [Docs -> Nat]
    BY <1>6 DEF Count, Crash
  <2> QED
    BY <1>6, <2>1, PayloadTypes DEF Crash
<1> QED
  BY <1>1, <1>2, <1>3, <1>4, <1>5, <1>6 DEF ConsumerStep

LEMMA SweeperQueueInv ==
  ASSUME QueueInv, NEW s \in Sweepers, SweeperStep(s)
  PROVE  QueueInv'
<1> USE DEF QueueInv, QueueTypeOK, HasJob, HasItem, SweeperGoto, NextItem, ForgetSweep,
            lists, consumerVars, sweeperVars, ends, history
<1>1. CASE Snapshot(s)
  BY <1>1 DEF Snapshot
<1>2. CASE SkipItem(s)
  BY <1>2, FirstItem DEF SkipItem
<1>3. CASE RemoveStale(s)
  <2>1. RemoveFirst(processing, items[s][1]) \in Seq(Payload)
    BY CopiesRemoveFirst
  <2> QED
    BY <1>3, <2>1 DEF RemoveStale, RemoveProcessing
<1>4. CASE MoveStale(s)
  <2> DEFINE p == items[s][1]
             q == [Plain(p.doc) EXCEPT !.tries = Tries(p) + 1]
  <2>1. p \in Payload /\ Tail(items[s]) \in Seq(Payload)
    BY <1>4, FirstItem DEF MoveStale
  <2>2. p.doc \in Docs \cup {None}
    BY <2>1 DEF Payload
  <2>3. ~ (Tries(p) >= MaxRetries) => <<q>> \o pending \in Seq(Payload)
    <3>1. MaxRetries \in Nat /\ Tries(p) \in Nat
      BY <2>1, PayloadTypes, QueueAssumption
    <3>2. ~ (Tries(p) >= MaxRetries) => Tries(p) < MaxRetries
      BY <3>1
    <3>3. ~ (Tries(p) >= MaxRetries) => q \in Payload
      BY <2>1, <3>2, PayloadTypes, Zenon
    <3> QED
      BY <3>3, CopiesCons
  <2>4. /\ pending' \in Seq(Payload) /\ dlq' \in [Docs \cup {None} -> Nat]
        /\ settled' \in [Docs -> Nat]
    <3>1. /\ [dlq EXCEPT ![p.doc] = @ + 1] \in [Docs \cup {None} -> Nat]
          /\ Count(settled, p.doc, TRUE) \in [Docs -> Nat]
      BY CountTypes, CountType
    <3> QED
      BY <1>4, <2>3, <3>1 DEF MoveStale, DeadLetter
  <2> QED
    BY <1>4, <2>1, <2>4 DEF MoveStale
<1>5. CASE EndSweep(s) \/ CrashSweep(s)
  <2>1. lost' \in [Docs -> Nat]
    <3>1. EndSweep(s) => lost' = lost
      BY DEF EndSweep
    <3>2. CrashSweep(s) => lost' = Count(lost, items[s][1].doc, sweepAt[s] = "move")
      BY DEF CrashSweep
    <3>3. \A b \in BOOLEAN : Count(lost, items[s][1].doc, b) \in [Docs -> Nat]
      BY CountType
    <3> QED
      BY <1>5, <3>1, <3>2, <3>3
  <2>2. 0 \in Times /\ <<>> \in Seq(Payload)
    BY QueueAssumption DEF Times
  <2>3. CASE EndSweep(s)
    BY <2>1, <2>2, <2>3 DEF EndSweep
  <2>4. CASE CrashSweep(s)
    BY <2>1, <2>2, <2>4 DEF CrashSweep
  <2> QED
    BY <1>5, <2>3, <2>4
<1> QED
  BY <1>1, <1>2, <1>3, <1>4, <1>5 DEF SweeperStep

LEMMA QueueInvariant == Spec => []QueueInv
<1>1. Init => QueueInv
  BY PayloadTypes, QueueAssumption
  DEF Init, QueueInv, QueueTypeOK, HasJob, HasItem, Busy, ConsumerStates, Acknowledging,
      Legacy, LegacyOf, Times
<1>2. QueueInv /\ [Next]_vars => QueueInv'
  <2> SUFFICES ASSUME QueueInv, [Next]_vars PROVE QueueInv'
    OBVIOUS
  <2> USE DEF QueueInv, QueueTypeOK, HasJob, HasItem, lists, consumerVars, sweeperVars,
              ends, history
  <2>1. CASE Tick
    BY <2>1, QueueAssumption DEF Tick, Times
  <2>2. ASSUME NEW d \in Docs, Enqueue(d) PROVE QueueInv'
    <3>1. Append(pending, Plain(d)) \in Seq(Payload)
      BY PayloadTypes, CopiesAppend
    <3>2. MaxPushes \in Nat /\ pushed[d] + 1 \in 0..MaxPushes
      BY <2>2, QueueAssumption DEF Enqueue
    <3> QED
      BY <2>2, <3>1, <3>2 DEF Enqueue
  <2>3. CASE EnqueueMalformed
    <3>1. Append(pending, Malformed) \in Seq(Payload)
      BY PayloadTypes, CopiesAppend
    <3> QED
      BY <2>3, <3>1 DEF EnqueueMalformed
  <2>4. CASE UNCHANGED vars
    BY <2>4 DEF vars
  <2> QED
    BY <2>1, <2>2, <2>3, <2>4, ConsumerQueueInv, SweeperQueueInv DEF Next
<1> QED
  BY <1>1, <1>2, PTL DEF Spec

(* The lists hold texts, the counters counts and the clock stays in its    *)
(* range, whatever consumers and sweepers do to each other's texts.        *)
THEOREM QueueTypesHold == Spec => []QueueTypeOK
<1>1. QueueInv => QueueTypeOK
  BY DEF QueueInv
<1> QED
  BY <1>1, QueueInvariant, PTL

(* Jobs without a timestamp -----------------------------------------------*)

(* PlainJobsBeingEnriched alone is not inductive: a worker may fail to     *)
(* find its text any more, and then only the texts of another kind (with   *)
(* another number of tries) must make up for it.  What is: the claim holds *)
(* for any choice among the plain texts of a document.                     *)
Enriching(texts) == {c \in Consumers : at[c] = "remove" /\ raw[c] \in texts}
Excused(d, texts) ==
    Copies(processing, texts) <= Cardinality(Enriching(texts)) + stranded[d]
PlainInv == \A d \in Docs : \A texts \in SUBSET PlainTexts(d) : Excused(d, texts)

LEMMA ConsumerSets ==
  ASSUME NEW A \in SUBSET Consumers, NEW c
  PROVE  /\ IsFiniteSet(A) /\ Cardinality(A) \in Nat
         /\ Cardinality(A \cup {c}) = Cardinality(A) + One(c \notin A)
         /\ Cardinality(A \ {c}) = Cardinality(A) - One(c \in A)
<1>1. IsFiniteSet(A)
  BY QueueAssumption, FS_Subset
<1> QED
  BY <1>1, FS_CardinalityType, FS_AddElement, FS_RemoveElement DEF One

(* Nothing but a dequeue adds a plain text, and nothing but the worker's   *)
(* next command or its death ends its enriching.                           *)
LEMMA ExcuseStays ==
  ASSUME QueueInv, QueueInv', PlainInv, NEW d \in Docs, NEW texts \in SUBSET PlainTexts(d),
         Copies(processing', texts) <= Copies(processing, texts),
         Enriching(texts)' = Enriching(texts),
         stranded'[d] >= stranded[d]
  PROVE  Excused(d, texts)'
<1>1. /\ Copies(processing, texts) \in Nat /\ Copies(processing', texts) \in Nat
      /\ stranded[d] \in Nat /\ stranded'[d] \in Nat
  BY PositionsFinite DEF QueueInv, QueueTypeOK
<1>2. Cardinality(Enriching(texts)) \in Nat
  BY ConsumerSets DEF Enriching
<1>3. Copies(processing, texts) <= Cardinality(Enriching(texts)) + stranded[d]
  BY DEF PlainInv, Excused
<1>4. Copies(processing', texts) <= Cardinality(Enriching(texts)') + stranded'[d]
  BY <1>1, <1>2, <1>3
<1> QED
  BY <1>4 DEF Excused, Copies, Positions

LEMMA DequeueExcused ==
  ASSUME QueueInv, PlainInv, NEW c \in Consumers, Dequeue(c),
         NEW d \in Docs, NEW texts \in SUBSET PlainTexts(d)
  PROVE  Copies(processing', texts) <= Cardinality(Enriching(texts)') + stranded'[d]
<1> DEFINE p == Last(pending)
           b == p \in texts
<1>1. p \in Payload
  BY CopiesFront DEF Dequeue, QueueInv, QueueTypeOK
<1>2. Copies(processing', texts) = Copies(processing, texts) + One(b)
  BY <1>1, CopiesCons DEF Dequeue, PushProcessing, QueueInv, QueueTypeOK
<1>3. b => p.doc # None
  BY QueueAssumption DEF PlainTexts, Texts
<1>4. Enriching(texts)' = IF b THEN Enriching(texts) \cup {c} ELSE Enriching(texts)
  BY <1>3 DEF Dequeue, ConsumerGoto, Enriching, QueueInv, QueueTypeOK
<1>5. c \notin Enriching(texts) /\ Enriching(texts) \in SUBSET Consumers
  BY DEF Dequeue, Enriching
<1>6. Cardinality(Enriching(texts)') = Cardinality(Enriching(texts)) + One(b)
  <2>1. /\ Cardinality(Enriching(texts) \cup {c}) = Cardinality(Enriching(texts)) + 1
        /\ Cardinality(Enriching(texts)) \in Nat
    BY <1>5, ConsumerSets DEF One
  <2> QED
    BY <1>4, <2>1 DEF One
<1>7. /\ Copies(processing, texts) \in Nat /\ Cardinality(Enriching(texts)) \in Nat
      /\ One(b) \in Nat /\ stranded[d] \in Nat /\ stranded' = stranded
  BY <1>5, PositionsFinite, ConsumerSets DEF QueueInv, QueueTypeOK, One, Dequeue, history
<1>8. Copies(processing, texts) <= Cardinality(Enriching(texts)) + stranded[d]
  BY DEF PlainInv, Excused
<1> QED
  BY <1>2, <1>6, <1>7, <1>8

LEMMA RemoveRawExcused ==
  ASSUME QueueInv, PlainInv, NEW c \in Consumers, RemoveRaw(c),
         NEW d \in Docs, NEW texts \in SUBSET PlainTexts(d)
  PROVE  Copies(processing', texts) <= Cardinality(Enriching(texts)') + stranded'[d]
<1> DEFINE p == raw[c]
           rest == texts \ {p}
           b == p \in texts
<1>1. Enriching(texts)' = Enriching(texts) \ {c} /\ (c \in Enriching(texts) <=> b)
  BY DEF RemoveRaw, ConsumerGoto, Enriching, QueueInv, QueueTypeOK
<1>2. Enriching(texts) \in SUBSET Consumers /\ Enriching(rest) \in SUBSET Enriching(texts) \ {c}
  BY DEF Enriching
<1>3. Cardinality(Enriching(texts)') = Cardinality(Enriching(texts)) - One(b)
  BY <1>1, <1>2, ConsumerSets DEF One
<1>4. processing \in Seq(Payload) /\ stranded[d] \in Nat /\ stranded' = stranded
  BY DEF RemoveRaw, history, QueueInv, QueueTypeOK
<1>5. /\ Copies(processing, texts) \in Nat /\ Cardinality(Enriching(texts)) \in Nat
      /\ One(b) \in Nat
  BY <1>2, <1>4, PositionsFinite, ConsumerSets DEF One
<1>6. CASE Contains(processing, p)
  <2>1. Copies(processing, texts) = Copies(processing', texts) + One(b)
    BY <1>4, <1>6, CopiesRemoveFirst DEF RemoveRaw, RemoveProcessing
  <2>2. Copies(processing', texts) \in Nat
    BY <1>4, CopiesRemoveFirst, PositionsFinite DEF RemoveRaw, RemoveProcessing
  <2>3. Copies(processing, texts) <= Cardinality(Enriching(texts)) + stranded[d]
    BY DEF PlainInv, Excused
  <2> QED
    BY <1>3, <1>4, <1>5, <2>1, <2>2, <2>3
<1>7. CASE ~ Contains(processing, p)
  <2>1. processing' = processing
    BY <1>4, <1>7, CopiesRemoveFirst DEF RemoveRaw, RemoveProcessing
  <2>2. Copies(processing, rest) = Copies(processing, texts)
    BY <1>7 DEF Contains, Copies, Positions
  <2>3. Copies(processing, rest) <= Cardinality(Enriching(rest)) + stranded[d]
    BY DEF PlainInv, Excused
  <2>4. Cardinality(Enriching(rest)) \in Nat
        /\ Cardinality(Enriching(rest)) <= Cardinality(Enriching(texts) \ {c})
    <3>1. IsFiniteSet(Enriching(texts) \ {c}) /\ Enriching(rest) \in SUBSET Consumers
      BY <1>2, ConsumerSets
    <3> QED
      BY <1>2, <3>1, FS_Subset, ConsumerSets
  <2> QED
    BY <1>1, <1>3, <1>4, <1>5, <2>1, <2>2, <2>3, <2>4
<1> QED
  BY <1>6, <1>7

LEMMA CrashExcused ==
  ASSUME QueueInv, PlainInv, NEW c \in Consumers, Crash(c), at[c] = "remove",
         NEW d \in Docs, NEW texts \in SUBSET PlainTexts(d)
  PROVE  Copies(processing', texts) <= Cardinality(Enriching(texts)') + stranded'[d]
<1> DEFINE b == raw[c] \in texts
<1>1. Enriching(texts)' = Enriching(texts) \ {c} /\ (c \in Enriching(texts) <=> b)
  BY DEF Crash, Return, ConsumerGoto, Enriching, QueueInv, QueueTypeOK
<1>2. Enriching(texts) \in SUBSET Consumers
  BY DEF Enriching
<1>3. Cardinality(Enriching(texts)') = Cardinality(Enriching(texts)) - One(b)
  BY <1>1, <1>2, ConsumerSets DEF One
<1>4. /\ stranded \in [Docs -> Nat] /\ payload[c].doc \in Docs
      /\ raw[c].doc = payload[c].doc /\ None \notin Docs
  BY QueueAssumption DEF QueueInv, QueueTypeOK, HasJob, Busy
<1>5. stranded' = Count(stranded, payload[c].doc, at[c] = "remove")
  BY DEF Crash
<1>6. stranded'[d] = stranded[d] + One(payload[c].doc = d) /\ stranded[d] \in Nat
  BY <1>4, <1>5 DEF Count, One
<1>7. b => payload[c].doc = d
  BY <1>4 DEF PlainTexts, Texts
<1>8. processing' = processing
  BY DEF Crash, lists
<1>9. /\ Copies(processing, texts) \in Nat /\ Cardinality(Enriching(texts)) \in Nat
  BY <1>2, PositionsFinite, ConsumerSets DEF QueueInv, QueueTypeOK
<1>10. Copies(processing, texts) <= Cardinality(Enriching(texts)) + stranded[d]
  BY DEF PlainInv, Excused
<1> QED
  BY <1>3, <1>6, <1>7, <1>8, <1>9, <1>10 DEF One

LEMMA ConsumerPlain ==
  ASSUME QueueInv, QueueInv', PlainInv, NEW c \in Consumers, ConsumerStep(c)
  PROVE  PlainInv'
<1> SUFFICES ASSUME NEW d \in Docs, NEW texts \in SUBSET PlainTexts(d)
             PROVE  Excused(d, texts)'
  BY DEF PlainInv
<1>1. CASE Dequeue(c) \/ RemoveRaw(c) \/ (Crash(c) /\ at[c] = "remove")
  BY <1>1, DequeueExcused, RemoveRawExcused, CrashExcused DEF Excused, Copies, Positions
<1>2. CASE ~ Dequeue(c) /\ at[c] # "remove"
  <2>1. at' = [at EXCEPT ![c] = at'[c]] /\ at'[c] # "remove"
    <3>1. \E next : ConsumerGoto(c, next) /\ next # "remove"
      BY <1>2 DEF ConsumerStep, RemoveRaw, PushEnriched, RejectMalformed, DropMalformed,
                  DeadLetterJob, JobDone, JobFailed, Acknowledge, AcknowledgeMisses,
                  AcknowledgeLegacy, EndAcknowledge, LegacyOf, Acknowledging, Crash, Return
    <3> QED
      BY <3>1 DEF ConsumerGoto, QueueInv, QueueTypeOK
  <2>2. \A v \in Consumers : v # c => raw'[v] = raw[v]
    BY <1>2 DEF ConsumerStep, RemoveRaw, PushEnriched, RejectMalformed, DropMalformed,
                DeadLetterJob, JobDone, JobFailed, Acknowledge, AcknowledgeMisses,
                AcknowledgeLegacy, EndAcknowledge, Crash, Return, QueueInv, QueueTypeOK
  <2>3. Enriching(texts)' = Enriching(texts)
    BY <1>2, <2>1, <2>2 DEF Enriching, QueueInv, QueueTypeOK
  <2>4. stranded' = stranded
    <3>1. Crash(c) => stranded' = stranded
      BY <1>2 DEF Count, Crash, QueueInv, QueueTypeOK
    <3> QED
      BY <1>2, <3>1
      DEF ConsumerStep, RemoveRaw, PushEnriched, RejectMalformed, DropMalformed,
          DeadLetterJob, JobDone, JobFailed, Acknowledge, AcknowledgeMisses,
          AcknowledgeLegacy, history
  <2>5. \/ processing' = processing
        \/ \E p : processing' = RemoveFirst(processing, p)
        \/ at[c] = "replace" /\ processing' = <<payload[c]>> \o processing
    BY <1>2 DEF ConsumerStep, RemoveRaw, PushEnriched, RejectMalformed, DropMalformed,
                DeadLetterJob, JobDone, JobFailed, Acknowledge, AcknowledgeMisses,
                AcknowledgeLegacy, EndJob, Crash, RemoveProcessing, PushProcessing, lists
  <2>6. processing \in Seq(Payload) /\ payload[c] \in Payload
    BY DEF QueueInv, QueueTypeOK
  <2>7. at[c] = "replace" => payload[c] \notin texts
    BY DEF QueueInv, HasJob, Busy, PlainTexts
  <2>8. Copies(processing', texts) <= Copies(processing, texts)
    <3>1. Copies(processing, texts) \in Nat
      BY <2>6, PositionsFinite
    <3>2. CASE processing' = processing
      BY <3>1, <3>2
    <3>3. ASSUME NEW p, processing' = RemoveFirst(processing, p)
          PROVE  Copies(processing', texts) <= Copies(processing, texts)
      <4>1. Copies(processing', texts) \in Nat
        BY <2>6, <3>3, CopiesRemoveFirst, PositionsFinite
      <4> QED
        BY <2>6, <3>1, <3>3, <4>1, CopiesRemoveFirst DEF One
    <3>4. CASE at[c] = "replace" /\ processing' = <<payload[c]>> \o processing
      BY <2>6, <2>7, <3>1, <3>4, CopiesCons DEF One
    <3> QED
      BY <2>5, <3>2, <3>3, <3>4
  <2>9. stranded'[d] >= stranded[d]
    BY <2>4 DEF QueueInv, QueueTypeOK
  <2> QED
    BY <2>3, <2>8, <2>9, ExcuseStays
<1>3. at[c] = "remove" => RemoveRaw(c) \/ Crash(c)
  BY DEF ConsumerStep, Dequeue, RemoveRaw, PushEnriched, RejectMalformed, DropMalformed,
         DeadLetterJob, JobDone, JobFailed, Acknowledge, AcknowledgeMisses,
         AcknowledgeLegacy, Acknowledging, Legacy, LegacyOf
<1> QED
  BY <1>1, <1>2, <1>3

LEMMA OthersPlain ==
  ASSUME QueueInv, QueueInv', PlainInv,
         UNCHANGED <<consumerVars, stranded>>,
         \/ processing' = processing
         \/ \E p : processing' = RemoveFirst(processing, p)
  PROVE  PlainInv'
<1> SUFFICES ASSUME NEW d \in Docs, NEW texts \in SUBSET PlainTexts(d)
             PROVE  Excused(d, texts)'
  BY DEF PlainInv
<1>1. Enriching(texts)' = Enriching(texts)
  BY DEF Enriching, consumerVars
<1>2. /\ processing \in Seq(Payload) /\ Copies(processing, texts) \in Nat
      /\ Copies(processing', texts) \in Nat
  BY PositionsFinite DEF QueueInv, QueueTypeOK
<1>3. Copies(processing', texts) <= Copies(processing, texts)
  BY <1>2, CopiesRemoveFirst DEF One
<1>4. stranded'[d] >= stranded[d]
  BY DEF QueueInv, QueueTypeOK
<1> QED
  BY <1>1, <1>3, <1>4, ExcuseStays

(* A job without a timestamp in documents:processing, which no sweep would *)
(* ever move, is about to be enriched, or the worker that was to do so has *)
(* died: for any number of workers and sweepers, of jobs of one document,  *)
(* and whatever they remove from under each other.                         *)
THEOREM PlainJobsAreEnriched == Spec => []PlainJobsBeingEnriched
<1>1. Init => PlainInv
  <2> SUFFICES ASSUME Init, NEW d \in Docs, NEW texts \in SUBSET PlainTexts(d)
               PROVE  Excused(d, texts)
    BY DEF PlainInv
  <2>1. Positions(processing, texts) = {} /\ Enriching(texts) = {} /\ stranded[d] = 0
    BY DEF Init, Positions, Enriching
  <2> QED
    BY <2>1, FS_EmptySet DEF Excused, Copies
<1>2. QueueInv /\ QueueInv' /\ PlainInv /\ [Next]_vars => PlainInv'
  <2> SUFFICES ASSUME QueueInv, QueueInv', PlainInv, [Next]_vars PROVE PlainInv'
    OBVIOUS
  <2>1. CASE Tick \/ (\E d \in Docs : Enqueue(d)) \/ EnqueueMalformed \/ UNCHANGED vars
    <3>1. UNCHANGED <<consumerVars, stranded, processing>>
      BY <2>1 DEF Tick, Enqueue, EnqueueMalformed, vars, lists, history
    <3> QED
      BY <3>1, OthersPlain
  <2>2. ASSUME NEW s \in Sweepers, SweeperStep(s) PROVE PlainInv'
    <3>1. UNCHANGED <<consumerVars, stranded>>
      BY <2>2 DEF SweeperStep, Snapshot, SkipItem, RemoveStale, MoveStale, EndSweep,
                  CrashSweep, history
    <3>2. \/ processing' = processing
          \/ \E p : processing' = RemoveFirst(processing, p)
      BY <2>2 DEF SweeperStep, Snapshot, SkipItem, RemoveStale, MoveStale, EndSweep,
                  CrashSweep, lists, RemoveProcessing
    <3> QED
      BY <3>1, <3>2, OthersPlain
  <2> QED
    BY <2>1, <2>2, ConsumerPlain DEF Next
<1>3. QueueInv /\ PlainInv => PlainJobsBeingEnriched
  <2> SUFFICES ASSUME QueueInv, PlainInv, NEW d \in Docs
               PROVE  Cardinality({i \in DOMAIN processing :
                                     processing[i].doc = d /\ processing[i].started = None})
                        <= Cardinality({c \in Consumers : at[c] = "remove" /\ raw[c].doc = d})
                             + stranded[d]
    BY DEF PlainJobsBeingEnriched
  <2> DEFINE plain == {i \in DOMAIN processing :
                         processing[i].doc = d /\ processing[i].started = None}
             handled == {c \in Consumers : at[c] = "remove" /\ raw[c].doc = d}
  <2>1. plain = Positions(processing, PlainTexts(d))
    <3>1. /\ DOMAIN processing = 1..Len(processing)
          /\ \A i \in 1..Len(processing) : processing[i] \in Payload
      BY LenProperties, ElementOfSeq DEF QueueInv, QueueTypeOK
    <3> QED
      BY <3>1 DEF Positions, PlainTexts, Texts
  <2>2. Copies(processing, PlainTexts(d))
          <= Cardinality(Enriching(PlainTexts(d))) + stranded[d]
    BY DEF PlainInv, Excused
  <2>3. Enriching(PlainTexts(d)) \in SUBSET handled /\ handled \in SUBSET Consumers
    BY DEF Enriching, PlainTexts, Texts
  <2>4. /\ Cardinality(Enriching(PlainTexts(d))) <= Cardinality(handled)
        /\ Cardinality(handled) \in Nat
    BY <2>3, ConsumerSets, FS_Subset
  <2>5. /\ Cardinality(Enriching(PlainTexts(d))) \in Nat /\ stranded[d] \in Nat
        /\ Copies(processing, PlainTexts(d)) \in Nat
    BY <2>3, ConsumerSets, PositionsFinite DEF QueueInv, QueueTypeOK
  <2>6. Copies(processing, PlainTexts(d)) = Cardinality(plain)
    BY <2>1 DEF Copies
  <2> HIDE DEF plain, handled
  <2>7. Cardinality(plain) <= Cardinality(handled) + stranded[d]
    BY <2>2, <2>4, <2>5, <2>6
  <2> QED
    BY <2>7 DEF plain, handled
<1> QED
  BY <1>1, <1>2, <1>3, QueueInvariant, PTL DEF Spec

(* The ledger -------------------------------------------------------------*)

(* g counts one of d more than f; where d is no document nothing changes.  *)
Plus(g, f, d) == \A x \in Docs : g[x] = f[x] + One(x = d)

LEMMA PlusIsInc ==
  ASSUME NEW f \in [Docs -> Int], NEW g \in [Docs -> Int], NEW d, Plus(g, f, d)
  PROVE  /\ g = Ledger!Inc(d, f) /\ f = Ledger!Dec(d, g)
         /\ d \notin Docs => g = f
<1>1. \A x \in Docs : g[x] = IF x = d THEN f[x] + 1 ELSE f[x]
  BY DEF Plus, One
<1>2. \A x \in Docs : f[x] = IF x = d THEN g[x] - 1 ELSE g[x]
  BY <1>1
<1>3. g = [f EXCEPT ![d] = f[d] + 1]
  BY <1>1
<1>4. f = [g EXCEPT ![d] = g[d] - 1]
  BY <1>2
<1>5. d \notin Docs => g = f
  BY <1>1
<1> QED
  BY <1>3, <1>4, <1>5 DEF Ledger!Inc, Ledger!Dec

LEMMA ForDocCopies ==
  ASSUME NEW list \in Seq(Payload), NEW d
  PROVE  ForDoc(list, d) = Copies(list, Texts(d)) /\ ForDoc(list, d) \in Nat
<1>1. /\ DOMAIN list = 1..Len(list)
      /\ \A i \in 1..Len(list) : list[i] \in Payload
  BY LenProperties, ElementOfSeq
<1>2. {i \in DOMAIN list : list[i].doc = d} = Positions(list, Texts(d))
  BY <1>1 DEF Positions, Texts
<1> QED
  BY <1>2, PositionsFinite DEF ForDoc, Copies

LEMMA ListPlus ==
  ASSUME NEW list \in Seq(Payload), NEW long \in Seq(Payload), NEW p \in Payload,
         \A texts : Copies(long, texts) = Copies(list, texts) + One(p \in texts)
  PROVE  \A x \in Docs : ForDoc(long, x) = ForDoc(list, x) + One(x = p.doc)
<1> SUFFICES ASSUME NEW x \in Docs PROVE ForDoc(long, x) = ForDoc(list, x) + One(x = p.doc)
  OBVIOUS
<1>1. p \in Texts(x) <=> x = p.doc
  BY DEF Texts
<1>2. Copies(long, Texts(x)) = Copies(list, Texts(x)) + One(p \in Texts(x))
  OBVIOUS
<1> QED
  BY <1>1, <1>2, ForDocCopies DEF One

LEMMA SweeperSets ==
  ASSUME NEW A \in SUBSET Sweepers, NEW s
  PROVE  /\ IsFiniteSet(A) /\ Cardinality(A) \in Nat
         /\ Cardinality(A \cup {s}) = Cardinality(A) + One(s \notin A)
         /\ Cardinality(A \ {s}) = Cardinality(A) - One(s \in A)
<1>1. IsFiniteSet(A)
  BY QueueAssumption, FS_Subset
<1> QED
  BY <1>1, FS_CardinalityType, FS_AddElement, FS_RemoveElement DEF One

LedgerTypes ==
    /\ waiting \in [Docs -> Int] /\ out \in [Docs -> Int]
    /\ moving \in [Docs -> Int] /\ pushed \in [Docs -> Int]
    /\ settled \in [Docs -> Int] /\ taken \in [Docs -> Int] /\ lost \in [Docs -> Int]

LEMMA LedgerTyped == QueueInv => LedgerTypes
<1> SUFFICES ASSUME QueueInv PROVE LedgerTypes
  OBVIOUS
<1>1. \A d \in Docs : ForDoc(pending, d) \in Int /\ ForDoc(processing, d) \in Int
  BY ForDocCopies DEF QueueInv, QueueTypeOK
<1>2. \A d \in Docs : InHands(d) \in Int
  <2> TAKE d \in Docs
  <2>1. ReplacedBy(d) \in SUBSET Consumers /\ MovedBy(d) \in SUBSET Sweepers
    BY DEF ReplacedBy, MovedBy
  <2>2. Cardinality(ReplacedBy(d)) \in Nat /\ Cardinality(MovedBy(d)) \in Nat
    BY <2>1, ConsumerSets, SweeperSets
  <2> QED
    BY <2>2 DEF InHands
<1>3. /\ pushed \in [Docs -> Int] /\ settled \in [Docs -> Int]
      /\ taken \in [Docs -> Int] /\ lost \in [Docs -> Int]
  BY QueueAssumption DEF QueueInv, QueueTypeOK
<1> QED
  BY <1>1, <1>2, <1>3 DEF LedgerTypes, waiting, out, moving

(* What one consumer, or one sweeper, changes about what is in hands.      *)
HeldBy(c, d) == at[c] = "replace" /\ payload[c].doc = d
SweptBy(s, d) == sweepAt[s] = "move" /\ items[s][1].doc = d

LEMMA ConsumerHands ==
  ASSUME NEW c \in Consumers, UNCHANGED sweeperVars, NEW d,
         \A v \in Consumers : v # c => at'[v] = at[v] /\ payload'[v] = payload[v]
  PROVE  /\ HeldBy(c, d) /\ ~ HeldBy(c, d)' => InHands(d) = InHands(d)' + 1
         /\ ~ HeldBy(c, d) /\ HeldBy(c, d)' => InHands(d)' = InHands(d) + 1
         /\ (HeldBy(c, d)' <=> HeldBy(c, d)) => InHands(d)' = InHands(d)
<1> DEFINE A == ReplacedBy(d)
           B == ReplacedBy(d)'
<1>1. A \in SUBSET Consumers /\ B \in SUBSET Consumers /\ MovedBy(d) \in SUBSET Sweepers
  BY DEF ReplacedBy, MovedBy
<1>2. MovedBy(d)' = MovedBy(d)
  BY DEF MovedBy, sweeperVars
<1>3. Cardinality(A) \in Nat /\ Cardinality(B) \in Nat /\ Cardinality(MovedBy(d)) \in Nat
  BY <1>1, ConsumerSets, SweeperSets
<1>4. (c \in A <=> HeldBy(c, d)) /\ (c \in B <=> HeldBy(c, d)')
  BY DEF ReplacedBy, HeldBy
<1>5. \A v \in Consumers : v # c => (v \in A <=> v \in B)
  BY DEF ReplacedBy
<1>6. InHands(d) = Cardinality(A) + Cardinality(MovedBy(d))
      /\ InHands(d)' = Cardinality(B) + Cardinality(MovedBy(d))
  BY <1>2 DEF InHands
<1> HIDE DEF A, B
<1>7. CASE c \in A /\ c \notin B
  <2>1. B = A \ {c}
    BY <1>1, <1>5, <1>7
  <2>2. Cardinality(B) = Cardinality(A) - 1
    BY <1>1, <1>7, <2>1, ConsumerSets DEF One
  <2> QED
    BY <1>3, <1>4, <1>6, <1>7, <2>2
<1>8. CASE c \notin A /\ c \in B
  <2>1. B = A \cup {c}
    BY <1>1, <1>5, <1>8
  <2>2. Cardinality(B) = Cardinality(A) + 1
    BY <1>1, <1>8, <2>1, ConsumerSets DEF One
  <2> QED
    BY <1>3, <1>4, <1>6, <1>8, <2>2
<1>9. CASE c \in A <=> c \in B
  <2>1. B = A
    BY <1>1, <1>5, <1>9
  <2> QED
    BY <1>4, <1>6, <1>9, <2>1
<1> QED
  BY <1>7, <1>8, <1>9

LEMMA SweeperHands ==
  ASSUME NEW s \in Sweepers, UNCHANGED consumerVars, NEW d,
         \A v \in Sweepers : v # s => sweepAt'[v] = sweepAt[v] /\ items'[v] = items[v]
  PROVE  /\ SweptBy(s, d) /\ ~ SweptBy(s, d)' => InHands(d) = InHands(d)' + 1
         /\ ~ SweptBy(s, d) /\ SweptBy(s, d)' => InHands(d)' = InHands(d) + 1
         /\ (SweptBy(s, d)' <=> SweptBy(s, d)) => InHands(d)' = InHands(d)
<1> DEFINE A == MovedBy(d)
           B == MovedBy(d)'
<1>1. A \in SUBSET Sweepers /\ B \in SUBSET Sweepers /\ ReplacedBy(d) \in SUBSET Consumers
  BY DEF ReplacedBy, MovedBy
<1>2. ReplacedBy(d)' = ReplacedBy(d)
  BY DEF ReplacedBy, consumerVars
<1>3. /\ Cardinality(A) \in Nat /\ Cardinality(B) \in Nat
      /\ Cardinality(ReplacedBy(d)) \in Nat
  BY <1>1, ConsumerSets, SweeperSets
<1>4. (s \in A <=> SweptBy(s, d)) /\ (s \in B <=> SweptBy(s, d)')
  BY DEF MovedBy, SweptBy
<1>5. \A v \in Sweepers : v # s => (v \in A <=> v \in B)
  BY DEF MovedBy
<1>6. InHands(d) = Cardinality(ReplacedBy(d)) + Cardinality(A)
      /\ InHands(d)' = Cardinality(ReplacedBy(d)) + Cardinality(B)
  BY <1>2 DEF InHands
<1> HIDE DEF A, B
<1>7. CASE s \in A /\ s \notin B
  <2>1. B = A \ {s}
    BY <1>1, <1>5, <1>7
  <2>2. Cardinality(B) = Cardinality(A) - 1
    BY <1>1, <1>7, <2>1, SweeperSets DEF One
  <2> QED
    BY <1>3, <1>4, <1>6, <1>7, <2>2
<1>8. CASE s \notin A /\ s \in B
  <2>1. B = A \cup {s}
    BY <1>1, <1>5, <1>8
  <2>2. Cardinality(B) = Cardinality(A) + 1
    BY <1>1, <1>8, <2>1, SweeperSets DEF One
  <2> QED
    BY <1>3, <1>4, <1>6, <1>8, <2>2
<1>9. CASE s \in A <=> s \in B
  <2>1. B = A
    BY <1>1, <1>5, <1>9
  <2> QED
    BY <1>4, <1>6, <1>9, <2>1
<1> QED
  BY <1>7, <1>8, <1>9

(* The steps of the ledger, in terms of what each count gains; where e is  *)
(* no document, the text of a job that is not one, the ledger stands still.*)
LedgerStep == [Ledger!LedgerNext]_(Ledger!jobs)

LEMMA LedgerSteps ==
  ASSUME LedgerTypes, LedgerTypes', NEW e
  PROVE  /\ Plus(pushed', pushed, e) /\ Plus(waiting', waiting, e)
              /\ UNCHANGED <<out, moving, ends, lost>> => LedgerStep
         /\ Plus(waiting, waiting', e) /\ Plus(out', out, e)
              /\ UNCHANGED <<pushed, moving, ends, lost>> => LedgerStep
         /\ (out' = out \/ Plus(out, out', e)) /\ Plus(moving', moving, e)
              /\ UNCHANGED <<pushed, waiting, ends, lost>> => LedgerStep
         /\ Plus(moving, moving', e) /\ Plus(out', out, e)
              /\ UNCHANGED <<pushed, waiting, ends, lost>> => LedgerStep
         /\ Plus(moving, moving', e) /\ Plus(waiting', waiting, e)
              /\ UNCHANGED <<pushed, out, ends, lost>> => LedgerStep
         /\ Plus(moving, moving', e) /\ Plus(settled', settled, e)
              /\ UNCHANGED <<pushed, waiting, out, taken, lost>> => LedgerStep
         /\ Plus(out, out', e) /\ Plus(settled', settled, e)
              /\ UNCHANGED <<pushed, waiting, moving, taken, lost>> => LedgerStep
         /\ Plus(out, out', e) /\ Plus(taken', taken, e)
              /\ UNCHANGED <<pushed, waiting, moving, settled, lost>> => LedgerStep
         /\ Plus(moving, moving', e) /\ Plus(lost', lost, e)
              /\ UNCHANGED <<pushed, waiting, out, ends>> => LedgerStep
<1>1. ASSUME NEW f \in [Docs -> Int], NEW g \in [Docs -> Int], Plus(g, f, e)
      PROVE  g = Ledger!Inc(e, f) /\ f = Ledger!Dec(e, g) /\ (e \notin Docs => g = f)
  BY <1>1, PlusIsInc
<1> USE DEF LedgerTypes, ends, Ledger!ends
<1>2. CASE e \in Docs
  <2>1. Plus(pushed', pushed, e) /\ Plus(waiting', waiting, e)
          /\ UNCHANGED <<out, moving, ends, lost>> => Ledger!Push(e)
    BY <1>1 DEF Ledger!Push
  <2>2. Plus(waiting, waiting', e) /\ Plus(out', out, e)
          /\ UNCHANGED <<pushed, moving, ends, lost>> => Ledger!Take(e)
    BY <1>1 DEF Ledger!Take
  <2>3. (out' = out \/ Plus(out, out', e)) /\ Plus(moving', moving, e)
          /\ UNCHANGED <<pushed, waiting, ends, lost>> => Ledger!Lift(e)
    BY <1>1 DEF Ledger!Lift
  <2>4. Plus(moving, moving', e) /\ Plus(out', out, e)
          /\ UNCHANGED <<pushed, waiting, ends, lost>> => Ledger!Replace(e)
    BY <1>1 DEF Ledger!Replace
  <2>5. Plus(moving, moving', e) /\ Plus(waiting', waiting, e)
          /\ UNCHANGED <<pushed, out, ends, lost>> => Ledger!Requeue(e)
    BY <1>1 DEF Ledger!Requeue
  <2>6. Plus(moving, moving', e) /\ Plus(settled', settled, e)
          /\ UNCHANGED <<pushed, waiting, out, taken, lost>> => Ledger!Bury(e)
    BY <1>1 DEF Ledger!Bury
  <2>7. Plus(out, out', e) /\ Plus(settled', settled, e)
          /\ UNCHANGED <<pushed, waiting, moving, taken, lost>> => Ledger!Finish(e)
    BY <1>1 DEF Ledger!Finish
  <2>8. Plus(out, out', e) /\ Plus(taken', taken, e)
          /\ UNCHANGED <<pushed, waiting, moving, settled, lost>> => Ledger!TakeForOther(e)
    BY <1>1 DEF Ledger!TakeForOther
  <2>9. Plus(moving, moving', e) /\ Plus(lost', lost, e)
          /\ UNCHANGED <<pushed, waiting, out, ends>> => Ledger!Lose(e)
    BY <1>1 DEF Ledger!Lose
  <2>10. Ledger!Push(e) \/ Ledger!Take(e) \/ Ledger!Lift(e) \/ Ledger!Replace(e)
          \/ Ledger!Requeue(e) \/ Ledger!Bury(e) \/ Ledger!Finish(e)
          \/ Ledger!TakeForOther(e) \/ Ledger!Lose(e) => LedgerStep
    BY <1>2 DEF LedgerStep, Ledger!LedgerNext
  <2> QED
    BY <2>1, <2>2, <2>3, <2>4, <2>5, <2>6, <2>7, <2>8, <2>9, <2>10
<1>3. CASE e \notin Docs
  <2>1. /\ Plus(pushed', pushed, e) => pushed' = pushed
        /\ Plus(waiting', waiting, e) \/ Plus(waiting, waiting', e) => waiting' = waiting
        /\ Plus(out', out, e) \/ Plus(out, out', e) => out' = out
        /\ Plus(moving', moving, e) \/ Plus(moving, moving', e) => moving' = moving
        /\ Plus(settled', settled, e) => settled' = settled
        /\ Plus(taken', taken, e) => taken' = taken
        /\ Plus(lost', lost, e) => lost' = lost
    BY <1>1, <1>3
  <2>2. UNCHANGED <<pushed, waiting, out, moving, ends, lost>> => LedgerStep
    BY DEF LedgerStep, Ledger!jobs
  <2> QED
    BY <2>1, <2>2
<1> QED
  BY <1>2, <1>3

(* What keeps a document from being forgotten where nobody sweeps: a job   *)
(* of it in a list or in hands, or one that was acknowledged or lost.      *)
Kept(d) ==
    waiting[d] > 0 \/ out[d] > 0 \/ moving[d] > 0 \/ settled[d] > 0 \/ taken[d] > 0
      \/ lost[d] > 0
KeptStays == \A d \in Docs : Kept(d) => Kept(d)'

LEMMA CountsNatural ==
  ASSUME QueueInv, NEW d \in Docs
  PROVE  /\ waiting[d] \in Nat /\ out[d] \in Nat /\ moving[d] \in Nat
         /\ settled[d] \in Nat /\ taken[d] \in Nat /\ lost[d] \in Nat
<1>1. ForDoc(pending, d) \in Nat /\ ForDoc(processing, d) \in Nat
  BY ForDocCopies DEF QueueInv, QueueTypeOK
<1>2. InHands(d) \in Nat
  <2>1. ReplacedBy(d) \in SUBSET Consumers /\ MovedBy(d) \in SUBSET Sweepers
    BY DEF ReplacedBy, MovedBy
  <2>2. Cardinality(ReplacedBy(d)) \in Nat /\ Cardinality(MovedBy(d)) \in Nat
    BY <2>1, ConsumerSets, SweeperSets
  <2> QED
    BY <2>2 DEF InHands
<1> QED
  BY <1>1, <1>2 DEF QueueInv, QueueTypeOK, waiting, out, moving

LEMMA KeptSteps ==
  ASSUME QueueInv, LedgerTypes', NEW e
  PROVE  /\ Plus(waiting, waiting', e) /\ Plus(out', out, e)
              /\ UNCHANGED <<moving, ends, lost>> => KeptStays
         /\ (out' = out \/ Plus(out, out', e)) /\ Plus(moving', moving, e)
              /\ UNCHANGED <<waiting, ends, lost>> => KeptStays
         /\ Plus(moving, moving', e) /\ Plus(out', out, e)
              /\ UNCHANGED <<waiting, ends, lost>> => KeptStays
         /\ Plus(out, out', e) /\ Plus(settled', settled, e)
              /\ UNCHANGED <<waiting, moving, taken, lost>> => KeptStays
         /\ Plus(out, out', e) /\ Plus(taken', taken, e)
              /\ UNCHANGED <<waiting, moving, settled, lost>> => KeptStays
         /\ Plus(moving, moving', e) /\ Plus(lost', lost, e)
              /\ UNCHANGED <<waiting, out, ends>> => KeptStays
         /\ UNCHANGED <<waiting, out, moving, ends, lost>> => KeptStays
<1>1. \A d \in Docs : /\ waiting[d] \in Nat /\ out[d] \in Nat /\ moving[d] \in Nat
                      /\ settled[d] \in Nat /\ taken[d] \in Nat /\ lost[d] \in Nat
  BY CountsNatural
<1>2. \A d \in Docs : /\ waiting'[d] \in Int /\ out'[d] \in Int /\ moving'[d] \in Int
                      /\ settled'[d] \in Int /\ taken'[d] \in Int /\ lost'[d] \in Int
  BY DEF LedgerTypes
<1> HIDE DEF waiting, out, moving
<1> USE <1>1, <1>2 DEF Kept, KeptStays, Plus, One, ends
<1>3. ASSUME Plus(waiting, waiting', e), Plus(out', out, e), UNCHANGED <<moving, ends, lost>>,
             NEW d \in Docs, Kept(d)
      PROVE  Kept(d)'
  BY <1>3
<1>4. ASSUME out' = out \/ Plus(out, out', e), Plus(moving', moving, e),
             UNCHANGED <<waiting, ends, lost>>, NEW d \in Docs, Kept(d)
      PROVE  Kept(d)'
  BY <1>4
<1>5. ASSUME Plus(moving, moving', e), Plus(out', out, e), UNCHANGED <<waiting, ends, lost>>,
             NEW d \in Docs, Kept(d)
      PROVE  Kept(d)'
  BY <1>5
<1>6. ASSUME Plus(out, out', e), Plus(settled', settled, e),
             UNCHANGED <<waiting, moving, taken, lost>>, NEW d \in Docs, Kept(d)
      PROVE  Kept(d)'
  BY <1>6
<1>7. ASSUME Plus(out, out', e), Plus(taken', taken, e),
             UNCHANGED <<waiting, moving, settled, lost>>, NEW d \in Docs, Kept(d)
      PROVE  Kept(d)'
  BY <1>7
<1>8. ASSUME Plus(moving, moving', e), Plus(lost', lost, e), UNCHANGED <<waiting, out, ends>>,
             NEW d \in Docs, Kept(d)
      PROVE  Kept(d)'
  BY <1>8
<1>9. ASSUME UNCHANGED <<waiting, out, moving, ends, lost>>, NEW d \in Docs, Kept(d)
      PROVE  Kept(d)'
  BY <1>9
<1> QED
  BY <1>3, <1>4, <1>5, <1>6, <1>7, <1>8, <1>9

LEMMA OutPlus ==
  ASSUME QueueInv, NEW p \in Payload
  PROVE  /\ PushProcessing(p) => Plus(out', out, p.doc)
         /\ RemoveProcessing(p) =>
              IF Contains(processing, p) THEN Plus(out, out', p.doc) ELSE out' = out
<1>1. processing \in Seq(Payload)
  BY DEF QueueInv, QueueTypeOK
<1>2. ASSUME PushProcessing(p) PROVE Plus(out', out, p.doc)
  <2>1. \A x \in Docs : ForDoc(processing', x) = ForDoc(processing, x) + One(x = p.doc)
    <3>1. /\ processing' \in Seq(Payload)
          /\ \A texts : Copies(processing', texts)
                          = Copies(processing, texts) + One(p \in texts)
      BY <1>1, <1>2, CopiesCons DEF PushProcessing
    <3> QED
      BY <1>1, <3>1, ListPlus
  <2> QED
    BY <2>1 DEF Plus, out, ForDoc
<1>3. ASSUME RemoveProcessing(p), Contains(processing, p) PROVE Plus(out, out', p.doc)
  <2>1. \A x \in Docs : ForDoc(processing, x) = ForDoc(processing', x) + One(x = p.doc)
    BY <1>1, <1>3, CopiesRemoveFirst, ListPlus DEF RemoveProcessing
  <2> QED
    BY <2>1 DEF Plus, out, ForDoc
<1>4. ASSUME RemoveProcessing(p), ~ Contains(processing, p) PROVE out' = out
  BY <1>1, <1>4, CopiesRemoveFirst DEF RemoveProcessing, out, ForDoc
<1> QED
  BY <1>2, <1>3, <1>4

LEMMA OutSame == ASSUME processing' = processing PROVE out' = out
  BY DEF out, ForDoc

LEMMA WaitingSame == ASSUME pending' = pending PROVE waiting' = waiting
  BY DEF waiting, ForDoc

LEMMA ConsumerFrame ==
  ASSUME QueueInv, NEW c \in Consumers, ConsumerStep(c)
  PROVE  /\ UNCHANGED <<sweeperVars, pushed>>
         /\ \A v \in Consumers : v # c => at'[v] = at[v] /\ payload'[v] = payload[v]
<1> USE DEF QueueInv, QueueTypeOK, ConsumerGoto, Return, history
<1>1. CASE Dequeue(c) \/ RemoveRaw(c) \/ PushEnriched(c) \/ RejectMalformed(c)
           \/ DeadLetterJob(c) \/ JobDone(c) \/ AcknowledgeMisses(c)
  BY <1>1 DEF Dequeue, RemoveRaw, PushEnriched, RejectMalformed, DeadLetterJob, JobDone,
              AcknowledgeMisses
<1>2. CASE DropMalformed(c) \/ JobFailed(c) \/ Acknowledge(c) \/ AcknowledgeLegacy(c)
           \/ Crash(c)
  BY <1>2
  DEF DropMalformed, JobFailed, Acknowledge, AcknowledgeLegacy, EndAcknowledge, Crash
<1> QED
  BY <1>1, <1>2 DEF ConsumerStep

(* Only a worker that begins or ends replacing its text moves a job.       *)
LEMMA ConsumerMoving ==
  ASSUME QueueInv, LedgerTypes, LedgerTypes', NEW c \in Consumers, ConsumerStep(c),
         at'[c] = "replace" => payload'[c] = payload[c]
  PROVE  /\ at[c] # "replace" /\ at'[c] # "replace" => moving' = moving
         /\ at[c] # "replace" /\ at'[c] = "replace"
              => Plus(moving', moving, payload[c].doc)
         /\ at[c] = "replace" /\ at'[c] # "replace"
              => Plus(moving, moving', payload[c].doc)
<1>1. UNCHANGED sweeperVars
  BY ConsumerFrame
<1>2. \A v \in Consumers : v # c => at'[v] = at[v] /\ payload'[v] = payload[v]
  BY ConsumerFrame
<1>3. ASSUME NEW d
      PROVE  /\ HeldBy(c, d) /\ ~ HeldBy(c, d)' => InHands(d) = InHands(d)' + 1
             /\ ~ HeldBy(c, d) /\ HeldBy(c, d)' => InHands(d)' = InHands(d) + 1
             /\ (HeldBy(c, d)' <=> HeldBy(c, d)) => InHands(d)' = InHands(d)
  BY <1>1, <1>2, ConsumerHands
<1>4. \A d \in Docs : InHands(d) \in Int /\ InHands(d)' \in Int
                        /\ moving[d] = InHands(d) /\ moving'[d] = InHands(d)'
  BY DEF LedgerTypes, moving
<1>5. ASSUME at[c] # "replace", at'[c] # "replace" PROVE moving' = moving
  <2>1. \A d \in Docs : InHands(d)' = InHands(d)
    BY <1>3, <1>5 DEF HeldBy
  <2> QED
    BY <2>1 DEF moving
<1>6. ASSUME at[c] # "replace", at'[c] = "replace"
      PROVE  Plus(moving', moving, payload[c].doc)
  <2> SUFFICES ASSUME NEW d \in Docs
               PROVE  moving'[d] = moving[d] + One(d = payload[c].doc)
    BY DEF Plus
  <2>1. ~ HeldBy(c, d) /\ (HeldBy(c, d)' <=> d = payload[c].doc)
    BY <1>6 DEF HeldBy
  <2> QED
    BY <1>3, <1>4, <2>1 DEF One
<1>7. ASSUME at[c] = "replace", at'[c] # "replace"
      PROVE  Plus(moving, moving', payload[c].doc)
  <2> SUFFICES ASSUME NEW d \in Docs
               PROVE  moving[d] = moving'[d] + One(d = payload[c].doc)
    BY DEF Plus
  <2>1. ~ HeldBy(c, d)' /\ (HeldBy(c, d) <=> d = payload[c].doc)
    BY <1>7 DEF HeldBy
  <2> QED
    BY <1>3, <1>4, <2>1 DEF One
<1> QED
  BY <1>5, <1>6, <1>7

LEMMA ConsumerLedger ==
  ASSUME QueueInv, LedgerTypes, LedgerTypes', NEW c \in Consumers, ConsumerStep(c)
  PROVE  LedgerStep /\ KeptStays
<1> DEFINE e == payload[c].doc
<1>1. /\ payload[c] \in Payload /\ raw[c] \in Payload /\ e \in Docs \cup {None}
      /\ None \notin Docs /\ UNCHANGED pushed
      /\ at \in [Consumers -> ConsumerStates] /\ payload \in [Consumers -> Payload]
      /\ settled \in [Docs -> Nat] /\ taken \in [Docs -> Nat] /\ lost \in [Docs -> Nat]
      /\ processing \in Seq(Payload) /\ pending \in Seq(Payload)
  BY QueueAssumption, ConsumerFrame DEF QueueInv, QueueTypeOK, Payload
<1>2. /\ at[c] = "remove" => raw[c].doc = e
      /\ at[c] \in {"reject", "drop"} => raw[c].doc = None
      /\ at[c] \in Busy => e \in Docs
  BY DEF QueueInv, HasJob
<1>3. CASE Dequeue(c)
  <2> DEFINE p == Last(pending)
  <2>1. p \in Payload /\ Front(pending) \in Seq(Payload)
    BY <1>1, <1>3, CopiesFront DEF Dequeue
  <2>2. Plus(waiting, waiting', p.doc)
    <3>1. /\ pending' \in Seq(Payload)
          /\ \A texts : Copies(pending, texts) = Copies(pending', texts) + One(p \in texts)
      BY <1>1, <1>3, CopiesFront DEF Dequeue
    <3>2. \A x \in Docs : ForDoc(pending, x) = ForDoc(pending', x) + One(x = p.doc)
      BY SMTT(30), <1>1, <2>1, <3>1, ListPlus
    <3> QED
      BY <3>2 DEF Plus, waiting, ForDoc
  <2>3. Plus(out', out, p.doc)
    BY <1>3, <2>1, OutPlus DEF Dequeue
  <2>4. moving' = moving
    BY <1>1, <1>3, ConsumerMoving DEF Dequeue, ConsumerGoto
  <2>5. UNCHANGED <<ends, lost>>
    BY <1>3 DEF Dequeue, history
  <2> QED
    BY <1>1, <2>2, <2>3, <2>4, <2>5, LedgerSteps, KeptSteps
<1>4. CASE RemoveRaw(c)
  <2>1. out' = out \/ Plus(out, out', e)
    BY <1>1, <1>2, <1>4, OutPlus DEF RemoveRaw
  <2>2. Plus(moving', moving, e)
    BY <1>1, <1>4, ConsumerMoving DEF RemoveRaw, ConsumerGoto
  <2>3. UNCHANGED <<waiting, ends, lost>>
    BY <1>4, WaitingSame DEF RemoveRaw, history
  <2> QED
    BY <1>1, <2>1, <2>2, <2>3, LedgerSteps, KeptSteps
<1>5. CASE PushEnriched(c)
  <2>1. Plus(out', out, e)
    BY <1>1, <1>5, OutPlus DEF PushEnriched
  <2>2. Plus(moving, moving', e)
    BY <1>1, <1>5, ConsumerMoving DEF PushEnriched, ConsumerGoto
  <2>3. UNCHANGED <<waiting, ends, lost>>
    BY <1>5, WaitingSame DEF PushEnriched, history
  <2> QED
    BY <1>1, <2>1, <2>2, <2>3, LedgerSteps, KeptSteps
<1>6. CASE RejectMalformed(c) \/ DeadLetterJob(c) \/ JobDone(c) \/ JobFailed(c)
           \/ AcknowledgeMisses(c) \/ DropMalformed(c) \/ (Crash(c) /\ at[c] # "replace")
  <2>1. moving' = moving
    BY <1>1, <1>6, ConsumerMoving
    DEF RejectMalformed, DeadLetterJob, JobDone, JobFailed, AcknowledgeMisses, DropMalformed,
        Crash, Return, ConsumerGoto, Acknowledging, LegacyOf
  <2>2. UNCHANGED <<pending, ends>>
    BY <1>6
    DEF RejectMalformed, DeadLetterJob, JobDone, JobFailed, AcknowledgeMisses, DropMalformed,
        Crash, lists, history
  <2>3. lost' = lost
    <3>1. Crash(c) /\ at[c] # "replace" => lost' = lost
      BY <1>1 DEF Count, Crash
    <3> QED
      BY <1>6, <3>1
      DEF RejectMalformed, DeadLetterJob, JobDone, JobFailed, AcknowledgeMisses,
          DropMalformed, history
  <2>4. out' = out
    <3>1. CASE processing' = processing
      BY <3>1, OutSame
    <3>2. CASE DropMalformed(c)
      <4>1. out' = out \/ Plus(out, out', None)
        BY <1>1, <1>2, <3>2, OutPlus DEF DropMalformed
      <4> QED
        BY <1>1, <4>1, PlusIsInc DEF LedgerTypes
    <3> QED
      BY <1>6, <3>1, <3>2
      DEF RejectMalformed, DeadLetterJob, JobDone, JobFailed, AcknowledgeMisses, Crash, lists
  <2> QED
    <3>1. UNCHANGED <<waiting, out, moving, ends, lost>>
      BY <2>1, <2>2, <2>3, <2>4, WaitingSame
    <3>2. LedgerStep
      BY <1>1, <3>1 DEF LedgerStep, Ledger!jobs, Ledger!ends, ends
    <3> QED
      BY <3>1, <3>2, KeptSteps
<1>7. CASE Acknowledge(c) \/ AcknowledgeLegacy(c)
  <2> DEFINE again == at[c] \in {"ackAgain", "legacyAgain"}
  <2>1. PICK p \in Payload : EndJob(c, p) /\ p.doc = e
    <3>1. Plain(e) \in Payload /\ Plain(e).doc = e
      BY <1>1, PayloadTypes DEF Plain
    <3> QED
      BY <1>1, <1>7, <3>1 DEF Acknowledge, AcknowledgeLegacy
  <2>2. moving' = moving
    BY <1>1, <1>7, ConsumerMoving
    DEF Acknowledge, AcknowledgeLegacy, EndAcknowledge, Return, ConsumerGoto, Acknowledging,
        Legacy, LegacyOf
  <2>3. UNCHANGED <<waiting, lost>>
    BY <1>7, WaitingSame DEF Acknowledge, AcknowledgeLegacy
  <2>4. IF Contains(processing, p) THEN Plus(out, out', e) ELSE out' = out
    BY <2>1, OutPlus DEF EndJob
  <2>5. CASE ~ Contains(processing, p)
    <3>1. UNCHANGED <<waiting, out, moving, ends, lost>>
      BY <1>1, <2>1, <2>2, <2>3, <2>4, <2>5 DEF Count, EndJob, ends
    <3>2. LedgerStep
      BY <1>1, <3>1 DEF LedgerStep, Ledger!jobs, Ledger!ends, ends
    <3> QED
      BY <3>1, <3>2, KeptSteps
  <2>6. CASE Contains(processing, p) /\ ~ again
    <3>1. Plus(settled', settled, e) /\ taken' = taken
      BY <1>1, <2>1, <2>6 DEF Count, EndJob, Plus, One
    <3> QED
      BY <1>1, <2>2, <2>3, <2>4, <2>6, <3>1, LedgerSteps, KeptSteps
  <2>7. CASE Contains(processing, p) /\ again
    <3>1. Plus(taken', taken, e) /\ settled' = settled
      BY <1>1, <2>1, <2>7 DEF Count, EndJob, Plus, One
    <3> QED
      BY <1>1, <2>2, <2>3, <2>4, <2>7, <3>1, LedgerSteps, KeptSteps
  <2> QED
    BY <2>5, <2>6, <2>7
<1>8. CASE Crash(c) /\ at[c] = "replace"
  <2>1. Plus(moving, moving', e)
    BY <1>1, <1>8, ConsumerMoving DEF Crash, Return, ConsumerGoto
  <2>2. Plus(lost', lost, e)
    BY <1>1, <1>8 DEF Count, Crash, Plus, One
  <2>3. UNCHANGED <<waiting, out, ends>>
    BY <1>8, WaitingSame, OutSame DEF Crash, lists
  <2> QED
    BY <1>1, <2>1, <2>2, <2>3, LedgerSteps, KeptSteps
<1> QED
  BY <1>3, <1>4, <1>5, <1>6, <1>7, <1>8 DEF ConsumerStep

LEMMA SweeperMoving ==
  ASSUME QueueInv, LedgerTypes, LedgerTypes', NEW s \in Sweepers, UNCHANGED consumerVars,
         \A v \in Sweepers : v # s => sweepAt'[v] = sweepAt[v] /\ items'[v] = items[v]
  PROVE  /\ sweepAt[s] # "move" /\ sweepAt'[s] # "move" => moving' = moving
         /\ sweepAt[s] # "move" /\ sweepAt'[s] = "move"
              => Plus(moving', moving, items'[s][1].doc)
         /\ sweepAt[s] = "move" /\ sweepAt'[s] # "move"
              => Plus(moving, moving', items[s][1].doc)
<1>1. ASSUME NEW d
      PROVE  /\ SweptBy(s, d) /\ ~ SweptBy(s, d)' => InHands(d) = InHands(d)' + 1
             /\ ~ SweptBy(s, d) /\ SweptBy(s, d)' => InHands(d)' = InHands(d) + 1
             /\ (SweptBy(s, d)' <=> SweptBy(s, d)) => InHands(d)' = InHands(d)
  BY SweeperHands
<1>2. \A d \in Docs : InHands(d) \in Int /\ InHands(d)' \in Int
                        /\ moving[d] = InHands(d) /\ moving'[d] = InHands(d)'
  BY DEF LedgerTypes, moving
<1>3. ASSUME sweepAt[s] # "move", sweepAt'[s] # "move" PROVE moving' = moving
  <2>1. \A d \in Docs : InHands(d)' = InHands(d)
    BY <1>1, <1>3 DEF SweptBy
  <2> QED
    BY <2>1 DEF moving
<1>4. ASSUME sweepAt[s] # "move", sweepAt'[s] = "move"
      PROVE  Plus(moving', moving, items'[s][1].doc)
  <2> SUFFICES ASSUME NEW d \in Docs
               PROVE  moving'[d] = moving[d] + One(d = items'[s][1].doc)
    BY DEF Plus
  <2>1. ~ SweptBy(s, d) /\ (SweptBy(s, d)' <=> d = items'[s][1].doc)
    BY <1>4 DEF SweptBy
  <2> QED
    BY <1>1, <1>2, <2>1 DEF One
<1>5. ASSUME sweepAt[s] = "move", sweepAt'[s] # "move"
      PROVE  Plus(moving, moving', items[s][1].doc)
  <2> SUFFICES ASSUME NEW d \in Docs
               PROVE  moving[d] = moving'[d] + One(d = items[s][1].doc)
    BY DEF Plus
  <2>1. ~ SweptBy(s, d)' /\ (SweptBy(s, d) <=> d = items[s][1].doc)
    BY <1>5 DEF SweptBy
  <2> QED
    BY <1>1, <1>2, <2>1 DEF One
<1> QED
  BY <1>3, <1>4, <1>5

LEMMA SweeperLedger ==
  ASSUME QueueInv, LedgerTypes, LedgerTypes', NEW s \in Sweepers, SweeperStep(s)
  PROVE  LedgerStep
<1> DEFINE e == items[s][1].doc
<1>1. /\ sweepAt \in [Sweepers -> {"idle", "next", "move"}]
      /\ items \in [Sweepers -> Seq(Payload)] /\ pending \in Seq(Payload)
      /\ items[s] # <<>> => items[s][1] \in Payload /\ e \in Docs \cup {None}
      /\ sweepAt[s] = "move" => items[s] # <<>>
      /\ None \notin Docs /\ settled \in [Docs -> Nat] /\ lost \in [Docs -> Nat]
  BY QueueAssumption, FirstItem DEF QueueInv, QueueTypeOK, HasItem, Payload
<1>2. /\ UNCHANGED <<consumerVars, pushed, taken>>
      /\ \A v \in Sweepers : v # s => sweepAt'[v] = sweepAt[v] /\ items'[v] = items[v]
  BY <1>1 DEF SweeperStep, Snapshot, SkipItem, RemoveStale, MoveStale, EndSweep, CrashSweep,
              SweeperGoto, NextItem, ForgetSweep, ends, history
<1>3. CASE Snapshot(s) \/ SkipItem(s) \/ EndSweep(s) \/ (CrashSweep(s) /\ sweepAt[s] # "move")
  <2>1. moving' = moving
    BY <1>1, <1>2, <1>3, SweeperMoving
    DEF Snapshot, SkipItem, EndSweep, CrashSweep, SweeperGoto, ForgetSweep
  <2>2. UNCHANGED <<lists, ends>>
    BY <1>3 DEF Snapshot, SkipItem, EndSweep, CrashSweep, history
  <2>3. lost' = lost
    <3>1. CrashSweep(s) /\ sweepAt[s] # "move" => lost' = lost
      BY <1>1 DEF Count, CrashSweep
    <3> QED
      BY <1>3, <3>1 DEF Snapshot, SkipItem, EndSweep, history
  <2> QED
    BY <1>2, <2>1, <2>2, <2>3, WaitingSame, OutSame
    DEF LedgerStep, Ledger!jobs, Ledger!ends, lists, ends
<1>4. CASE RemoveStale(s)
  <2>1. out' = out \/ Plus(out, out', e)
    BY <1>1, <1>4, OutPlus DEF RemoveStale
  <2>2. Plus(moving', moving, e)
    BY <1>1, <1>2, <1>4, SweeperMoving DEF RemoveStale, SweeperGoto
  <2>3. UNCHANGED <<waiting, ends, lost>>
    BY <1>4, WaitingSame DEF RemoveStale, history
  <2> QED
    BY <1>2, <2>1, <2>2, <2>3, LedgerSteps
<1>5. CASE MoveStale(s)
  <2> DEFINE p == items[s][1]
             q == [Plain(p.doc) EXCEPT !.tries = Tries(p) + 1]
  <2>1. Plus(moving, moving', e)
    BY <1>1, <1>2, <1>5, SweeperMoving DEF MoveStale, SweeperGoto
  <2>2. UNCHANGED <<out, lost>>
    BY <1>5, OutSame DEF MoveStale
  <2>3. CASE settled' = Count(settled, p.doc, TRUE) /\ UNCHANGED pending
    <3>1. Plus(settled', settled, e) /\ waiting' = waiting
      BY <1>1, <2>3, WaitingSame DEF Count, Plus, One
    <3> QED
      BY <1>2, <2>1, <2>2, <3>1, LedgerSteps
  <2>4. CASE /\ ~ (Tries(p) >= MaxRetries)
             /\ pending' = <<q>> \o pending /\ UNCHANGED settled
    <3>1. p \in Payload /\ MaxRetries \in Nat /\ Tries(p) \in Nat
      BY <1>1, <1>5, PayloadTypes, QueueAssumption DEF MoveStale
    <3>2. Tries(p) < MaxRetries
      BY <2>4, <3>1
    <3>3. q \in Payload /\ q.doc = e
      BY <3>1, <3>2, PayloadTypes DEF Plain
    <3> HIDE DEF q
    <3>4. /\ pending' \in Seq(Payload)
          /\ \A texts : Copies(pending', texts) = Copies(pending, texts) + One(q \in texts)
      BY <1>1, <2>4, <3>3, CopiesCons
    <3>5. \A x \in Docs : ForDoc(pending', x) = ForDoc(pending, x) + One(x = q.doc)
      BY SMTT(30), <1>1, <3>3, <3>4, ListPlus
    <3>6. Plus(waiting', waiting, e)
      BY <3>3, <3>5 DEF Plus, waiting, ForDoc
    <3> QED
      BY <1>2, <2>1, <2>2, <2>4, <3>6, LedgerSteps DEF ends
  <2> QED
    BY <1>5, <2>3, <2>4 DEF MoveStale
<1>6. CASE CrashSweep(s) /\ sweepAt[s] = "move"
  <2>1. Plus(moving, moving', e)
    BY <1>1, <1>2, <1>6, SweeperMoving DEF CrashSweep, ForgetSweep, SweeperGoto
  <2>2. Plus(lost', lost, e)
    BY <1>1, <1>6 DEF Count, CrashSweep, Plus, One
  <2>3. UNCHANGED <<waiting, out, ends>>
    BY <1>6, WaitingSame, OutSame DEF CrashSweep, lists
  <2> QED
    BY <1>2, <2>1, <2>2, <2>3, LedgerSteps
<1> QED
  BY <1>3, <1>4, <1>5, <1>6 DEF SweeperStep

(* Both kinds of RPUSH, and what they add to the jobs that wait.           *)
LEMMA EnqueuePlus ==
  ASSUME QueueInv, NEW d \in Docs, Enqueue(d)
  PROVE  Plus(waiting', waiting, d)
<1>1. Plain(d) \in Payload /\ Plain(d).doc = d /\ pending \in Seq(Payload)
  BY PayloadTypes DEF Plain, QueueInv, QueueTypeOK
<1>2. /\ pending' \in Seq(Payload)
      /\ \A texts : Copies(pending', texts)
                      = Copies(pending, texts) + One(Plain(d) \in texts)
  BY <1>1, CopiesAppend DEF Enqueue
<1>3. \A x \in Docs : ForDoc(pending', x) = ForDoc(pending, x) + One(x = Plain(d).doc)
  BY <1>1, <1>2, ListPlus
<1> QED
  BY <1>1, <1>3 DEF Plus, waiting, ForDoc

LEMMA MalformedWaits ==
  ASSUME QueueInv, LedgerTypes, LedgerTypes', EnqueueMalformed
  PROVE  waiting' = waiting
<1>1. /\ Malformed \in Payload /\ Malformed.doc = None /\ pending \in Seq(Payload)
      /\ None \notin Docs
  BY PayloadTypes, QueueAssumption DEF Malformed, Plain, QueueInv, QueueTypeOK
<1>2. /\ pending' \in Seq(Payload)
      /\ \A texts : Copies(pending', texts)
                      = Copies(pending, texts) + One(Malformed \in texts)
  BY <1>1, CopiesAppend DEF EnqueueMalformed
<1>3. \A x \in Docs : ForDoc(pending', x) = ForDoc(pending, x) + One(x = Malformed.doc)
  BY <1>1, <1>2, ListPlus
<1>4. Plus(waiting', waiting, None)
  BY <1>1, <1>3 DEF Plus, waiting, ForDoc
<1> QED
  BY <1>1, <1>4, PlusIsInc DEF LedgerTypes

(* Every Redis command of every consumer and sweeper moves, copies or      *)
(* settles one job as the ledger of at-least-once delivery allows, or      *)
(* leaves it alone; a death loses only what was in hands, and an           *)
(* acknowledge takes another job's text only when it is the second of a    *)
(* dead-lettered job: for any numbers of consumers, of sweepers, of        *)
(* documents and of jobs.                                                  *)
THEOREM ImplementsLedger == Spec => LedgerSpec
<1>1. Init => Ledger!LedgerInit
  <2> SUFFICES ASSUME Init PROVE Ledger!LedgerInit
    OBVIOUS
  <2>1. ASSUME NEW d \in Docs
        PROVE  /\ {i \in DOMAIN pending : pending[i].doc = d} = {}
               /\ {i \in DOMAIN processing : processing[i].doc = d} = {}
               /\ ReplacedBy(d) = {} /\ MovedBy(d) = {}
    BY DEF Init, ReplacedBy, MovedBy
  <2>2. \A d \in Docs : /\ ForDoc(pending, d) = 0 /\ ForDoc(processing, d) = 0
                         /\ InHands(d) = 0
    <3> TAKE d \in Docs
    <3>1. Cardinality({}) = 0
      BY FS_EmptySet
    <3>2. ForDoc(pending, d) = 0 /\ ForDoc(processing, d) = 0
      BY <2>1, <3>1 DEF ForDoc
    <3>3. Cardinality(ReplacedBy(d)) = 0 /\ Cardinality(MovedBy(d)) = 0
      BY <2>1, <3>1
    <3> QED
      BY <2>1, <3>2, <3>3 DEF InHands
  <2> QED
    BY <2>2 DEF Init, Ledger!LedgerInit, waiting, out, moving
<1>2. QueueInv /\ LedgerTypes /\ LedgerTypes' /\ [Next]_vars => LedgerStep
  <2> SUFFICES ASSUME QueueInv, LedgerTypes, LedgerTypes', [Next]_vars PROVE LedgerStep
    OBVIOUS
  <2>1. ASSUME NEW d \in Docs, Enqueue(d) PROVE LedgerStep
    <3>1. Plus(pushed', pushed, d)
      BY SMTT(30), <2>1, QueueAssumption DEF Enqueue, Plus, One, QueueInv, QueueTypeOK
    <3>2. Plus(waiting', waiting, d)
      BY <2>1, EnqueuePlus
    <3>3. UNCHANGED <<consumerVars, sweeperVars, processing, ends, lost>>
      BY <2>1 DEF Enqueue
    <3>4. UNCHANGED <<out, moving>>
      BY <3>3, OutSame
      DEF moving, InHands, ReplacedBy, MovedBy, consumerVars, sweeperVars
    <3> QED
      BY <3>1, <3>2, <3>3, <3>4, LedgerSteps
  <2>2. CASE EnqueueMalformed
    <3>1. waiting' = waiting
      BY <2>2, MalformedWaits
    <3>2. UNCHANGED <<consumerVars, sweeperVars, processing, ends, pushed, lost>>
      BY <2>2 DEF EnqueueMalformed, history
    <3>3. UNCHANGED <<out, moving>>
      BY <3>2, OutSame
      DEF moving, InHands, ReplacedBy, MovedBy, consumerVars, sweeperVars
    <3> QED
      BY <3>1, <3>2, <3>3 DEF LedgerStep, Ledger!jobs, Ledger!ends, ends
  <2>3. CASE Tick \/ UNCHANGED vars
    <3>1. UNCHANGED <<lists, consumerVars, sweeperVars, history>>
      BY <2>3 DEF Tick, vars
    <3>2. UNCHANGED <<waiting, out, moving>>
      BY <3>1, OutSame, WaitingSame
      DEF moving, InHands, ReplacedBy, MovedBy, consumerVars, sweeperVars, lists
    <3> QED
      BY <3>1, <3>2 DEF LedgerStep, Ledger!jobs, Ledger!ends, ends, history
  <2> QED
    BY <2>1, <2>2, <2>3, ConsumerLedger, SweeperLedger DEF Next
<1> QED
  BY <1>1, <1>2, QueueInvariant, LedgerTyped, PTL DEF Spec, LedgerSpec, Ledger!Ledger, LedgerStep

(* What is proved of the ledger holds of the lists.                        *)
LedgerTheorems == INSTANCE JobLedgerProofs

LEMMA ListsConserve == Spec => []LedgerTheorems!Conserved
<1>1. Ledger!LedgerInit => LedgerTheorems!LedgerInit
  BY DEF Ledger!LedgerInit, LedgerTheorems!LedgerInit
<1>2. [Ledger!LedgerNext]_(Ledger!jobs) => [LedgerTheorems!LedgerNext]_(LedgerTheorems!jobs)
  <2>1. ASSUME NEW d
        PROVE  /\ Ledger!Push(d) <=> LedgerTheorems!Push(d)
               /\ Ledger!Take(d) <=> LedgerTheorems!Take(d)
               /\ Ledger!Lift(d) <=> LedgerTheorems!Lift(d)
               /\ Ledger!Replace(d) <=> LedgerTheorems!Replace(d)
               /\ Ledger!Requeue(d) <=> LedgerTheorems!Requeue(d)
               /\ Ledger!Bury(d) <=> LedgerTheorems!Bury(d)
               /\ Ledger!Finish(d) <=> LedgerTheorems!Finish(d)
               /\ Ledger!TakeForOther(d) <=> LedgerTheorems!TakeForOther(d)
               /\ Ledger!Lose(d) <=> LedgerTheorems!Lose(d)
    BY DEF Ledger!Push, Ledger!Take, Ledger!Lift, Ledger!Replace, Ledger!Requeue,
           Ledger!Bury, Ledger!Finish, Ledger!TakeForOther, Ledger!Lose, Ledger!ends,
           Ledger!Inc, Ledger!Dec,
           LedgerTheorems!Push, LedgerTheorems!Take, LedgerTheorems!Lift,
           LedgerTheorems!Replace, LedgerTheorems!Requeue, LedgerTheorems!Bury,
           LedgerTheorems!Finish, LedgerTheorems!TakeForOther, LedgerTheorems!Lose,
           LedgerTheorems!ends, LedgerTheorems!Inc, LedgerTheorems!Dec
  <2>2. Ledger!LedgerNext => LedgerTheorems!LedgerNext
    <3>1. SUFFICES ASSUME NEW d \in Docs,
                          \/ Ledger!Push(d) \/ Ledger!Take(d) \/ Ledger!Lift(d) \/ Ledger!Replace(d)
                          \/ Ledger!Requeue(d) \/ Ledger!Bury(d) \/ Ledger!Finish(d)
                          \/ Ledger!TakeForOther(d) \/ Ledger!Lose(d)
                   PROVE  LedgerTheorems!LedgerNext
      BY DEF Ledger!LedgerNext
    <3>2. \/ LedgerTheorems!Push(d) \/ LedgerTheorems!Take(d) \/ LedgerTheorems!Lift(d)
          \/ LedgerTheorems!Replace(d) \/ LedgerTheorems!Requeue(d)
          \/ LedgerTheorems!Bury(d) \/ LedgerTheorems!Finish(d)
          \/ LedgerTheorems!TakeForOther(d) \/ LedgerTheorems!Lose(d)
      BY <2>1, <3>1
    <3> QED
      BY <3>2 DEF LedgerTheorems!LedgerNext
  <2>3. UNCHANGED Ledger!jobs => UNCHANGED LedgerTheorems!jobs
    BY DEF Ledger!jobs, Ledger!ends, LedgerTheorems!jobs, LedgerTheorems!ends
  <2> QED
    BY <2>2, <2>3
<1> QED
  BY <1>1, <1>2, ImplementsLedger, LedgerTheorems!LedgerConserves, PTL
  DEF LedgerSpec, Ledger!Ledger, LedgerTheorems!Ledger

NothingLost == \A d \in Docs : lost[d] = 0

(* What dequeue promises, JobsConserved, but for the jobs that the second  *)
(* acknowledge of a dead-lettered job took.                                *)
ConservedButForTaken == \A d \in Docs : pushed[d] <= Accounted(d) + taken[d]

(* As long as no worker and no sweeper dies in the middle of a step, every *)
(* job ever pushed is in a list, in somebody's hands, ended by an          *)
(* acknowledge or a sweeper, or one that the second acknowledge of a       *)
(* dead-lettered job of the same document took for its own.                *)
THEOREM JobsAreConserved ==
  ASSUME "crash" \notin Faults
  PROVE  Spec => []ConservedButForTaken
<1>1. Init => NothingLost
  BY DEF Init, NothingLost
<1>2. NothingLost /\ [Next]_vars => NothingLost'
  <2> SUFFICES ASSUME NothingLost, [Next]_vars PROVE lost' = lost
    BY DEF NothingLost
  <2>1. ASSUME NEW c \in Consumers, ConsumerStep(c) PROVE lost' = lost
    BY <2>1 DEF ConsumerStep, Dequeue, RemoveRaw, PushEnriched, RejectMalformed,
                DropMalformed, DeadLetterJob, JobDone, JobFailed, Acknowledge,
                AcknowledgeMisses, AcknowledgeLegacy, Crash, history
  <2>2. ASSUME NEW s \in Sweepers, SweeperStep(s) PROVE lost' = lost
    BY <2>2 DEF SweeperStep, Snapshot, SkipItem, RemoveStale, MoveStale, EndSweep,
                CrashSweep, history
  <2> QED
    BY <2>1, <2>2 DEF Next, Tick, Enqueue, EnqueueMalformed, vars, history
<1>3. QueueInv /\ LedgerTypes /\ NothingLost /\ LedgerTheorems!Conserved
        => ConservedButForTaken
  <2> SUFFICES ASSUME QueueInv, LedgerTypes, NothingLost, LedgerTheorems!Conserved,
                      NEW d \in Docs
               PROVE  pushed[d] <= Accounted(d) + taken[d]
    BY DEF ConservedButForTaken
  <2>1. pushed[d] <= waiting[d] + out[d] + moving[d] + settled[d] + taken[d] + lost[d]
    BY DEF LedgerTheorems!Conserved
  <2>2. /\ waiting[d] = ForDoc(pending, d) /\ out[d] = ForDoc(processing, d)
        /\ moving[d] = InHands(d) /\ lost[d] = 0
    BY DEF waiting, out, moving, NothingLost
  <2>3. /\ waiting[d] \in Int /\ out[d] \in Int /\ moving[d] \in Int
        /\ settled[d] \in Int /\ taken[d] \in Int /\ pushed[d] \in Int
    BY DEF LedgerTypes
  <2> QED
    BY <2>1, <2>2, <2>3 DEF Accounted
<1> QED
  BY <1>1, <1>2, <1>3, QueueInvariant, LedgerTyped, ListsConserve, PTL DEF Spec

JobsKept == \A d \in Docs : pushed[d] > 0 => Kept(d)

(* Where nobody calls requeue_stale_jobs, as in the repository, a document *)
(* with a job has one still in a list or in hands, or one was acknowledged *)
(* or lost by a death; an entry in documents:dlq is no substitute, because *)
(* only an acknowledge takes a job out of documents:processing.            *)
THEOREM JobsAreKept ==
  ASSUME Sweepers = {}
  PROVE  Spec => []JobsKept
<1>1. Init => JobsKept
  BY DEF Init, JobsKept
<1>2. QueueInv /\ LedgerTypes /\ LedgerTypes' /\ JobsKept /\ [Next]_vars => JobsKept'
  <2> SUFFICES ASSUME QueueInv, LedgerTypes, LedgerTypes', JobsKept, [Next]_vars,
                      NEW d \in Docs, pushed'[d] > 0
               PROVE  Kept(d)'
    BY DEF JobsKept
  <2>1. ASSUME NEW c \in Consumers, ConsumerStep(c) PROVE Kept(d)'
    <3>1. pushed' = pushed /\ KeptStays
      BY <2>1, ConsumerLedger, ConsumerFrame
    <3> QED
      BY <3>1 DEF JobsKept, KeptStays
  <2>2. ASSUME NEW e \in Docs, Enqueue(e) PROVE Kept(d)'
    <3>1. /\ UNCHANGED <<processing, consumerVars, sweeperVars, ends, lost>>
          /\ pushed' = [pushed EXCEPT ![e] = @ + 1]
      BY <2>2 DEF Enqueue
    <3>2. UNCHANGED <<out, moving, ends, lost>>
      BY <3>1, OutSame DEF moving, InHands, ReplacedBy, MovedBy, consumerVars, sweeperVars
    <3>3. Plus(waiting', waiting, e)
      BY <2>2, EnqueuePlus
    <3>4. waiting'[d] = waiting[d] + One(d = e) /\ waiting[d] \in Nat
      BY <3>3, CountsNatural DEF Plus
    <3> HIDE DEF waiting, out, moving
    <3>5. CASE d = e
      BY <3>4, <3>5 DEF Kept, One
    <3>6. CASE d # e
      <4>1. Kept(d)
        BY <3>1, <3>6 DEF JobsKept, QueueInv, QueueTypeOK
      <4> QED
        BY <3>2, <3>4, <3>6, <4>1 DEF Kept, One, ends
    <3> QED
      BY <3>5, <3>6
  <2>3. ASSUME EnqueueMalformed \/ Tick \/ UNCHANGED vars PROVE Kept(d)'
    <3>1. UNCHANGED <<processing, consumerVars, sweeperVars, pushed, ends, lost>>
      BY <2>3 DEF EnqueueMalformed, Tick, vars, lists, history
    <3>2. UNCHANGED <<out, moving, ends, lost>>
      BY <3>1, OutSame DEF moving, InHands, ReplacedBy, MovedBy, consumerVars, sweeperVars
    <3>3. waiting' = waiting
      BY <2>3, MalformedWaits, WaitingSame DEF Tick, vars, lists
    <3>4. Kept(d)
      BY <3>1 DEF JobsKept
    <3> QED
      BY <3>2, <3>3, <3>4 DEF Kept, ends
  <2> QED
    BY <2>1, <2>2, <2>3 DEF Next
<1> QED
  BY <1>1, <1>2, QueueInvariant, LedgerTyped, PTL DEF Spec
=============================================================================
