------------------------ MODULE ChunkingServiceProofs ------------------------
(***************************************************************************)
(* Theorems about ChunkingService, for every chunk size, overlap and text. *)
(***************************************************************************)
EXTENDS ChunkingService, TLAPS

USE ChunkingAssumption

LEMMA StrideIsPositive == Stride \in Nat \ {0} /\ Stride <= ChunkSize
  BY DEF Stride

(* Chunks are intervals of the text, and start stays within one stride of  *)
(* its end.                                                                *)
THEOREM ChunkingTypeCorrect == Spec => []TypeOK
<1>1. Init => TypeOK
  BY StrideIsPositive DEF Init, TypeOK
<1>2. TypeOK /\ [Next]_vars => TypeOK'
  <2> SUFFICES ASSUME TypeOK, Next PROVE TypeOK'
    BY DEF TypeOK, Chunk, vars
  <2>1. textLen' = textLen /\ Chunk' = Chunk
    BY DEF Next, Cut, Chunk
  <2>2. Slice(start) \in Chunk
    BY DEF TypeOK, Next, Cut, Slice, Chunk
  <2>3. start' \in 0..(textLen + Stride - 1)
    BY StrideIsPositive DEF TypeOK, Next, Cut, Advance
  <2>4. chunks' \in Seq(Chunk)
    BY <2>2 DEF TypeOK, Next, Cut
  <2>5. QED
    BY <2>1, <2>3, <2>4 DEF TypeOK
<1>3. QED
  BY <1>1, <1>2, PTL DEF Spec

(* The last chunk of the longer list is the new one, the others stay.      *)
LEMMA CutAppends ==
  ASSUME TypeOK, Cut
  PROVE  /\ Len(chunks') = Len(chunks) + 1
         /\ chunks'[Len(chunks) + 1] = Slice(start)
         /\ \A k \in 1..Len(chunks) : chunks'[k] = chunks[k]
  BY DEF TypeOK, Cut, Slice, Chunk

(* The loop invariant: passages that begin before start are kept already.  *)
PassagesBeforeStart ==
    \A p, q \in 0..(textLen - 1) :
        p < start /\ p <= q /\ q <= p + Overlap =>
            \E k \in 1..Len(chunks) : Holds(chunks[k], p) /\ Holds(chunks[k], q)

(* Every passage of at most Overlap + 1 characters is whole in some chunk. *)
THEOREM PassagesAreKept == Spec => []PassagesKept
<1>1. Init => PassagesBeforeStart
  BY DEF Init, PassagesBeforeStart
<1>2. TypeOK /\ PassagesBeforeStart /\ [Next]_vars => PassagesBeforeStart'
  <2> SUFFICES ASSUME TypeOK, PassagesBeforeStart, Cut,
                      NEW p \in 0..(textLen - 1), NEW q \in 0..(textLen - 1),
                      p < start', p <= q, q <= p + Overlap
               PROVE  \E k \in 1..Len(chunks') : Holds(chunks'[k], p) /\ Holds(chunks'[k], q)
    BY DEF PassagesBeforeStart, vars, Next, Cut, Holds
  <2>1. CASE p < start
    <3>1. PICK k \in 1..Len(chunks) : Holds(chunks[k], p) /\ Holds(chunks[k], q)
      BY <2>1 DEF PassagesBeforeStart
    <3>2. k \in 1..Len(chunks') /\ chunks'[k] = chunks[k]
      BY CutAppends DEF TypeOK
    <3>3. QED
      BY <3>1, <3>2
  <2>2. CASE start <= p
    <3>1. q < start + ChunkSize
      BY DEF Cut, Advance, Stride, TypeOK
    <3>2. Holds(Slice(start), p) /\ Holds(Slice(start), q)
      BY <2>2, <3>1 DEF Holds, Slice, TypeOK
    <3>3. Len(chunks) + 1 \in 1..Len(chunks')
      BY CutAppends DEF TypeOK
    <3>4. QED
      BY <3>2, <3>3, CutAppends
  <2>3. QED
    BY <2>1, <2>2 DEF TypeOK
<1>3. TypeOK /\ PassagesBeforeStart => PassagesKept
  BY DEF TypeOK, PassagesBeforeStart, PassagesKept, Returned
<1>4. QED
  BY <1>1, <1>2, <1>3, ChunkingTypeCorrect, PTL DEF Spec

(* No chunk is empty, too long or short before the end of the text.        *)
THEOREM ChunksAreWellFormed == Spec => []ChunksWellFormed
<1>1. Init => ChunksWellFormed
  BY DEF Init, ChunksWellFormed
<1>2. TypeOK /\ ChunksWellFormed /\ [Next]_vars => ChunksWellFormed'
  <2>1. CASE UNCHANGED vars
    BY <2>1 DEF vars, ChunksWellFormed
  <2>2. ASSUME TypeOK, ChunksWellFormed, Cut, NEW k \in 1..Len(chunks')
        PROVE  /\ chunks'[k].first <= chunks'[k].last
               /\ chunks'[k].last < textLen
               /\ chunks'[k].last - chunks'[k].first < ChunkSize
               /\ chunks'[k].last - chunks'[k].first + 1 < ChunkSize
                    => chunks'[k].last = textLen - 1
    <3>1. CASE k \in 1..Len(chunks)
      BY <2>2, <3>1, CutAppends DEF ChunksWellFormed
    <3>2. CASE k = Len(chunks) + 1
      BY <2>2, <3>2, CutAppends DEF Slice, TypeOK, Cut
    <3>3. QED
      BY <2>2, <3>1, <3>2, CutAppends DEF TypeOK
  <2>3. QED
    BY <2>1, <2>2 DEF Next, Cut, ChunksWellFormed
<1>3. QED
  BY <1>1, <1>2, ChunkingTypeCorrect, PTL DEF Spec
=============================================================================
