--------------------------- MODULE ChunkingService ---------------------------
(***************************************************************************)
(* The loop of ChunkingService.chunk: cut a text into chunks of chunk_size *)
(* characters, each starting overlap characters before the previous one    *)
(* ends.  A text is its length, a character its position, and a chunk the  *)
(* interval of positions first..last it holds.                             *)
(***************************************************************************)
EXTENDS Integers, Sequences

CONSTANTS ChunkSize,    \* chunk_size, 500 for every caller
          Overlap,      \* overlap, 50 for every caller
          MaxLength     \* bound on the length of a text

(* With a smaller chunk_size the loop of the source would not terminate.   *)
ASSUME ChunkingAssumption ==
    /\ ChunkSize \in Nat /\ Overlap \in Nat /\ MaxLength \in Nat
    /\ Overlap < ChunkSize

VARIABLES textLen, start, chunks

vars == <<textLen, start, chunks>>

Stride == ChunkSize - Overlap

Chunk == [first : 0..(textLen - 1), last : 0..(textLen - 1)]

(* A chunk is an interval of the text; start passes the end of the text by *)
(* less than one stride.                                                   *)
TypeOK ==
    /\ textLen \in 0..MaxLength
    /\ start \in 0..(textLen + Stride - 1)
    /\ chunks \in Seq(Chunk)

(* An empty text returns no chunk, as the loop would.                      *)
Init ==
    /\ textLen \in 0..MaxLength
    /\ start = 0
    /\ chunks = <<>>

(* Mutant: the slice ends where the next chunk starts.                     *)
SliceWithoutOverlap(from) ==
    [first |-> from,
     last |-> IF from + Stride < textLen THEN from + Stride - 1 ELSE textLen - 1]

(* text[start:end], cut off at the end of the text.                        *)
Slice(from) ==
    [first |-> from,
     last |-> IF from + ChunkSize < textLen THEN from + ChunkSize - 1 ELSE textLen - 1]

(* Mutant: the next chunk starts where this one ends.                      *)
AdvanceByChunk(from) == from + ChunkSize

Advance(from) == from + Stride

(* Mutant: the condition is tested after the body.                         *)
CutAtLeastOnce ==
    /\ start < textLen \/ chunks = <<>>
    /\ chunks' = Append(chunks, Slice(start))
    /\ start' = Advance(start)
    /\ UNCHANGED textLen

(* Mutant: `continue` at a tail that the previous chunk holds already,     *)
(* which leaves start where it is.                                         *)
CutUnlessRedundant ==
    /\ start < textLen
    /\ start + Overlap < textLen
    /\ chunks' = Append(chunks, Slice(start))
    /\ start' = Advance(start)
    /\ UNCHANGED textLen

Cut ==
    /\ start < textLen
    /\ chunks' = Append(chunks, Slice(start))
    /\ start' = Advance(start)
    /\ UNCHANGED textLen

Next == Cut

Spec == Init /\ [][Next]_vars /\ WF_vars(Next)

-----------------------------------------------------------------------------
Returned == start >= textLen

Holds(chunk, p) == chunk.first <= p /\ p <= chunk.last

(* When chunk returns, every passage of at most Overlap + 1 characters is  *)
(* whole in some chunk.  With p = q: no character is left out.             *)
PassagesKept ==
    Returned => \A p, q \in 0..(textLen - 1) :
        p <= q /\ q <= p + Overlap =>
            \E k \in 1..Len(chunks) : Holds(chunks[k], p) /\ Holds(chunks[k], q)

(* No chunk is empty, longer than ChunkSize, or reaches beyond the text,   *)
(* and only chunks at the end of the text are shorter.                     *)
ChunksWellFormed ==
    \A k \in 1..Len(chunks) :
        /\ chunks[k].first <= chunks[k].last
        /\ chunks[k].last < textLen
        /\ chunks[k].last - chunks[k].first < ChunkSize
        /\ chunks[k].last - chunks[k].first + 1 < ChunkSize => chunks[k].last = textLen - 1

(* chunk returns: the loop moves forward by at least one character.        *)
Terminates == <>Returned
=============================================================================
