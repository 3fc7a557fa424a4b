--------------------------- MODULE MCCrypt4GHSizes ---------------------------
(***************************************************************************)
(* Enumerates file sizes, reads and header lengths for Crypt4GHSizes, with *)
(* blocks and chunks of a few bytes so that every position of a read       *)
(* relative to the block and chunk boundaries occurs.                      *)
(***************************************************************************)
EXTENDS Crypt4GHSizes

CONSTANTS MaxSize,    \* bound on the size of the file
          MaxOffset   \* bound on the length of a header inside the object

VARIABLES size, start, length, offset

vars == <<size, start, length, offset>>

(* s3_read and DownloadData ask only for bytes before the end of the file,  *)
(* and max_read keeps a request shorter than a chunk.                       *)
Init == /\ size \in 1 .. MaxSize
        /\ start \in 0 .. size - 1
        /\ length \in 1 .. ChunkSize
        /\ offset \in 0 .. MaxOffset

Next == UNCHANGED vars

Spec == Init /\ [][Next]_vars

(* The decrypted size of every file, the empty one included.                *)
SizesRoundTrip == RoundTrip(size) /\ RoundTrip(0)

(* Every read is answered with exactly the bytes asked for.                 *)
ReadsAreCovered == PiecesCoverRead(start, start + length, size)

(* Every chunk a read needs is fetched whole.                               *)
RangesHoldChunks ==
    \A i \in DOMAIN Pieces(start, start + length, size) :
        RangeHoldsChunk(Pieces(start, start + length, size)[i].chunk,
                        offset, size)
=============================================================================
