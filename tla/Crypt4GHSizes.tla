---------------------------- MODULE Crypt4GHSizes ----------------------------
(***************************************************************************)
(* The arithmetic between a decrypted file, as FUSE shows it, and its      *)
(* Crypt4GH object in storage: sizes, the chunks the download cache is     *)
(* keyed by, and the byte ranges requested from S3.                        *)
(*                                                                         *)
(* An encrypted body is a sequence of cipher blocks, each the encryption   *)
(* of BlockSize bytes plus MacSize bytes of nonce and tag; the last block  *)
(* may be short.                                                           *)
(***************************************************************************)
EXTENDS Integers

CONSTANTS BlockSize,      \* bytes of plain text in a block (65536)
          MacSize,        \* bytes a block grows by (28)
          BlocksPerChunk  \* blocks in a cached chunk (512)

ASSUME SizeAssumption ==
    /\ BlockSize \in Nat \ {0}
    /\ MacSize \in Nat \ {0}
    /\ BlocksPerChunk \in Nat \ {0}

CipherBlockSize == BlockSize + MacSize
ChunkSize == BlocksPerChunk * BlockSize

Least(a, b) == IF a <= b THEN a ELSE b

(* math.Ceil(float64(a) / float64(b)), exact for every object S3 can hold   *)
Blocks(a, b) == (a + b - 1) \div b

CalculateEncryptedSize(decryptedSize) ==
    decryptedSize + Blocks(decryptedSize, BlockSize) * MacSize

\* mutant: counts blocks of plain text in the encrypted body
calculateDecryptedSize_PlainBlocks(bodySize) ==
    bodySize - Blocks(bodySize, BlockSize) * MacSize

calculateDecryptedSize(bodySize) ==
    bodySize - Blocks(bodySize, CipherBlockSize) * MacSize

(* A piece of a chunk: the interval [from, to) of the file.                 *)
Piece(chunk, from, to) == [chunk |-> chunk, from |-> from, to |-> to]

\* mutant: the end of the read is taken as inclusive
Pieces_EndInclusive(start, end, fileSize) ==
    LET last       == Least(end, fileSize)
        chunkStart == start \div ChunkSize
        chunkEnd   == last \div ChunkSize
        first      == Piece(chunkStart, start,
                            Least((chunkStart + 1) * ChunkSize, last))
    IN  IF chunkStart = chunkEnd
          THEN <<first>>
          ELSE <<first, Piece(chunkEnd, chunkEnd * ChunkSize, last)>>

(* DownloadData: the chunks a read of [start, end) is put together from.    *)
Pieces(start, end, fileSize) ==
    LET last       == Least(end, fileSize)
        chunkStart == start \div ChunkSize
        chunkEnd   == (last - 1) \div ChunkSize
        maxEnd     == Least((chunkStart + 1) * ChunkSize, last)
        first      == Piece(chunkStart, start, maxEnd)
    IN  IF chunkStart = chunkEnd
          THEN <<first>>
          ELSE <<first, Piece(chunkEnd, chunkEnd * ChunkSize, last)>>

\* mutant: the start of the chunk is not converted to encrypted coordinates
ChunkRange_PlainStart(chunk, oldOffset, fileSize) ==
    [from |-> chunk * ChunkSize + oldOffset,
     to   |-> Least((chunk + 1) * BlocksPerChunk * CipherBlockSize,
                    CalculateEncryptedSize(fileSize)) + oldOffset]

(* getDataChunk: the range [from, to) of the object that holds a chunk of a *)
(* file of fileSize bytes whose encrypted body starts at oldOffset.         *)
ChunkRange(chunk, oldOffset, fileSize) ==
    LET chByteStart == chunk * ChunkSize
        chByteEnd   == (chunk + 1) * ChunkSize
    IN  [from |-> (chByteStart \div BlockSize) * CipherBlockSize + oldOffset,
         to   |-> Least(((chByteEnd + BlockSize - 1) \div BlockSize)
                            * CipherBlockSize + oldOffset,
                        CalculateEncryptedSize(fileSize) + oldOffset)]

(* How much of a file of fileSize bytes a cached chunk holds.               *)
ChunkLength(chunk, fileSize) ==
    Least((chunk + 1) * ChunkSize, fileSize) - chunk * ChunkSize

-----------------------------------------------------------------------------
(* Properties, for one size or one read at a time *)

(* CheckHeaderExistence shows a headerless object with the size of the      *)
(* file that was encrypted into it.                                         *)
RoundTrip(n) == calculateDecryptedSize(CalculateEncryptedSize(n)) = n

(* A read no longer than a chunk is answered with exactly the bytes asked   *)
(* for that the file has, in order, none twice and none left out, and every *)
(* piece lies inside its chunk.                                             *)
PiecesCoverRead(start, end, fileSize) ==
    LET p == Pieces(start, end, fileSize)
        k == IF p[1].to = Least(end, fileSize) THEN 1 ELSE 2
    IN  /\ DOMAIN p = 1 .. k
        /\ p[1].from = start
        /\ p[k].to = Least(end, fileSize)
        /\ k = 2 => p[1].to = p[2].from
        /\ \A i \in 1 .. k :
             /\ p[i].chunk * ChunkSize <= p[i].from
             /\ p[i].from < p[i].to
             /\ p[i].to - p[i].chunk * ChunkSize
                  <= ChunkLength(p[i].chunk, fileSize)

(* The range requested for a chunk of the file starts at a cipher block,    *)
(* ends at one or at the end of the object, and decrypts to exactly the     *)
(* bytes of the chunk.                                                      *)
RangeHoldsChunk(chunk, oldOffset, fileSize) ==
    LET r == ChunkRange(chunk, oldOffset, fileSize)
    IN  /\ (r.from - oldOffset) % CipherBlockSize = 0
        /\ \/ (r.to - oldOffset) % CipherBlockSize = 0
           \/ r.to = oldOffset + CalculateEncryptedSize(fileSize)
        /\ calculateDecryptedSize(r.to - r.from) = ChunkLength(chunk, fileSize)
=============================================================================
