-------------------------- MODULE FileAccessProofs --------------------------
(* What Crypt4GHSizes calculates for every block, chunk and file, and what  *)
(* FileAccess keeps for any set of files and versions: the types, and, when *)
(* commands are only given while FUSE is quiet, that a directory is as      *)
(* large as its files, and that reads are answered with one version that is *)
(* fresh, as RemoteFiles promises.                                          *)
EXTENDS FileAccess, FiniteSetTheorems, TLAPS

-----------------------------------------------------------------------------
(* The arithmetic of Crypt4GHSizes, for every block and chunk size *)

LEMMA DivBounds ==
  ASSUME NEW a \in Int, NEW b \in Nat \ {0}
  PROVE  /\ a \div b \in Int
         /\ b * (a \div b) <= a
         /\ a < b * (a \div b) + b
  BY SMT

LEMMA Cancel ==
  ASSUME NEW b \in Nat \ {0}, NEW x \in Int, NEW y \in Int, b * x < b * y
  PROVE  x < y
  BY SMT

(* A quotient is the only number with its bounds.                           *)
LEMMA DivUnique ==
  ASSUME NEW a \in Int, NEW b \in Nat \ {0}, NEW k \in Int,
         b * k <= a, a < b * k + b
  PROVE  a \div b = k
<1> DEFINE d == a \div b
<1>1. d \in Int /\ b * d <= a /\ a < b * d + b
  BY DivBounds
<1> HIDE DEF d
<1>2. b * d < b * (k + 1) /\ b * k < b * (d + 1)
  BY <1>1, SMT
<1>3. d < k + 1 /\ k < d + 1
  BY <1>1, <1>2, Cancel
<1>4. d = k
  BY <1>1, <1>3
<1>5. QED
  BY <1>4 DEF d

(* Blocks rounds up: k blocks of size b are enough for a, k - 1 are not.    *)
LEMMA BlocksBounds ==
  ASSUME NEW a \in Int, NEW b \in Nat \ {0}
  PROVE  /\ Blocks(a, b) \in Int
         /\ a <= b * Blocks(a, b)
         /\ b * Blocks(a, b) < a + b
<1>1. a + b - 1 \in Int
  OBVIOUS
<1>2. QED
  BY <1>1, DivBounds DEF Blocks

LEMMA BlocksUnique ==
  ASSUME NEW a \in Int, NEW b \in Nat \ {0}, NEW k \in Int,
         a <= b * k, b * k < a + b
  PROVE  Blocks(a, b) = k
<1>1. a + b - 1 \in Int /\ b * k <= a + b - 1 /\ a + b - 1 < b * k + b
  BY SMT
<1>2. QED
  BY <1>1, DivUnique DEF Blocks

(* The sizes FUSE shows are the sizes of the files that were encrypted:     *)
(* calculateDecryptedSize undoes CalculateEncryptedSize for every size,     *)
(* whatever the block and MAC sizes are.                                    *)
THEOREM SizesRoundTripAlways == \A n \in Nat : RoundTrip(n)
<1> SUFFICES ASSUME NEW n \in Nat
             PROVE  RoundTrip(n)
  OBVIOUS
<1> DEFINE k == Blocks(n, BlockSize)
           e == n + k * MacSize
<1>1. k \in Int /\ n <= BlockSize * k /\ BlockSize * k < n + BlockSize
  BY BlocksBounds, SizeAssumption
<1> HIDE DEF k
<1>2. CipherBlockSize \in Nat \ {0}
  BY SizeAssumption DEF CipherBlockSize
<1>3. CipherBlockSize * k = BlockSize * k + MacSize * k
  BY <1>1, SizeAssumption DEF CipherBlockSize
<1>4. /\ e \in Int /\ e <= CipherBlockSize * k
      /\ CipherBlockSize * k < e + CipherBlockSize
  BY <1>1, <1>3, SizeAssumption DEF CipherBlockSize
<1>5. Blocks(e, CipherBlockSize) = k
  BY <1>1, <1>2, <1>4, BlocksUnique
<1>6. e - k * MacSize = n
  BY <1>1, SizeAssumption
<1>7. QED
  BY <1>5, <1>6
  DEF RoundTrip, CalculateEncryptedSize, calculateDecryptedSize, k

-----------------------------------------------------------------------------
LEMMA ChunkSizePositive == ChunkSize \in Nat \ {0}
  BY SizeAssumption DEF ChunkSize

(* FUSE never asks for more than max_read, which is less than a chunk: such *)
(* a read of bytes the file has is split into pieces that are exactly what  *)
(* was asked for.                                                           *)
THEOREM ReadsAlwaysCovered ==
  ASSUME NEW fileSize \in Nat, NEW start \in Nat, start < fileSize,
         NEW length \in 1 .. ChunkSize
  PROVE  PiecesCoverRead(start, start + length, fileSize)
<1> DEFINE C == ChunkSize
           last == Least(start + length, fileSize)
           cs == start \div C
           ce == (last - 1) \div C
           csByte == cs * C          \* where the first chunk starts
           ceByte == ce * C          \* where the last chunk starts
           nextByte == (cs + 1) * C  \* where the chunk after the first starts
           maxEnd == Least(nextByte, last)
           p == Pieces(start, start + length, fileSize)
<1>1. C \in Nat \ {0} /\ length \in Nat /\ 1 <= length /\ length <= C
  BY ChunkSizePositive
<1>2. last \in Nat /\ start < last /\ last <= fileSize /\ last <= start + C
  BY <1>1 DEF Least
<1>3. p = IF cs = ce THEN <<Piece(cs, start, maxEnd)>>
                     ELSE <<Piece(cs, start, maxEnd), Piece(ce, ceByte, last)>>
  BY DEF Pieces
<1>4. \A i \in Int :
        ChunkLength(i, fileSize) = Least(i * C + C, fileSize) - i * C
  <2> SUFFICES ASSUME NEW i \in Int
               PROVE  ChunkLength(i, fileSize)
                        = Least(i * C + C, fileSize) - i * C
    OBVIOUS
  <2>1. (i + 1) * C = i * C + C
    BY <1>1
  <2>2. QED
    BY <2>1 DEF ChunkLength
<1>5. ASSUME NEW k \in {1, 2}, k = IF p[1].to = last THEN 1 ELSE 2,
             DOMAIN p = 1 .. k, p[1].from = start, p[k].to = last,
             k = 2 => p[1].to = p[2].from,
             \A i \in 1 .. k :
               /\ p[i].chunk * C <= p[i].from
               /\ p[i].from < p[i].to
               /\ p[i].to - p[i].chunk * C <= ChunkLength(p[i].chunk, fileSize)
      PROVE  PiecesCoverRead(start, start + length, fileSize)
  BY <1>5 DEF PiecesCoverRead
<1> HIDE DEF C, last, p
<1>6. cs \in Int /\ csByte <= start /\ start < csByte + C
  BY <1>1, DivBounds
<1>7. ce \in Int /\ ceByte <= last - 1 /\ last - 1 < ceByte + C
  <2>1. last - 1 \in Int
    BY <1>2
  <2>2. QED
    BY <1>1, <2>1, DivBounds
<1> HIDE DEF cs, ce
<1>8. csByte \in Int /\ ceByte \in Int /\ nextByte = csByte + C
  BY <1>1, <1>6, <1>7
<1>9. cs = ce \/ ce = cs + 1
  <2>1. C * cs < C * (ce + 1) /\ C * ce < C * (cs + 2)
    BY <1>1, <1>2, <1>6, <1>7
  <2>2. QED
    BY <1>1, <1>6, <1>7, <2>1, Cancel
<1>10. ChunkLength(cs, fileSize) = Least(csByte + C, fileSize) - csByte
       /\ ChunkLength(ce, fileSize) = Least(ceByte + C, fileSize) - ceByte
  BY <1>4, <1>6, <1>7
<1>11. cs = ce => csByte = ceByte
  OBVIOUS
<1>12. ce = cs + 1 => ceByte = nextByte
  OBVIOUS
<1> HIDE DEF csByte, ceByte, nextByte
<1>13. CASE cs = ce
  <2>1. maxEnd = last
    BY <1>1, <1>2, <1>7, <1>8, <1>11, <1>13 DEF Least
  <2>2. /\ DOMAIN p = 1 .. 1
        /\ p[1].chunk = cs /\ p[1].from = start /\ p[1].to = last
    BY <1>3, <1>13, <2>1 DEF Piece
  <2>3. last - csByte <= ChunkLength(cs, fileSize)
    BY <1>1, <1>2, <1>7, <1>8, <1>10, <1>11, <1>13 DEF Least
  <2>4. cs * C <= start /\ last - cs * C <= ChunkLength(cs, fileSize)
    BY <1>6, <2>3 DEF csByte
  <2>5. QED
    BY <1>2, <1>5, <2>2, <2>4
<1>14. CASE ce = cs + 1
  <2>1. maxEnd = ceByte /\ ceByte < last /\ start < ceByte
    BY <1>1, <1>2, <1>6, <1>7, <1>8, <1>12, <1>14 DEF Least
  <2>2. cs # ce
    BY <1>6, <1>14
  <2>3. /\ DOMAIN p = 1 .. 2
        /\ p[1].chunk = cs /\ p[1].from = start /\ p[1].to = ceByte
        /\ p[2].chunk = ce /\ p[2].from = ceByte /\ p[2].to = last
    BY <1>3, <2>1, <2>2 DEF Piece
  <2>4. ceByte - csByte <= ChunkLength(cs, fileSize)
    BY <1>1, <1>2, <1>8, <1>10, <1>12, <1>14, <2>1 DEF Least
  <2>5. last - ceByte <= ChunkLength(ce, fileSize)
    BY <1>1, <1>2, <1>7, <1>8, <1>10 DEF Least
  <2>6. /\ cs * C <= start /\ ceByte - cs * C <= ChunkLength(cs, fileSize)
        /\ ce * C <= ceByte /\ last - ce * C <= ChunkLength(ce, fileSize)
    BY <1>6, <1>8, <2>4, <2>5 DEF csByte, ceByte
  <2>7. QED
    BY <1>2, <1>5, <1>8, <2>1, <2>3, <2>6
<1>15. QED
  BY <1>9, <1>13, <1>14

-----------------------------------------------------------------------------
(* Whole blocks have nothing left over.                                     *)
LEMMA NoRemainder ==
  ASSUME NEW k \in Int, NEW b \in Nat \ {0}
  PROVE  (b * k) \div b = k /\ (b * k) % b = 0
<1>1. b * k \in Int
  OBVIOUS
<1>2. (b * k) \div b = k
  BY <1>1, DivUnique
<1>3. b * k = b * ((b * k) \div b) + ((b * k) % b)
      /\ (b * k) % b \in Int
  BY <1>1, SMT
<1>4. QED
  BY <1>1, <1>2, <1>3

(* Smaller products have smaller factors.                                   *)
LEMMA CancelLeq ==
  ASSUME NEW b \in Nat \ {0}, NEW x \in Int, NEW y \in Int, b * x <= b * y
  PROVE  x <= y
<1>1. b * x < b * (y + 1)
  OBVIOUS
<1>2. x < y + 1
  BY <1>1, Cancel
<1>3. QED
  BY <1>2

(* And the other way around.                                                *)
LEMMA TimesLeq ==
  ASSUME NEW b \in Nat \ {0}, NEW x \in Int, NEW y \in Int, x <= y
  PROVE  b * x <= b * y
<1>1. PICK d \in Nat : y = x + d
  <2>1. y - x \in Nat /\ y = x + (y - x)
    OBVIOUS
  <2>2. QED
    BY <2>1
<1>2. b * y = b * x + b * d /\ b * d \in Nat
  BY <1>1
<1>3. QED
  BY <1>2

(* getDataChunk: for every chunk that a file has bytes in, the range that   *)
(* is requested starts at a cipher block, ends at one or at the end of the  *)
(* object, and decrypts to exactly the bytes of the chunk.                  *)
THEOREM RangesAlwaysHoldChunks ==
  ASSUME NEW fileSize \in Nat, NEW chunk \in Nat, NEW oldOffset \in Nat,
         chunk * ChunkSize < fileSize
  PROVE  RangeHoldsChunk(chunk, oldOffset, fileSize)
<1> DEFINE B == BlockSize
           M == MacSize
           D == CipherBlockSize
           n == fileSize
           k == Blocks(n, B)                   \* blocks of the file
           first == chunk * BlocksPerChunk     \* blocks before the chunk
           next == first + BlocksPerChunk      \* blocks up to its end
           E == CalculateEncryptedSize(n)
           r == ChunkRange(chunk, oldOffset, n)
<1>1. /\ B \in Nat \ {0} /\ M \in Nat \ {0} /\ D \in Nat \ {0} /\ D = B + M
      /\ BlocksPerChunk \in Nat \ {0}
  BY SizeAssumption DEF CipherBlockSize
<1>2. first \in Nat /\ next \in Nat /\ first < next
  BY <1>1
<1>3. /\ chunk * ChunkSize = B * first
      /\ (chunk + 1) * ChunkSize = B * next
  <2>1. /\ chunk * (BlocksPerChunk * B) = B * (chunk * BlocksPerChunk)
        /\ (chunk + 1) * (BlocksPerChunk * B)
              = B * (chunk * BlocksPerChunk + BlocksPerChunk)
    BY <1>1, SMT
  <2>2. QED
    BY <2>1 DEF ChunkSize
<1>4. k \in Int /\ n <= B * k /\ B * k < n + B
  BY <1>1, BlocksBounds
<1>5. E = n + k * M
  BY DEF CalculateEncryptedSize
<1>6. (B * first) \div B = first
  BY <1>1, <1>2, NoRemainder
<1>7. (B * next + B - 1) \div B = next
  <2>1. B * next \in Int
    BY <1>1, <1>2
  <2>2. B * next + B - 1 \in Int /\ B * next <= B * next + B - 1
        /\ B * next + B - 1 < B * next + B
    BY <1>1, <2>1
  <2>3. QED
    <3> HIDE DEF B, next
    <3>1. QED
      BY <1>1, <1>2, <2>2, DivUnique
<1>8. r = [from |-> first * D + oldOffset,
           to   |-> Least(next * D + oldOffset, E + oldOffset)]
  BY <1>3, <1>6, <1>7 DEF ChunkRange
<1>9. ChunkLength(chunk, n) = Least(B * next, n) - B * first
  BY <1>3 DEF ChunkLength
<1>10. B * first < n
  BY <1>3
<1> HIDE DEF B, M, D, k, first, next, E, r, n
<1>11. n \in Nat /\ oldOffset \in Nat
  BY DEF n
<1>12. /\ D * first = first * D /\ D * next = next * D
       /\ D * first = B * first + M * first
       /\ D * next = B * next + M * next
       /\ B * first \in Nat /\ B * next \in Nat /\ M * first \in Nat
       /\ M * next \in Nat /\ k * M = M * k /\ M * k \in Int
  BY <1>1, <1>2, <1>4, SMT
<1>13. E = n + M * k /\ E \in Int
  BY <1>5, <1>11, <1>12
<1>14. r.from - oldOffset = D * first
  BY <1>8, <1>11, <1>12
<1>15. (D * first) % D = 0 /\ (D * next) % D = 0
  BY <1>1, <1>2, NoRemainder
<1>16. CASE D * next <= E
  <2>1. r.to = D * next + oldOffset
    BY <1>8, <1>11, <1>12, <1>13, <1>16 DEF Least
  <2>2. B * next <= n
    <3>1. SUFFICES ASSUME n < B * next PROVE FALSE
      BY <1>11, <1>12
    <3>2. B * k < B * (next + 1)
      <4>1. B * (next + 1) = B * next + B
        BY <1>1, <1>2
      <4>2. QED
        BY <1>1, <1>4, <1>11, <1>12, <3>1, <4>1
    <3>3. k <= next
      <4>1. k < next + 1
        BY <1>1, <1>2, <1>4, <3>2, Cancel
      <4>2. QED
        BY <1>2, <1>4, <4>1
    <3>4. M * k <= M * next
      BY <1>1, <1>2, <1>4, <3>3, TimesLeq
    <3>5. QED
      BY <1>11, <1>12, <1>13, <1>16, <3>1, <3>4
  <2>3. r.to - r.from = D * BlocksPerChunk
    <3>1. D * next = D * first + D * BlocksPerChunk
          /\ D * BlocksPerChunk \in Int
      BY <1>1, <1>2 DEF next
    <3>2. r.from = D * first + oldOffset
      BY <1>8, <1>12
    <3>3. D * first \in Int
      BY <1>12
    <3>4. QED
      BY <1>11, <2>1, <3>1, <3>2, <3>3
  <2>4. Blocks(D * BlocksPerChunk, D) = BlocksPerChunk
    <3>1. D * BlocksPerChunk \in Int
      BY <1>1
    <3>2. QED
      BY <1>1, <3>1, BlocksUnique
  <2>5. calculateDecryptedSize(r.to - r.from)
          = D * BlocksPerChunk - BlocksPerChunk * M
    BY <2>3, <2>4 DEF calculateDecryptedSize, D, M
  <2>6. D * BlocksPerChunk - BlocksPerChunk * M = B * BlocksPerChunk
    BY <1>1, SMT
  <2>7. B * next - B * first = B * BlocksPerChunk
    BY <1>1, <1>2 DEF next
  <2>8. calculateDecryptedSize(r.to - r.from) = ChunkLength(chunk, n)
    BY <1>9, <1>11, <1>12, <2>2, <2>5, <2>6, <2>7 DEF Least
  <2>9. r.to - oldOffset = D * next
    BY <1>11, <1>12, <2>1
  <2>10. /\ (r.from - oldOffset) % D = 0
         /\ (r.to - oldOffset) % D = 0
    BY <1>14, <1>15, <2>9
  <2>11. QED
    BY <2>8, <2>10 DEF RangeHoldsChunk, r, n, D
<1>17. CASE E < D * next
  <2>1. r.to = E + oldOffset
    BY <1>8, <1>11, <1>12, <1>13, <1>17 DEF Least
  <2>2. n <= B * next
    <3>1. SUFFICES ASSUME B * next < n PROVE FALSE
      BY <1>11, <1>12
    <3>2. B * next < B * k
      BY <1>1, <1>4, <1>11, <1>12, <3>1
    <3>3. next <= k
      <4>1. next < k
        BY <1>1, <1>2, <1>4, <3>2, Cancel
      <4>2. QED
        BY <1>2, <1>4, <4>1
    <3>4. M * next <= M * k
      BY <1>1, <1>2, <1>4, <3>3, TimesLeq
    <3>5. QED
      BY <1>11, <1>12, <1>13, <1>17, <3>1, <3>4
  <2> DEFINE rest == n - B * first     \* bytes of the file from here on
             blocks == k - first       \* and their blocks
  <2>3. rest \in Nat /\ blocks \in Int
    BY <1>2, <1>4, <1>10, <1>11, <1>12
  <2>4. B * blocks = B * k - B * first /\ M * blocks = M * k - M * first
    BY <1>1, <1>2, <1>4
  <2>5. B * k \in Int
    BY <1>1, <1>4
  <2>6. rest <= B * blocks /\ B * blocks < rest + B
    BY <1>1, <1>4, <1>11, <1>12, <2>4, <2>5
  <2>7. Blocks(rest, B) = blocks
    <3> HIDE DEF rest, blocks
    <3>1. QED
      BY <1>1, <2>3, <2>6, BlocksUnique
  <2>8. CalculateEncryptedSize(rest) = rest + blocks * M
    BY <2>7 DEF CalculateEncryptedSize, B, M
  <2>9. blocks * M = M * blocks
    BY <1>1, <2>3
  <2>10. r.to - r.from = rest + M * blocks
    <3>1. r.from = D * first + oldOffset /\ D * first \in Int
      BY <1>8, <1>12
    <3>2. r.to - r.from = E - D * first
      BY <1>11, <1>13, <2>1, <3>1
    <3>3. E - D * first = n - B * first + (M * k - M * first)
      BY <1>11, <1>12, <1>13
    <3>4. QED
      BY <2>4, <3>2, <3>3
  <2>11. calculateDecryptedSize(r.to - r.from) = rest
    <3> HIDE DEF rest, blocks
    <3>1. r.to - r.from = CalculateEncryptedSize(rest)
      BY <2>8, <2>9, <2>10
    <3>2. RoundTrip(rest)
      BY <2>3, SizesRoundTripAlways
    <3>3. QED
      BY <3>1, <3>2 DEF RoundTrip
  <2>12. ChunkLength(chunk, n) = rest
    BY <1>9, <1>11, <1>12, <2>2 DEF Least
  <2>13. /\ (r.from - oldOffset) % D = 0
         /\ r.to = oldOffset + E
    BY <1>11, <1>13, <1>14, <1>15, <2>1
  <2>14. QED
    BY <2>11, <2>12, <2>13 DEF RangeHoldsChunk, r, n, D, E
<1>18. QED
  BY <1>1, <1>12, <1>13, <1>16, <1>17

-----------------------------------------------------------------------------
(* The inductive invariant *)

\* No file is larger than what storage takes. The node of one that is deleted
\* while it is opened is empty, and the size of a file is calculated of it as
\* if the two bytes of its offset -2 were there.
SizeFits(s) == s <= MaxSize \/ s <= 1

SizesFit == \A f \in Files : /\ SizeFits(node[f].size)
                             /\ clear.listing[f] <= MaxSize

\* A piece of a read lies in its chunk, and the file reaches as far.
PieceFits(p, fileSize) ==
    /\ p.chunk * ChunkSize <= p.from
    /\ p.from < p.to
    /\ p.to - p.chunk * ChunkSize <= ChunkLength(p.chunk, fileSize)

\* A request is about a file, and asks for what is in the size that it saw.
RequestFits ==
    /\ fuse.pc \in {"header", "reencrypt"} =>
        /\ fuse.file \in Files
        /\ node[fuse.file].offset = -2 => node[fuse.file].size = 0
    /\ fuse.pc \in {"chunk", "store"} =>
        /\ fuse.file \in Files
        /\ fuse.pieces # <<>>
        /\ SizeFits(fuse.size)
        /\ \A i \in DOMAIN fuse.pieces : PieceFits(fuse.pieces[i], fuse.size)

\* What holds also of commands that are given at any time.
TypesInv == TypeOK /\ SizesFit /\ RequestFits

\* While a file is opened or read, no command is executed.
OneAtATime == clear.pc = "idle" \/ fuse.pc = "idle"

\* A file whose header is not fetched has none.
HeadersFit ==
    \A f \in Files : node[f].offset < 0 => headers[f].value = None

\* What the cache has of a file was decrypted with the header that the file
\* has, was in storage since it was cleared, and is cut to the file's size.
ChunkFits(f, c) ==
    /\ headers[f].value # None
    /\ cache[f][c].version = headers[f].value
    /\ cache[f][c].version \in allowed[f]
    /\ cache[f][c].length = ChunkLength(c, node[f].size)
    /\ c * ChunkSize < node[f].size

CacheFits ==
    \A f \in Files, c \in Chunks : cache[f][c] # NoChunk => ChunkFits(f, c)

\* A file that is being opened has no header yet.
OpenFits ==
    fuse.pc \in {"header", "reencrypt"} =>
        /\ node[fuse.file].offset = 0
        /\ headers[fuse.file].value = None

\* What a read has seen of its file is still true, and what it has got is of
\* the version whose header the file has.
ReadFits ==
    /\ fuse.pc \in {"chunk", "store"} =>
        /\ fuse.header = headers[fuse.file] /\ fuse.header.value # None
        /\ fuse.size = node[fuse.file].size
        /\ fuse.floor = allowed[fuse.file]
    /\ fuse.pc = "store" => /\ fuse.fetched = fuse.header.value
                            /\ fuse.fetched \in fuse.floor
    /\ \A i \in DOMAIN fuse.got : /\ fuse.got[i] = fuse.header.value
                                  /\ fuse.got[i] \in fuse.floor

\* What is in storage now may be read.
StoredIsAllowed ==
    /\ \A f \in Files : obj[f] \in allowed[f]
    /\ clear.pc = "listed" => \A f \in Files : obj[f] \in clear.since[f]

Fits == /\ OneAtATime /\ HeadersFit /\ CacheFits /\ OpenFits /\ ReadFits
        /\ StoredIsAllowed /\ status = "running"

IInv == TypeOK /\ SizesFit /\ RequestFits /\ Fits

-----------------------------------------------------------------------------
(* Sizes *)

(* The two threads' sizes are numbers.                                      *)
LEMMA ConstantTypes ==
  /\ CipherBlockSize \in Nat \ {0} /\ ChunkSize \in Nat \ {0}
  /\ BlockSize \in Nat \ {0} /\ MacSize \in Nat \ {0}
  /\ MaxSize \in Nat /\ ReadSize \in 1 .. ChunkSize
  /\ PlainSize \in [Versions -> Nat] /\ HeaderSize \in [Versions -> Nat]
  /\ None \notin Versions
BY SizeAssumption, AccessAssumption DEF CipherBlockSize, ChunkSize

(* A body of some bytes takes at least no blocks.                           *)
LEMMA BlocksNat ==
  ASSUME NEW a \in Nat, NEW b \in Nat \ {0}
  PROVE  Blocks(a, b) \in Nat
<1>1. Blocks(a, b) \in Int /\ a <= b * Blocks(a, b)
  BY BlocksBounds
<1> DEFINE k == Blocks(a, b)
<1> HIDE DEF k
<1>2. k \in Int /\ b * (-1) < b * k
  BY <1>1 DEF k
<1>3. -1 < k
  BY <1>2, Cancel
<1>4. QED
  BY <1>2, <1>3 DEF k

(* No object is larger than storage takes.                                  *)
LEMMA StoredSizeType ==
  ASSUME NEW v \in Stored
  PROVE  StoredSize(v) \in Nat /\ StoredSize(v) <= MaxSize
<1>1. CASE v = None
  BY <1>1, ConstantTypes DEF StoredSize
<1>2. CASE v # None
  <2>1. v \in Versions /\ PlainSize[v] \in Nat /\ HeaderSize[v] \in Nat
    BY <1>2, ConstantTypes DEF Stored
  <2>2. Blocks(PlainSize[v], BlockSize) \in Nat
    BY <2>1, ConstantTypes, BlocksNat
  <2>3. Blocks(PlainSize[v], BlockSize) * MacSize \in Nat
    BY <2>2, ConstantTypes
  <2>4. CalculateEncryptedSize(PlainSize[v]) \in Nat
    BY <2>1, <2>3 DEF CalculateEncryptedSize
  <2>5. HeaderSize[v] + CalculateEncryptedSize(PlainSize[v]) <= MaxSize
    BY <2>1, AccessAssumption
  <2>6. QED
    BY <1>2, <2>1, <2>4, <2>5 DEF StoredSize
<1>3. QED
  BY <1>1, <1>2

(* What a body is decrypted to is not longer, and short by less than a      *)
(* block even where the body is cut off.                                    *)
LEMMA DecryptedSize ==
  ASSUME NEW b \in Nat
  PROVE  /\ calculateDecryptedSize(b) \in Int
         /\ calculateDecryptedSize(b) > -MacSize
         /\ calculateDecryptedSize(b) <= b
         /\ b > 0 => calculateDecryptedSize(b) < b
<1> DEFINE k == Blocks(b, CipherBlockSize)
           M == MacSize
           B == BlockSize
<1>1. k \in Nat /\ b <= CipherBlockSize * k
      /\ CipherBlockSize * k < b + CipherBlockSize
  BY ConstantTypes, BlocksNat, BlocksBounds
<1>2. CipherBlockSize = B + M /\ B \in Nat \ {0} /\ M \in Nat \ {0}
  BY ConstantTypes DEF CipherBlockSize
<1>3. calculateDecryptedSize(b) = b - k * M
  BY DEF calculateDecryptedSize
<1> HIDE DEF k, M, B
<1>4. k * M \in Nat
  BY <1>1, <1>2
<1>5. b - k * M > -M
  <2>1. CASE k = 0
    BY <1>2, <2>1
  <2>2. CASE k # 0
    <3>1. PICK j \in Nat : k = j + 1
      BY <1>1, <2>2
    <3>2. B * j \in Nat /\ M * j \in Nat
      BY <1>2, <3>1
    <3>3. (B + M) * k = B * j + M * j + B + M /\ k * M = M * j + M
      BY <1>2, <3>1
    <3>4. B * j + M * j < b
      BY <1>1, <1>2, <3>2, <3>3
    <3>5. QED
      BY <1>2, <3>2, <3>3, <3>4
  <2>3. QED
    BY <2>1, <2>2
<1>6. b > 0 => b - k * M < b
  <2>1. SUFFICES ASSUME b > 0 PROVE k * M > 0
    BY <1>4
  <2>2. PICK j \in Nat : k = j + 1
    <3>1. k # 0
      BY <1>1, <2>1, ConstantTypes
    <3>2. k - 1 \in Nat /\ k = (k - 1) + 1
      BY <1>1, <3>1
    <3>3. QED
      BY <3>2
  <2>3. k * M = j * M + M /\ j * M \in Nat
    BY <1>2, <2>2
  <2>4. QED
    BY <1>2, <2>3
<1>7. QED
  BY <1>3, <1>4, <1>5, <1>6 DEF M

(* The size that CheckHeaderExistence calculates, for each offset.          *)
LEMMA KeptSizeFits ==
  ASSUME NEW size \in Int, SizeFits(size), NEW offset \in Nat \cup {-1, -2},
         offset = -2 => size = 0, size - offset >= 0
  PROVE  /\ calculateDecryptedSize(size - offset) \in Int
         /\ calculateDecryptedSize(size - offset) > -MacSize
         /\ SizeFits(calculateDecryptedSize(size - offset))
<1> DEFINE b == size - offset
           d == calculateDecryptedSize(b)
<1>1. b \in Nat /\ MaxSize \in Nat
  BY ConstantTypes
<1>2. d \in Int /\ d > -MacSize /\ d <= b /\ (b > 0 => d < b)
  BY <1>1, DecryptedSize
<1> HIDE DEF d
<1>3. SizeFits(d)
  <2>1. CASE offset \in Nat
    BY <1>1, <1>2, <2>1 DEF SizeFits
  <2>2. CASE offset = -1
    BY <1>1, <1>2, <2>2 DEF SizeFits
  <2>3. CASE offset = -2
    BY <1>1, <1>2, <2>3 DEF SizeFits
  <2>4. QED
    BY <2>1, <2>2, <2>3
<1>4. QED
  BY <1>2, <1>3 DEF d

(* Those that DownloadData makes do.                                        *)
LEMMA PiecesFit ==
  ASSUME NEW fileSize \in Nat, NEW start \in Nat, start < fileSize
  PROVE  LET p == Pieces(start, start + ReadSize, fileSize)
         IN  /\ p \in Seq(ReadPieces) /\ p # <<>>
             /\ \A i \in DOMAIN p : PieceFits(p[i], fileSize)
<1> DEFINE end == start + ReadSize
           p == Pieces(start, end, fileSize)
           last == Least(end, fileSize)
           cs == start \div ChunkSize
           ce == (last - 1) \div ChunkSize
<1>1. PiecesCoverRead(start, end, fileSize)
  BY ReadsAlwaysCovered, ConstantTypes
<1>2. last \in Nat /\ last >= 1 /\ start < last
  BY ConstantTypes DEF Least
<1>3. cs \in Nat /\ ce \in Nat
  BY <1>2, ConstantTypes
<1>4. cs * ChunkSize \in Nat /\ (cs + 1) * ChunkSize \in Nat
      /\ ce * ChunkSize \in Nat
  BY <1>3, ConstantTypes
<1>5. Piece(cs, start, Least((cs + 1) * ChunkSize, last)) \in ReadPieces
  BY <1>2, <1>3, <1>4 DEF Piece, ReadPieces, Least
<1>6. Piece(ce, ce * ChunkSize, last) \in ReadPieces
  BY <1>2, <1>3, <1>4 DEF Piece, ReadPieces
<1>7. \/ p = <<Piece(cs, start, Least((cs + 1) * ChunkSize, last))>>
      \/ p = <<Piece(cs, start, Least((cs + 1) * ChunkSize, last)),
               Piece(ce, ce * ChunkSize, last)>>
  BY DEF Pieces
<1>8. \A i \in DOMAIN p : PieceFits(p[i], fileSize)
  BY <1>1 DEF PiecesCoverRead, PieceFits
<1> HIDE DEF cs, ce, last, p
<1>9. p \in Seq(ReadPieces) /\ p # <<>>
  <2>1. \A x, y \in ReadPieces : /\ <<x>> \in Seq(ReadPieces) /\ <<x>> # <<>>
                                 /\ <<x, y>> \in Seq(ReadPieces)
                                 /\ <<x, y>> # <<>>
    OBVIOUS
  <2>2. QED
    BY <1>5, <1>6, <1>7, <2>1
<1>10. QED
  BY <1>8, <1>9 DEF p

(* A chunk below the end of what storage takes is one of Chunks.            *)
LEMMA ChunkInCache ==
  ASSUME NEW c \in Nat, NEW size \in Int, SizeFits(size),
         c * ChunkSize < size
  PROVE  c \in Chunks
<1> DEFINE d == MaxSize \div ChunkSize
           C == ChunkSize
<1>1. d \in Int /\ C * d <= MaxSize /\ MaxSize < C * d + C
      /\ C \in Nat \ {0} /\ MaxSize \in Nat
  BY ConstantTypes, DivBounds
<1>2. C * c < C * d + C
  <2>1. c * C \in Int /\ c * C = C * c
    BY <1>1
  <2>2. C * d \in Int
    BY <1>1
  <2>3. CASE size <= MaxSize
    BY <1>1, <2>1, <2>2, <2>3
  <2>4. CASE size <= 1
    <3>1. C * c < 1
      BY <2>1, <2>4
    <3>2. QED
      BY <1>1, <2>1, <2>2, <3>1
  <2>5. QED
    BY <2>3, <2>4 DEF SizeFits
<1> HIDE DEF C, d
<1>3. C * c < C * (d + 1)
  BY <1>1, <1>2
<1>4. c < d + 1
  BY <1>1, <1>3, Cancel
<1>5. QED
  BY <1>1, <1>4 DEF Chunks, d

-----------------------------------------------------------------------------
(* The types *)

(* A request and a command that are idle.                                   *)
LEMMA IdleTypes ==
  /\ NoHeader \in Headers /\ NoChunk \in [version : Stored, length : Nat]
  /\ None \in Stored
  /\ FuseIdle \in FuseStates /\ ClearIdle \in ClearStates
<1>1. None \in Stored
  BY DEF Stored
<1>2. NoHeader \in Headers /\ NoChunk \in [version : Stored, length : Nat]
  BY <1>1 DEF NoHeader, NoChunk, Headers
<1>3. <<>> \in Seq(ReadPieces) /\ <<>> \in Seq(Stored)
  OBVIOUS
<1>4. FuseIdle \in FuseStates
  BY <1>1, <1>2, <1>3 DEF FuseIdle, FuseStates
<1>5. ClearIdle \in ClearStates
  BY DEF ClearIdle, ClearStates
<1>6. QED
  BY <1>1, <1>2, <1>4, <1>5

(* A node as a listing makes it.                                            *)
LEMMA FreshTypes ==
  ASSUME TypeOK, NEW f \in Files
  PROVE  /\ FreshNode(f) \in [size : Int, offset : Nat \cup {-1, -2}]
         /\ FreshNode(f).size \in Nat /\ SizeFits(FreshNode(f).size)
         /\ FreshNode(f).offset = -1
         /\ FreshHeader(f) \in Headers /\ FreshHeader(f).value = None
<1>1. StoredSize(obj[f]) \in Nat /\ StoredSize(obj[f]) <= MaxSize
  BY StoredSizeType DEF TypeOK
<1>2. (f \in Shared) \in BOOLEAN
  OBVIOUS
<1>3. QED
  BY <1>1, <1>2, IdleTypes DEF FreshNode, FreshHeader, Headers, SizeFits

(* An idle FUSE thread asks for nothing.                                    *)
LEMMA IdleRequest ==
  ASSUME fuse' = FuseIdle
  PROVE  RequestFits' /\ fuse' \in FuseStates
BY IdleTypes DEF FuseIdle, RequestFits

(* Sizes that no step has touched still fit, and so does a request.         *)
LEMMA SameSizesFit ==
  ASSUME SizesFit, clear'.listing = clear.listing,
         \A f \in Files : node'[f].size = node[f].size
  PROVE  SizesFit'
BY DEF SizesFit, SizeFits

LEMMA SameRequestFits ==
  ASSUME RequestFits, node' = node, fuse'.file = fuse.file,
         fuse'.size = fuse.size, fuse'.pieces = fuse.pieces,
         \/ fuse'.pc = fuse.pc
         \/ /\ {fuse.pc, fuse'.pc} \subseteq {"header", "reencrypt"}
         \/ /\ {fuse.pc, fuse'.pc} \subseteq {"chunk", "store"}
         \/ fuse'.pc = "answer"
  PROVE  RequestFits'
BY DEF RequestFits

(* s3_open.                                                                 *)
LEMMA TypeOpen ==
  ASSUME TypesInv, \E f \in Files : OpenFirst(f) \/ OpenAgain(f) \/ Release(f)
  PROVE  TypesInv'
<1> PICK f \in Files : OpenFirst(f) \/ OpenAgain(f) \/ Release(f)
  OBVIOUS
<1> USE DEF TypesInv, TypeOK, storage
<1>1. CASE OpenFirst(f)
  <2>1. fuse' \in FuseStates /\ fuse'.pc = "header" /\ fuse'.file = f
    BY <1>1, IdleTypes DEF OpenFirst, FuseStates
  <2>2. /\ node' \in [Files -> [size : Int, offset : Nat \cup {-1, -2}]]
        /\ \A g \in Files : node'[g].size = node[g].size
        /\ node'[f].offset = 0
    BY <1>1 DEF OpenFirst
  <2>3. SizesFit'
    BY <1>1, <2>2, SameSizesFit DEF OpenFirst
  <2>4. RequestFits'
    BY <2>1, <2>2 DEF RequestFits
  <2>5. QED
    BY <1>1, <2>1, <2>2, <2>3, <2>4 DEF OpenFirst
<1>2. CASE OpenAgain(f) \/ Release(f)
  <2>1. SizesFit' /\ RequestFits'
    BY <1>2, SameSizesFit, SameRequestFits DEF OpenAgain, Release
  <2>2. QED
    BY <1>2, <2>1 DEF OpenAgain, Release
<1>3. QED
  BY <1>1, <1>2

(* CheckHeaderExistence.                                                    *)
LEMMA KeepHeaderTypes ==
  ASSUME TypesInv, fuse.file \in Files, NEW v \in Stored,
         NEW offset \in Nat \cup {-1, -2}, KeepHeader(v, offset),
         offset = -2 => node[fuse.file].size = 0
  PROVE  /\ node' \in [Files -> [size : Int, offset : Nat \cup {-1, -2}]]
         /\ \A f \in Files : node'[f].size > -MacSize /\ SizeFits(node'[f].size)
         /\ headers' \in [Files -> Headers]
         /\ opened' \subseteq Files /\ fuse' = FuseIdle
<1> USE DEF TypesInv, TypeOK
<1> DEFINE bodySize == node[fuse.file].size - offset
<1>1. opened' \subseteq Files /\ fuse' = FuseIdle
  BY DEF KeepHeader, OpenReturns
<1>2. \A f \in Files : SizeFits(node[f].size)
  BY DEF SizesFit
<1>3. CASE bodySize < 0
  <2>1. /\ headers' = [headers EXCEPT ![fuse.file] = NoHeader]
        /\ node' = [node EXCEPT ![fuse.file].offset = offset]
    BY <1>3 DEF KeepHeader
  <2>2. QED
    BY <1>1, <1>2, <2>1, IdleTypes
<1>4. CASE ~(bodySize < 0)
  <2>1. bodySize >= 0
    BY <1>4
  <2> DEFINE newSize == calculateDecryptedSize(bodySize)
  <2>2. newSize \in Int /\ newSize > -MacSize /\ SizeFits(newSize)
    BY <1>2, <2>1, KeptSizeFits
  <2>3. headers' = [headers EXCEPT ![fuse.file] =
                        [fuse.header EXCEPT !.value = v]]
        /\ node' = [node EXCEPT ![fuse.file] = [size |-> newSize,
                                                offset |-> offset]]
    BY <1>4 DEF KeepHeader
  <2>4. [fuse.header EXCEPT !.value = v] \in Headers
    BY DEF FuseStates, Headers
  <2> HIDE DEF newSize
  <2>5. QED
    BY <1>1, <1>2, <2>2, <2>3, <2>4
<1>5. QED
  BY <1>3, <1>4

(* CheckHeaderExistence: the header and the size that it leaves.            *)
LEMMA TypeHeader ==
  ASSUME TypesInv, GetFileHeader \/ GetReencryptedHeader
  PROVE  TypesInv'
<1> DEFINE f == fuse.file
<1>1. /\ f \in Files /\ fuse.pc \in {"header", "reencrypt"}
      /\ node[f].offset = -2 => node[f].size = 0
  BY DEF GetFileHeader, GetReencryptedHeader, FuseAt, TypesInv, RequestFits
<1>2. /\ vault[f] \in Stored /\ obj[f] \in Stored
      /\ node[f].offset \in Nat \cup {-1, -2}
  BY <1>1 DEF TypesInv, TypeOK
<1>3. obj[f] # None => HeaderSize[obj[f]] \in Nat
  BY <1>2, ConstantTypes DEF Stored
<1>4. ASSUME NEW v \in Stored, NEW offset \in Nat \cup {-1, -2},
             KeepHeader(v, offset), offset = -2 => node[f].size = 0,
             UNCHANGED <<storage, cache, clear, allowed, status>>
      PROVE  TypesInv'
  <2>1. /\ node' \in [Files -> [size : Int, offset : Nat \cup {-1, -2}]]
        /\ \A g \in Files : node'[g].size > -MacSize /\ SizeFits(node'[g].size)
        /\ headers' \in [Files -> Headers]
        /\ opened' \subseteq Files /\ fuse' = FuseIdle
    BY <1>1, <1>4, KeepHeaderTypes
  <2>2. SizesFit'
    BY <1>4, <2>1 DEF TypesInv, SizesFit
  <2>3. RequestFits' /\ fuse' \in FuseStates
    BY <2>1, IdleRequest
  <2>4. TypeOK'
    BY <1>4, <2>1, <2>3 DEF TypesInv, TypeOK, storage
  <2>5. QED
    BY <2>2, <2>3, <2>4 DEF TypesInv
<1>5. ASSUME OpenReturns, UNCHANGED <<node, headers>>,
             UNCHANGED <<storage, cache, clear, allowed, status>>
      PROVE  TypesInv'
  <2>1. SizesFit' /\ RequestFits'
    BY <1>5, IdleRequest, SameSizesFit DEF TypesInv, OpenReturns
  <2>2. QED
    BY <1>1, <1>5, <2>1, IdleTypes DEF TypesInv, TypeOK, storage, OpenReturns
<1>6. ASSUME fuse' = [fuse EXCEPT !.pc = "reencrypt"],
             UNCHANGED <<node, headers, opened>>,
             UNCHANGED <<storage, cache, clear, allowed, status>>
      PROVE  TypesInv'
  <2>1. /\ fuse' \in FuseStates /\ fuse'.pc = "reencrypt"
        /\ fuse'.file = fuse.file /\ fuse'.size = fuse.size
        /\ fuse'.pieces = fuse.pieces
    BY <1>6 DEF TypesInv, TypeOK, FuseStates
  <2>2. SizesFit'
    BY <1>6, SameSizesFit DEF TypesInv
  <2>3. RequestFits'
    BY <1>1, <1>6, <2>1, SameRequestFits DEF TypesInv
  <2>4. QED
    BY <1>6, <2>1, <2>2, <2>3 DEF TypesInv, TypeOK, storage
<1>7. CASE GetFileHeader
  BY <1>1, <1>2, <1>4, <1>5, <1>6, <1>7 DEF GetFileHeader
<1>8. CASE GetReencryptedHeader
  BY <1>2, <1>3, <1>4, <1>5, <1>8 DEF GetReencryptedHeader, HeaderInObject
<1>9. QED
  BY <1>7, <1>8

(* What is left of several pieces.                                          *)
LEMMA TailNotEmpty ==
  ASSUME NEW S, NEW s \in Seq(S), s # <<>>, Len(s) # 1
  PROVE  Tail(s) # <<>>
<1>1. Len(s) \in Nat /\ Len(s) # 0
  OBVIOUS
<1>2. Len(Tail(s)) = Len(s) - 1
  OBVIOUS
<1>3. Len(Tail(s)) # 0
  BY <1>1, <1>2
<1>4. Len(<<>>) = 0
  OBVIOUS
<1>5. QED
  BY <1>3, <1>4, Zenon

(* DownloadData.                                                            *)
LEMMA TakeType ==
  ASSUME TypeOK, fuse.pieces # <<>>, NEW v \in Stored
  PROVE  /\ Take(v) \in FuseStates
         /\ Take(v).file = fuse.file /\ Take(v).header = fuse.header
         /\ Take(v).size = fuse.size /\ Take(v).floor = fuse.floor
         /\ Take(v).pc \in {"answer", "chunk"}
         /\ Take(v).pieces = Tail(fuse.pieces)
         /\ Take(v).got = Append(fuse.got, v)
         /\ Take(v).pc = "chunk" => Tail(fuse.pieces) # <<>>
<1>1. /\ fuse.pieces \in Seq(ReadPieces) /\ fuse.got \in Seq(Stored)
      /\ fuse \in FuseStates
  BY DEF TypeOK, FuseStates
<1>2. Tail(fuse.pieces) \in Seq(ReadPieces)
      /\ Append(fuse.got, v) \in Seq(Stored)
  BY <1>1
<1>3. Len(fuse.pieces) # 1 => Tail(fuse.pieces) # <<>>
  BY <1>1, TailNotEmpty
<1>4. Take(v) \in FuseStates
  BY <1>1, <1>2, IdleTypes DEF Take, FuseStates
<1>5. QED
  BY <1>1, <1>2, <1>3, <1>4 DEF Take, FuseStates

(* The piece that is read next.                                             *)
LEMMA CurrentFits ==
  ASSUME TypeOK, RequestFits, fuse.pc \in {"chunk", "store"}
  PROVE  /\ fuse.file \in Files /\ fuse.pieces # <<>>
         /\ Current \in ReadPieces /\ PieceFits(Current, fuse.size)
         /\ Current.chunk \in Chunks /\ Current.chunk \in Nat
         /\ Current.chunk * ChunkSize < fuse.size
         /\ ChunkLength(Current.chunk, fuse.size) \in Nat
<1>1. fuse.file \in Files /\ fuse.pieces # <<>> /\ SizeFits(fuse.size)
  BY DEF RequestFits
<1>2. fuse.pieces \in Seq(ReadPieces) /\ fuse.size \in Int
  BY DEF TypeOK, FuseStates
<1>3. Current = fuse.pieces[1] /\ 1 \in DOMAIN fuse.pieces
      /\ Current \in ReadPieces
  BY <1>1, <1>2 DEF Current
<1>4. PieceFits(Current, fuse.size)
  BY <1>3 DEF RequestFits
<1> DEFINE c == Current.chunk
<1>5. c \in Nat /\ Current.from \in Nat /\ Current.to \in Nat
  BY <1>3 DEF ReadPieces
<1>6. c * ChunkSize \in Nat /\ (c + 1) * ChunkSize \in Nat
  BY <1>5, ConstantTypes
<1>7. /\ ChunkLength(c, fuse.size) \in Int
      /\ ChunkLength(c, fuse.size) <= fuse.size - c * ChunkSize
  BY <1>2, <1>6 DEF ChunkLength, Least
<1>8. 0 < ChunkLength(c, fuse.size)
  BY <1>4, <1>5, <1>6, <1>7 DEF PieceFits
<1>9. c * ChunkSize < fuse.size
  BY <1>2, <1>6, <1>7, <1>8
<1>10. c \in Chunks
  BY <1>1, <1>2, <1>5, <1>9, ChunkInCache
<1>11. QED
  BY <1>1, <1>3, <1>4, <1>5, <1>7, <1>8, <1>9, <1>10

(* The elements of a tail are elements of the sequence.                     *)
LEMMA InTail ==
  ASSUME NEW S, NEW s \in Seq(S), s # <<>>, NEW i \in DOMAIN Tail(s)
  PROVE  i + 1 \in DOMAIN s /\ Tail(s)[i] = s[i + 1]
OBVIOUS

(* A piece is taken: the request goes on with those that are left.          *)
LEMMA TakeRequestFits ==
  ASSUME TypeOK, RequestFits, fuse.pc \in {"chunk", "store"},
         NEW v \in Stored, fuse' = Take(v), node' = node
  PROVE  RequestFits' /\ fuse' \in FuseStates
<1>1. /\ fuse.pieces # <<>> /\ fuse.pieces \in Seq(ReadPieces)
      /\ fuse.file \in Files /\ SizeFits(fuse.size)
      /\ \A i \in DOMAIN fuse.pieces : PieceFits(fuse.pieces[i], fuse.size)
  BY DEF RequestFits, TypeOK, FuseStates
<1>2. /\ fuse' \in FuseStates
      /\ fuse'.file = fuse.file /\ fuse'.size = fuse.size
      /\ fuse'.pc \in {"answer", "chunk"}
      /\ fuse'.pieces = Tail(fuse.pieces)
      /\ fuse'.pc = "chunk" => Tail(fuse.pieces) # <<>>
  BY <1>1, TakeType
<1>3. \A i \in DOMAIN fuse'.pieces : PieceFits(fuse'.pieces[i], fuse.size)
  BY <1>1, <1>2, InTail
<1>4. QED
  BY <1>1, <1>2, <1>3 DEF RequestFits

(* s3_read and DownloadData: the request, and the chunk that is cached.     *)
LEMMA TypeRead ==
  ASSUME TypesInv,
         \/ \E f \in Files : \E start \in 0 .. node[f].size : Read(f, start)
         \/ ChunkFromCache \/ FetchChunk \/ StoreChunk \/ ReadReturns
  PROVE  TypesInv'
<1> USE DEF TypesInv
<1>1. SizesFit'
  BY SameSizesFit
     DEF Read, ChunkFromCache, FetchChunk, StoreChunk, ReadReturns
<1>2. ASSUME NEW f \in Files, NEW start \in 0 .. node[f].size, Read(f, start)
      PROVE  TypesInv'
  <2>1. node[f].size \in Int /\ node[f].offset \in Int
        /\ headers[f] \in Headers /\ allowed[f] \in SUBSET Stored
    BY DEF TypeOK
  <2> SizeFits(node[f].size)
    BY DEF SizesFit
  <2>2. fuse' \in FuseStates /\ RequestFits'
    <3>1. CASE headers[f].value = None \/ start >= node[f].size
      <4>1. fuse' \in FuseStates /\ fuse'.pc = "answer"
        BY <1>2, <2>1, <3>1, IdleTypes DEF Read, FuseStates
      <4>2. QED
        BY <4>1 DEF RequestFits
    <3>2. CASE headers[f].value # None /\ ~(start >= node[f].size)
      <4> DEFINE p == Pieces(start, start + ReadSize, node[f].size)
      <4>1. fuse' =
              [FuseIdle EXCEPT
                 !.file = f, !.header = headers[f], !.offset = node[f].offset,
                 !.size = node[f].size, !.floor = allowed[f], !.pc = "chunk",
                 !.pieces = p]
        BY <1>2, <3>2, IdleTypes DEF Read, FuseStates
      <4>2. start \in Nat /\ node[f].size \in Nat /\ start < node[f].size
        BY <2>1, <3>2
      <4>3. /\ p \in Seq(ReadPieces) /\ p # <<>>
            /\ \A i \in DOMAIN p : PieceFits(p[i], node[f].size)
        BY <4>2, PiecesFit
      <4> HIDE DEF p
      <4>4. /\ fuse' \in FuseStates /\ fuse'.pc = "chunk" /\ fuse'.file = f
            /\ fuse'.size = node[f].size /\ fuse'.pieces = p
        BY <2>1, <4>1, <4>3, IdleTypes DEF FuseStates
      <4>5. QED
        BY <2>1, <4>3, <4>4 DEF RequestFits
    <3>3. QED
      BY <3>1, <3>2
  <2>3. QED
    BY <1>1, <1>2, <2>2 DEF Read, TypeOK, storage
<1>3. CASE ChunkFromCache
  <2>1. fuse.file \in Files /\ Current.chunk \in Chunks /\ fuse.pc = "chunk"
    BY <1>3, CurrentFits DEF ChunkFromCache, FuseAt
  <2>2. Cached.version \in Stored
    BY <2>1 DEF Cached, TypeOK
  <2>3. fuse' \in FuseStates /\ RequestFits'
    <3>1. CASE fuse' = Take(Cached.version)
      BY <1>3, <2>1, <2>2, <3>1, TakeRequestFits DEF ChunkFromCache
    <3>2. CASE fuse' = fuse
      BY <1>3, <3>2, SameRequestFits DEF ChunkFromCache, TypeOK
    <3>3. QED
      BY <1>3, <3>1, <3>2 DEF ChunkFromCache
  <2>4. status' \in {"running", "crashed"}
    BY <1>3 DEF ChunkFromCache, TypeOK
  <2>5. QED
    BY <1>1, <1>3, <2>3, <2>4 DEF ChunkFromCache, TypeOK, storage
<1>4. CASE FetchChunk
  <2>1. obj[fuse.file] \in Stored /\ fuse.pc = "chunk"
    BY <1>4, CurrentFits DEF FetchChunk, FuseAt, TypeOK
  <2>2. /\ fuse' \in FuseStates /\ fuse'.pc \in {"store", "answer"}
        /\ fuse'.file = fuse.file /\ fuse'.size = fuse.size
        /\ fuse'.pieces = fuse.pieces
    BY <1>4, <2>1 DEF FetchChunk, Answer, TypeOK, FuseStates
  <2>3. RequestFits'
    BY <1>4, <2>1, <2>2, SameRequestFits DEF FetchChunk
  <2>4. QED
    BY <1>1, <1>4, <2>2, <2>3 DEF FetchChunk, TypeOK, storage
<1>5. CASE StoreChunk
  <2>1. /\ fuse.file \in Files /\ fuse.pc = "store"
        /\ ChunkLength(Current.chunk, fuse.size) \in Nat
    BY <1>5, CurrentFits DEF StoreChunk, FuseAt
  <2>2. fuse.fetched \in Stored
    BY DEF TypeOK, FuseStates
  <2>3. fuse' \in FuseStates /\ RequestFits'
    BY <1>5, <2>1, <2>2, TakeRequestFits DEF StoreChunk
  <2> DEFINE new == [version |-> fuse.fetched,
                     length |-> ChunkLength(Current.chunk, fuse.size)]
  <2>4. new \in [version : Stored, length : Nat]
    BY <2>1, <2>2
  <2>5. cache' = [cache EXCEPT ![fuse.file][Current.chunk] = new]
    BY <1>5 DEF StoreChunk
  <2> HIDE DEF new
  <2>6. cache' \in [Files -> [Chunks -> [version : Stored, length : Nat]]]
    BY <2>4, <2>5 DEF TypeOK
  <2>7. QED
    BY <1>1, <1>5, <2>3, <2>6 DEF StoreChunk, TypeOK, storage
<1>6. CASE ReadReturns
  <2>1. fuse' \in FuseStates /\ RequestFits'
    BY <1>6, IdleRequest DEF ReadReturns
  <2>2. QED
    BY <1>1, <1>6, <2>1 DEF ReadReturns, TypeOK, storage
<1>7. QED
  BY <1>2, <1>3, <1>4, <1>5, <1>6

(* ClearPath and UpdateFilesystem.                                          *)
LEMMA TypeCommands ==
  ASSUME TypesInv,
         \/ \E target \in SUBSET Files : ListForClear(target)
         \/ ClearNodes \/ UpdateFilesystem
  PROVE  TypesInv'
<1> USE DEF TypesInv, TypeOK, storage
<1>1. ASSUME NEW target \in SUBSET Files, ListForClear(target)
      PROVE  TypesInv'
  <2>1. \A f \in Files : /\ StoredSize(obj[f]) \in Nat /\ 0 <= MaxSize
                         /\ StoredSize(obj[f]) <= MaxSize
    BY StoredSizeType, ConstantTypes
  <2>2. clear' \in ClearStates /\ \A f \in Files : clear'.listing[f] <= MaxSize
    <3>1. PICK unknown : clear' =
               [pc |-> "listed", target |-> target,
                listing |-> [f \in Files |-> IF f \in unknown THEN 0
                                             ELSE StoredSize(obj[f])],
                found |-> {f \in target : obj[f] # None},
                since |-> [f \in Files |-> {obj[f]}]]
      BY <1>1 DEF ListForClear
    <3>2. [f \in Files |-> IF f \in unknown THEN 0 ELSE StoredSize(obj[f])]
            \in [Files -> Nat]
      BY <2>1
    <3>3. [f \in Files |-> {obj[f]}] \in [Files -> SUBSET Stored]
      OBVIOUS
    <3>4. QED
      BY <2>1, <3>1, <3>2, <3>3 DEF ClearStates
  <2>3. SizesFit' /\ RequestFits'
    BY <1>1, <2>2, SameRequestFits DEF ListForClear, SizesFit, SizeFits
  <2>4. QED
    BY <1>1, <2>2, <2>3 DEF ListForClear
<1>2. CASE ClearNodes
  <2>1. clear \in ClearStates /\ clear.listing \in [Files -> Nat]
        /\ clear.since \in [Files -> SUBSET Stored]
    BY DEF ClearStates
  <2>2. \A f \in Files :
            /\ Cleared(f) \in [size : Int, offset : Nat \cup {-1, -2}]
            /\ Cleared(f).size > -MacSize /\ SizeFits(Cleared(f).size)
            /\ Cleared(f).offset = -2 => Cleared(f).size = 0
    BY <2>1, ConstantTypes DEF Cleared, SizesFit, SizeFits
  <2>3. node' = [f \in Files |-> IF f \in clear.target
                                 THEN Cleared(f) ELSE node[f]]
    BY <1>2 DEF ClearNodes, ClearNodesBut, Clearing
  <2>4. /\ node' \in [Files -> [size : Int, offset : Nat \cup {-1, -2}]]
        /\ \A f \in Files : /\ node'[f].size > -MacSize
                            /\ SizeFits(node'[f].size)
    BY <2>2, <2>3 DEF SizesFit
  <2>5. headers' \in [Files -> Headers]
    BY <1>2, IdleTypes DEF ClearNodes, ClearNodesBut, Clearing
  <2>6. allowed' \in [Files -> SUBSET Stored]
    BY <1>2, <2>1 DEF ClearNodes, ClearNodesBut, Clearing
  <2>7. cache' \in [Files -> [Chunks -> [version : Stored, length : Nat]]]
    BY <1>2, IdleTypes DEF ClearNodes, ClearNodesBut, Clearing
  <2>8. clear' \in ClearStates
    BY <1>2, IdleTypes DEF ClearNodes, ClearNodesBut
  <2>9. UNCHANGED <<storage, opened, fuse, status>>
    BY <1>2 DEF ClearNodes, ClearNodesBut
  <2>10. SizesFit'
    BY <1>2, <2>4, ConstantTypes
       DEF ClearNodes, ClearNodesBut, ClearIdle, SizesFit, SizeFits
  <2>11. RequestFits'
    BY <2>2, <2>3, <2>9 DEF RequestFits
  <2>12. QED
    BY <2>4, <2>5, <2>6, <2>7, <2>8, <2>9, <2>10, <2>11
<1>3. CASE UpdateFilesystem
  <2>1. \A f \in Files :
            /\ FreshNode(f) \in [size : Int, offset : Nat \cup {-1, -2}]
            /\ FreshNode(f).size > -MacSize /\ SizeFits(FreshNode(f).size)
            /\ FreshHeader(f) \in Headers
    BY FreshTypes, ConstantTypes
  <2>2. /\ node' = [f \in Files |-> FreshNode(f)]
        /\ headers' = [f \in Files |-> FreshHeader(f)]
    BY <1>3 DEF UpdateFilesystem
  <2>3. /\ node' \in [Files -> [size : Int, offset : Nat \cup {-1, -2}]]
        /\ \A f \in Files : /\ node'[f].size > -MacSize
                            /\ SizeFits(node'[f].size)
        /\ headers' \in [Files -> Headers]
    BY <2>1, <2>2
  <2>4. cache' \in [Files -> [Chunks -> [version : Stored, length : Nat]]]
    BY <1>3, IdleTypes DEF UpdateFilesystem
  <2>5. SizesFit' /\ RequestFits'
    BY <1>3, <2>3 DEF UpdateFilesystem, SizesFit, RequestFits
  <2>6. QED
    BY <1>3, <2>3, <2>4, <2>5 DEF UpdateFilesystem
<1>4. QED
  BY <1>1, <1>2, <1>3

(* Seen notes a version in three places.                                    *)
LEMMA SeenValue ==
  ASSUME TypeOK, NEW f \in Files, NEW v \in Stored, Seen(f, v)
  PROVE  /\ allowed' \in [Files -> SUBSET Stored]
         /\ allowed'[f] = allowed[f] \cup {v}
         /\ \A g \in Files \ {f} : allowed'[g] = allowed[g]
         /\ clear' \in ClearStates /\ clear'.pc = clear.pc
         /\ clear'.listing = clear.listing
         /\ \A g \in Files : clear.since[g] \subseteq clear'.since[g]
         /\ clear.pc = "listed" => v \in clear'.since[f]
         /\ fuse' \in FuseStates
         /\ fuse'.floor = IF fuse.file = f /\ fuse.pieces # <<>>
                          THEN fuse.floor \cup {v} ELSE fuse.floor
         /\ fuse'.pc = fuse.pc /\ fuse'.file = fuse.file
         /\ fuse'.header = fuse.header /\ fuse'.size = fuse.size
         /\ fuse'.pieces = fuse.pieces /\ fuse'.got = fuse.got
         /\ fuse'.fetched = fuse.fetched
<1>1. allowed \in [Files -> SUBSET Stored] /\ clear \in ClearStates
      /\ fuse \in FuseStates
  BY DEF TypeOK
<1>2. /\ allowed' \in [Files -> SUBSET Stored]
      /\ allowed'[f] = allowed[f] \cup {v}
      /\ \A g \in Files \ {f} : allowed'[g] = allowed[g]
  BY <1>1 DEF Seen
<1>3. /\ clear' \in ClearStates /\ clear'.pc = clear.pc
      /\ clear'.listing = clear.listing
      /\ \A g \in Files : clear.since[g] \subseteq clear'.since[g]
      /\ clear.pc = "listed" => v \in clear'.since[f]
  <2> DEFINE s == IF clear.pc = "idle" THEN clear.since[f]
                  ELSE clear.since[f] \cup {v}
  <2>1. s \in SUBSET Stored /\ clear.since[f] \subseteq s
        /\ (clear.pc = "listed" => v \in s)
    BY <1>1 DEF ClearStates
  <2>2. clear' = [clear EXCEPT !.since[f] = s]
    BY DEF Seen
  <2> HIDE DEF s
  <2>3. QED
    BY <1>1, <2>1, <2>2 DEF ClearStates
<1>4. /\ fuse' \in FuseStates
      /\ fuse'.floor = IF fuse.file = f /\ fuse.pieces # <<>>
                       THEN fuse.floor \cup {v} ELSE fuse.floor
      /\ fuse'.pc = fuse.pc /\ fuse'.file = fuse.file
      /\ fuse'.header = fuse.header /\ fuse'.size = fuse.size
      /\ fuse'.pieces = fuse.pieces /\ fuse'.got = fuse.got
      /\ fuse'.fetched = fuse.fetched
  <2> DEFINE s == IF fuse.file = f /\ fuse.pieces # <<>>
                  THEN fuse.floor \cup {v} ELSE fuse.floor
  <2>1. s \in SUBSET Stored
    BY <1>1 DEF FuseStates
  <2>2. fuse' = [fuse EXCEPT !.floor = s]
    BY DEF Seen
  <2> HIDE DEF s
  <2>3. /\ fuse' \in FuseStates /\ fuse'.floor = s
        /\ fuse'.pc = fuse.pc /\ fuse'.file = fuse.file
        /\ fuse'.header = fuse.header /\ fuse'.size = fuse.size
        /\ fuse'.pieces = fuse.pieces /\ fuse'.got = fuse.got
        /\ fuse'.fetched = fuse.fetched
    BY <1>1, <2>1, <2>2 DEF FuseStates
  <2>4. QED
    BY <2>3 DEF s
<1>5. QED
  BY <1>2, <1>3, <1>4

(* Uploads of other users, and what the cache drops.                        *)
LEMMA TypeWorld ==
  ASSUME TypesInv,
         \/ \E f \in Files, v \in Versions : PutHeader(f, v)
         \/ \E f \in Files, v \in Stored : PutObject(f, v)
         \/ \E f \in Files, c \in Chunks : Evict(f, c)
  PROVE  TypesInv'
<1> USE DEF TypesInv, TypeOK, storage
<1>1. ASSUME NEW f \in Files, NEW v \in Versions, PutHeader(f, v)
      PROVE  TypesInv'
  <2>1. v \in Stored
    BY DEF Stored
  <2>2. SizesFit' /\ RequestFits'
    BY <1>1, SameSizesFit, SameRequestFits DEF PutHeader
  <2>3. QED
    BY <1>1, <2>1, <2>2 DEF PutHeader
<1>2. ASSUME NEW f \in Files, NEW v \in Stored, PutObject(f, v)
      PROVE  TypesInv'
  <2>1. Seen(f, v) /\ node' = node
    BY <1>2 DEF PutObject
  <2>2. /\ allowed' \in [Files -> SUBSET Stored]
        /\ clear' \in ClearStates /\ clear'.listing = clear.listing
        /\ fuse' \in FuseStates /\ fuse'.pc = fuse.pc
        /\ fuse'.file = fuse.file /\ fuse'.size = fuse.size
        /\ fuse'.pieces = fuse.pieces
    BY <2>1, SeenValue
  <2>3. SizesFit' /\ RequestFits'
    BY <2>1, <2>2, SameSizesFit, SameRequestFits
  <2>4. QED
    BY <1>2, <2>2, <2>3 DEF PutObject
<1>3. ASSUME NEW f \in Files, NEW c \in Chunks, Evict(f, c)
      PROVE  TypesInv'
  <2>1. SizesFit' /\ RequestFits'
    BY <1>3, SameSizesFit, SameRequestFits DEF Evict
  <2>2. QED
    BY <1>3, <2>1, IdleTypes DEF Evict
<1>4. QED
  BY <1>1, <1>2, <1>3

(* Every step keeps the types, also of commands given at any time.          *)
LEMMA TypeStep ==
  ASSUME TypesInv, [Next]_vars
  PROVE  TypesInv'
<1>1. CASE UNCHANGED vars
  BY <1>1 DEF vars, storage, TypesInv, TypeOK, SizesFit, RequestFits
<1>2. CASE Next
  <2>1. \A f \in Files : {f} \in SUBSET Files
    OBVIOUS
  <2>2. QED
    BY <1>2, <2>1, TypeOpen, TypeHeader, TypeRead, TypeCommands, TypeWorld
       DEF Next
<1>3. QED
  BY <1>1, <1>2

-----------------------------------------------------------------------------
(* What the steps do to the rest of the invariant *)

(* What is said of the cache stays true where nothing it is said of changes. *)
LEMMA SameCache ==
  ASSUME CacheFits, UNCHANGED <<headers, cache, allowed>>,
         \A f \in Files : node'[f].size = node[f].size
  PROVE  CacheFits'
BY DEF CacheFits, ChunkFits

(* An idle FUSE thread has nothing to keep.                                 *)
LEMMA IdleFits ==
  ASSUME fuse' = FuseIdle
  PROVE  OneAtATime' /\ OpenFits' /\ ReadFits'
BY DEF FuseIdle, OneAtATime, OpenFits, ReadFits

(* s3_open and s3_release.                                                  *)
LEMMA OpenKeeps ==
  ASSUME ~Overlap, IInv,
         \E f \in Files : OpenFirst(f) \/ OpenAgain(f) \/ Release(f)
  PROVE  Fits'
<1> PICK f \in Files : OpenFirst(f) \/ OpenAgain(f) \/ Release(f)
  OBVIOUS
<1>1. CASE OpenFirst(f)
  <2>1. /\ UNCHANGED <<storage, headers, cache, dirSize, opened, clear,
                       allowed, status>>
        /\ node[f].offset = -1 /\ FuseMayStart
        /\ node' = [node EXCEPT ![f].offset = 0]
        /\ fuse' = [FuseIdle EXCEPT !.pc = "header", !.file = f,
                                    !.header = headers[f]]
    BY <1>1 DEF OpenFirst
  <2>2. clear.pc = "idle"
    BY <2>1 DEF FuseMayStart
  <2>3. /\ node'[f].offset = 0
        /\ \A g \in Files : /\ node'[g].size = node[g].size
                            /\ g # f => node'[g] = node[g]
    BY <2>1 DEF IInv, TypeOK
  <2>4. headers[f].value = None
    BY <2>1 DEF IInv, Fits, HeadersFit
  <2>5. fuse'.pc = "header" /\ fuse'.file = f /\ fuse'.got = <<>>
    BY <2>1, IdleTypes DEF FuseStates, FuseIdle
  <2>6. CacheFits'
    BY <2>1, <2>3, SameCache DEF IInv, Fits
  <2>7. HeadersFit'
    BY <2>1, <2>3 DEF IInv, Fits, HeadersFit
  <2>8. OneAtATime' /\ OpenFits' /\ ReadFits'
    BY <2>1, <2>2, <2>3, <2>4, <2>5 DEF OneAtATime, OpenFits, ReadFits
  <2>9. StoredIsAllowed' /\ status' = "running"
    BY <2>1 DEF IInv, Fits, StoredIsAllowed, storage
  <2>10. QED
    BY <2>6, <2>7, <2>8, <2>9 DEF Fits
<1>2. CASE OpenAgain(f) \/ Release(f)
  BY <1>2 DEF OpenAgain, Release, storage, IInv, Fits, OneAtATime,
     HeadersFit, CacheFits, ChunkFits, OpenFits, ReadFits, StoredIsAllowed
<1>3. QED
  BY <1>1, <1>2

(* A header is kept: the file had none, so the cache has nothing of it.     *)
LEMMA KeepHeaderKeeps ==
  ASSUME IInv, fuse.pc \in {"header", "reencrypt"},
         NEW v \in Stored, NEW offset \in Nat, KeepHeader(v, offset),
         UNCHANGED <<storage, cache, clear, allowed, status>>
  PROVE  Fits'
<1> DEFINE f == fuse.file
<1>1. f \in Files /\ headers[f].value = None
  BY DEF IInv, RequestFits, Fits, OpenFits
<1>2. \A c \in Chunks : cache[f][c] = NoChunk
  BY <1>1 DEF IInv, Fits, CacheFits, ChunkFits
<1>3. /\ node'[f].offset = offset
      /\ \A g \in Files : g # f => /\ node'[g] = node[g]
                                   /\ headers'[g] = headers[g]
  BY <1>1 DEF KeepHeader, IInv, TypeOK
<1> HIDE DEF f
<1>4. HeadersFit'
  BY <1>3 DEF IInv, Fits, HeadersFit
<1>5. CacheFits'
  BY <1>2, <1>3 DEF IInv, Fits, CacheFits, ChunkFits
<1>6. OneAtATime' /\ OpenFits' /\ ReadFits'
  BY IdleFits DEF KeepHeader, OpenReturns
<1>7. StoredIsAllowed' /\ status' = "running"
  BY DEF IInv, Fits, StoredIsAllowed, storage
<1>8. QED
  BY <1>4, <1>5, <1>6, <1>7 DEF Fits

(* CheckHeaderExistence.                                                    *)
LEMMA HeaderKeeps ==
  ASSUME IInv, GetFileHeader \/ GetReencryptedHeader
  PROVE  Fits'
<1> DEFINE f == fuse.file
<1>1. /\ f \in Files /\ fuse.pc \in {"header", "reencrypt"}
      /\ node[f].offset = 0 /\ headers[f].value = None
  BY DEF GetFileHeader, GetReencryptedHeader, FuseAt, IInv, RequestFits, Fits,
     OpenFits
<1>2. vault[f] \in Stored /\ obj[f] \in Stored
  BY <1>1 DEF IInv, TypeOK
<1>3. HeaderInObject(obj[f]) => HeaderSize[obj[f]] \in Nat
  BY <1>2, ConstantTypes DEF Stored, HeaderInObject
<1>4. UNCHANGED <<storage, cache, clear, allowed, status>>
  BY DEF GetFileHeader, GetReencryptedHeader
<1>5. ASSUME NEW v \in Stored, NEW offset \in Nat, KeepHeader(v, offset)
      PROVE  Fits'
  BY <1>1, <1>4, <1>5, KeepHeaderKeeps
<1>6. ASSUME UNCHANGED <<node, headers>>,
             fuse' = FuseIdle \/ fuse' = [fuse EXCEPT !.pc = "reencrypt"]
      PROVE  Fits'
  <2>1. HeadersFit' /\ CacheFits'
    BY <1>4, <1>6 DEF IInv, Fits, HeadersFit, CacheFits, ChunkFits
  <2>2. StoredIsAllowed' /\ status' = "running"
    BY <1>4 DEF IInv, Fits, StoredIsAllowed, storage
  <2>3. OneAtATime' /\ OpenFits' /\ ReadFits'
    <3>1. CASE fuse' = FuseIdle
      BY <3>1, IdleFits
    <3>2. CASE fuse' = [fuse EXCEPT !.pc = "reencrypt"]
      <4>1. fuse'.pc = "reencrypt" /\ fuse'.file = fuse.file
            /\ fuse'.got = fuse.got /\ fuse'.header = fuse.header
            /\ fuse'.floor = fuse.floor
        BY <3>2 DEF IInv, TypeOK, FuseStates
      <4>2. fuse.pc # "idle" /\ clear' = clear
        BY <1>1, <1>4
      <4>3. OneAtATime' /\ OpenFits'
        BY <1>1, <1>6, <4>1, <4>2 DEF IInv, Fits, OneAtATime, OpenFits
      <4>4. ReadFits'
        BY <4>1 DEF IInv, Fits, ReadFits
      <4>5. QED
        BY <4>3, <4>4
    <3>3. QED
      BY <1>6, <3>1, <3>2
  <2>4. QED
    BY <2>1, <2>2, <2>3 DEF Fits
<1>7. CASE GetFileHeader
  BY <1>1, <1>2, <1>5, <1>6, <1>7 DEF GetFileHeader, OpenReturns
<1>8. CASE GetReencryptedHeader
  BY <1>2, <1>3, <1>5, <1>6, <1>8 DEF GetReencryptedHeader, OpenReturns
<1>9. QED
  BY <1>7, <1>8

(* s3_read: what it reads of the file is what the file has now.             *)
LEMMA ReadKeeps ==
  ASSUME ~Overlap, IInv, NEW f \in Files, NEW start \in 0 .. node[f].size,
         Read(f, start)
  PROVE  Fits'
<1>1. /\ UNCHANGED <<storage, node, headers, cache, dirSize, opened, clear,
                     allowed, status>>
      /\ clear.pc = "idle"
  BY DEF Read, FuseMayStart
<1>2. /\ node[f].size \in Int /\ node[f].offset \in Int
      /\ headers[f] \in Headers /\ allowed[f] \in SUBSET Stored
  BY DEF IInv, TypeOK
<1>3. HeadersFit' /\ CacheFits' /\ StoredIsAllowed'
      /\ OneAtATime' /\ status' = "running"
  BY <1>1 DEF IInv, Fits, HeadersFit, CacheFits, ChunkFits, StoredIsAllowed,
     OneAtATime, storage
<1>4. OpenFits' /\ ReadFits'
  <2>1. CASE headers[f].value = None \/ start >= node[f].size
    <3>1. fuse'.pc = "answer" /\ fuse'.got = <<>>
      BY <1>2, <2>1, IdleTypes DEF Read, FuseStates, FuseIdle
    <3>2. QED
      BY <3>1 DEF OpenFits, ReadFits
  <2>2. CASE headers[f].value # None /\ ~(start >= node[f].size)
    <3> DEFINE p == Pieces(start, start + ReadSize, node[f].size)
    <3>1. fuse' =
            [FuseIdle EXCEPT
               !.file = f, !.header = headers[f], !.offset = node[f].offset,
               !.size = node[f].size, !.floor = allowed[f], !.pc = "chunk",
               !.pieces = p]
      BY <2>2, IdleTypes DEF Read, FuseStates
    <3> HIDE DEF p
    <3>2. /\ fuse'.pc = "chunk" /\ fuse'.file = f /\ fuse'.got = <<>>
          /\ fuse'.header = headers[f] /\ fuse'.size = node[f].size
          /\ fuse'.floor = allowed[f] /\ fuse'.pieces = p
      BY <3>1, IdleTypes DEF FuseStates, FuseIdle
    <3>3. /\ headers' = headers /\ node' = node /\ allowed' = allowed
      BY <1>1
    <3>4. QED
      BY <2>2, <3>2, <3>3 DEF OpenFits, ReadFits
  <2>3. QED
    BY <2>1, <2>2
<1>5. QED
  BY <1>3, <1>4 DEF Fits

(* Appending one more of what all of a sequence has.                        *)
LEMMA AllAppended ==
  ASSUME NEW S, NEW s \in Seq(S), NEW x \in S,
         NEW i \in DOMAIN Append(s, x)
  PROVE  Append(s, x)[i] = x \/ (i \in DOMAIN s /\ Append(s, x)[i] = s[i])
OBVIOUS

(* A piece of the version whose header the file has is taken.               *)
LEMMA TakeKeeps ==
  ASSUME TypeOK, OneAtATime, RequestFits, ReadFits,
         fuse.pc \in {"chunk", "store"},
         NEW v \in Stored, v = fuse.header.value, v \in fuse.floor,
         fuse' = Take(v), UNCHANGED <<node, headers, clear, allowed>>
  PROVE  OneAtATime' /\ OpenFits' /\ ReadFits'
<1>1. /\ fuse.pieces # <<>> /\ fuse.pieces \in Seq(ReadPieces)
      /\ fuse.got \in Seq(Stored)
  BY DEF RequestFits, TypeOK, FuseStates
<1>2. /\ fuse'.file = fuse.file /\ fuse'.header = fuse.header
      /\ fuse'.size = fuse.size /\ fuse'.floor = fuse.floor
      /\ fuse'.pc \in {"answer", "chunk"}
      /\ fuse'.pieces = Tail(fuse.pieces)
      /\ fuse'.got = Append(fuse.got, v)
      /\ fuse'.pc = "chunk" => Tail(fuse.pieces) # <<>>
  BY <1>1, TakeType
<1>3. clear.pc = "idle"
  BY DEF OneAtATime
<1>4. OneAtATime' /\ OpenFits'
  BY <1>2, <1>3 DEF OneAtATime, OpenFits
<1>5. \A i \in DOMAIN fuse'.got : /\ fuse'.got[i] = fuse'.header.value
                                  /\ fuse'.got[i] \in fuse'.floor
  BY <1>1, <1>2, AllAppended DEF ReadFits
<1>6. fuse'.pc # "store"
  BY <1>2
<1>7. /\ headers' = headers /\ node' = node /\ allowed' = allowed
  OBVIOUS
<1>8. /\ fuse.header = headers[fuse.file] /\ fuse.header.value # None
      /\ fuse.size = node[fuse.file].size
      /\ fuse.floor = allowed[fuse.file]
  BY DEF ReadFits
<1>9. ReadFits'
  BY <1>2, <1>5, <1>6, <1>7, <1>8 DEF ReadFits
<1>10. QED
  BY <1>4, <1>9

(* DownloadData, a chunk of the cache: it is long enough, and of the        *)
(* version of the header.                                                   *)
LEMMA CachedIsFresh ==
  ASSUME IInv, ChunkFromCache
  PROVE  /\ fuse.pc = "chunk" /\ fuse' = Take(Cached.version)
         /\ Cached.version \in Stored
         /\ Cached.version = fuse.header.value
         /\ Cached.version \in fuse.floor
         /\ status' = status
<1> DEFINE f == fuse.file
           c == Current.chunk
<1>1. fuse.pc = "chunk"
  BY DEF ChunkFromCache, FuseAt
<1>2. /\ f \in Files /\ c \in Chunks /\ PieceFits(Current, fuse.size)
      /\ fuse.pieces # <<>>
  BY <1>1, CurrentFits DEF IInv, Fits
<1>3. cache[f][c] # NoChunk /\ Cached = cache[f][c]
  BY DEF ChunkFromCache, Cached
<1>4. ChunkFits(f, c)
  BY <1>2, <1>3 DEF IInv, Fits, CacheFits
<1>5. /\ fuse.header = headers[f] /\ fuse.size = node[f].size
      /\ fuse.floor = allowed[f]
  BY <1>1 DEF IInv, Fits, ReadFits
<1>6. Cached.length = ChunkLength(c, fuse.size)
  BY <1>3, <1>4, <1>5 DEF ChunkFits
<1>7. Current.to - Current.chunk * ChunkSize <= Cached.length
  BY <1>2, <1>6 DEF PieceFits
<1>8. fuse' = Take(Cached.version) /\ status' = status
  BY <1>7 DEF ChunkFromCache
<1>9. QED
  BY <1>1, <1>2, <1>3, <1>4, <1>5, <1>8 DEF ChunkFits, IInv, TypeOK

LEMMA ChunkFromCacheKeeps ==
  ASSUME IInv, ChunkFromCache
  PROVE  Fits'
<1>1. UNCHANGED <<storage, node, headers, cache, dirSize, opened, clear,
                  allowed>>
  BY DEF ChunkFromCache
<1>2. OneAtATime' /\ OpenFits' /\ ReadFits'
  BY <1>1, CachedIsFresh, TakeKeeps DEF IInv, Fits
<1>3. HeadersFit' /\ CacheFits' /\ StoredIsAllowed' /\ status' = "running"
  BY <1>1, CachedIsFresh DEF IInv, Fits, HeadersFit, CacheFits, ChunkFits,
     StoredIsAllowed, storage
<1>4. QED
  BY <1>2, <1>3 DEF Fits

(* DownloadData, a chunk of storage: the header decrypts only the version   *)
(* that it belongs to.                                                      *)
LEMMA FetchChunkKeeps ==
  ASSUME IInv, FetchChunk
  PROVE  Fits'
<1> DEFINE f == fuse.file
<1>1. fuse.pc = "chunk" /\ f \in Files /\ fuse.floor = allowed[f]
      /\ fuse \in FuseStates
  BY DEF FetchChunk, FuseAt, IInv, RequestFits, Fits, ReadFits, TypeOK
<1>2. UNCHANGED <<storage, node, headers, cache, dirSize, opened, clear,
                  allowed, status>>
  BY DEF FetchChunk
<1>3. clear.pc = "idle"
  BY <1>1 DEF IInv, Fits, OneAtATime
<1>4. HeadersFit' /\ CacheFits' /\ StoredIsAllowed'
      /\ OneAtATime' /\ status' = "running"
  BY <1>2, <1>3 DEF IInv, Fits, HeadersFit, CacheFits, ChunkFits,
     StoredIsAllowed, OneAtATime, storage
<1>5. CASE Decrypts(obj[f], Current.chunk)
           /\ fuse' = [fuse EXCEPT !.pc = "store", !.fetched = obj[f]]
  <2>1. obj[f] = fuse.header.value /\ obj[f] \in fuse.floor
    BY <1>1, <1>5 DEF Decrypts, IInv, Fits, StoredIsAllowed
  <2>2. /\ fuse'.pc = "store" /\ fuse'.fetched = obj[f]
        /\ fuse'.file = fuse.file /\ fuse'.header = fuse.header
        /\ fuse'.size = fuse.size /\ fuse'.floor = fuse.floor
        /\ fuse'.pieces = fuse.pieces /\ fuse'.got = fuse.got
    BY <1>1, <1>5 DEF FuseStates
  <2>3. /\ headers' = headers /\ node' = node /\ allowed' = allowed
    BY <1>2
  <2>4. OpenFits' /\ ReadFits'
    BY <1>1, <2>1, <2>2, <2>3 DEF IInv, Fits, OpenFits, ReadFits
  <2>5. QED
    BY <1>4, <2>4 DEF Fits
<1>6. CASE Answer("error")
  <2>1. /\ fuse'.pc = "answer" /\ fuse'.header = fuse.header
        /\ fuse'.floor = fuse.floor /\ fuse'.got = fuse.got
    BY <1>1, <1>6 DEF Answer, FuseStates
  <2>2. OpenFits' /\ ReadFits'
    BY <2>1 DEF IInv, Fits, OpenFits, ReadFits
  <2>3. QED
    BY <1>4, <2>2 DEF Fits
<1>7. QED
  BY <1>5, <1>6 DEF FetchChunk

(* DownloadData: the chunk is cached as the header and the size cut it.     *)
LEMMA StoreChunkKeeps ==
  ASSUME IInv, StoreChunk
  PROVE  Fits'
<1> DEFINE f == fuse.file
           c == Current.chunk
           new == [version |-> fuse.fetched,
                   length |-> ChunkLength(c, fuse.size)]
<1>1. fuse.pc = "store"
  BY DEF StoreChunk, FuseAt
<1>2. /\ f \in Files /\ c \in Chunks /\ c * ChunkSize < fuse.size
  BY <1>1, CurrentFits DEF IInv, Fits
<1>3. /\ fuse.header = headers[f] /\ fuse.header.value # None
      /\ fuse.size = node[f].size /\ fuse.floor = allowed[f]
      /\ fuse.fetched = fuse.header.value /\ fuse.fetched \in fuse.floor
  BY <1>1 DEF IInv, Fits, ReadFits
<1>4. fuse.fetched \in Stored
  BY DEF IInv, TypeOK, FuseStates
<1>5. /\ cache' = [cache EXCEPT ![f][c] = new]
      /\ fuse' = Take(fuse.fetched)
      /\ UNCHANGED <<storage, node, headers, dirSize, opened, clear, allowed,
                     status>>
  BY DEF StoreChunk
<1>6. OneAtATime' /\ OpenFits' /\ ReadFits'
  BY <1>1, <1>3, <1>4, <1>5, TakeKeeps DEF IInv, Fits
<1>7. HeadersFit' /\ StoredIsAllowed' /\ status' = "running"
  BY <1>5 DEF IInv, Fits, HeadersFit, StoredIsAllowed, storage
<1>8. CacheFits'
  <2>1. /\ new.version = fuse.fetched
        /\ new.length = ChunkLength(c, fuse.size)
    OBVIOUS
  <2> HIDE DEF new
  <2>2. SUFFICES ASSUME NEW g \in Files, NEW d \in Chunks,
                        cache'[g][d] # NoChunk
                 PROVE  ChunkFits(g, d)'
    BY DEF CacheFits
  <2>3. CASE g = f /\ d = c
    <3>1. cache'[g][d] = new
      BY <1>2, <1>5, <2>3 DEF IInv, TypeOK
    <3>2. /\ headers' = headers /\ node' = node /\ allowed' = allowed
      BY <1>5
    <3>3. QED
      BY <1>2, <1>3, <2>1, <2>3, <3>1, <3>2 DEF ChunkFits
  <2>4. CASE g # f \/ d # c
    <3>1. cache'[g][d] = cache[g][d]
      BY <1>2, <1>5, <2>4 DEF IInv, TypeOK
    <3>2. ChunkFits(g, d)
      BY <2>2, <3>1 DEF IInv, Fits, CacheFits
    <3>3. QED
      BY <1>5, <3>1, <3>2 DEF ChunkFits
  <2>5. QED
    BY <2>3, <2>4
<1>9. QED
  BY <1>6, <1>7, <1>8 DEF Fits

(* s3_read has its answer.                                                  *)
LEMMA ReadReturnsKeeps ==
  ASSUME IInv, ReadReturns
  PROVE  Fits'
<1>1. OneAtATime' /\ OpenFits' /\ ReadFits'
  BY IdleFits DEF ReadReturns
<1>2. QED
  BY <1>1 DEF ReadReturns, IInv, Fits, HeadersFit, CacheFits, ChunkFits,
     StoredIsAllowed, storage

(* ClearPath lists the bucket while FUSE is quiet.                          *)
LEMMA ListForClearKeeps ==
  ASSUME ~Overlap, IInv, NEW target \in SUBSET Files, ListForClear(target)
  PROVE  Fits'
<1>1. /\ UNCHANGED <<storage, node, headers, cache, dirSize, opened, fuse,
                     allowed, status>>
      /\ fuse.pc = "idle"
  BY DEF ListForClear, CommandMayStart
<1>2. PICK unknown : clear' =
         [pc |-> "listed", target |-> target,
          listing |-> [f \in Files |-> IF f \in unknown THEN 0
                                       ELSE StoredSize(obj[f])],
          found |-> {f \in target : obj[f] # None},
          since |-> [f \in Files |-> {obj[f]}]]
  BY DEF ListForClear
<1>3. \A f \in Files : obj[f] \in clear'.since[f]
  BY <1>2
<1>4. StoredIsAllowed'
  BY <1>1, <1>3 DEF IInv, Fits, StoredIsAllowed, storage
<1>5. HeadersFit' /\ CacheFits' /\ OpenFits' /\ ReadFits' /\ OneAtATime'
      /\ status' = "running"
  BY <1>1 DEF IInv, Fits, HeadersFit, CacheFits, ChunkFits, OpenFits,
     ReadFits, OneAtATime
<1>6. QED
  BY <1>4, <1>5 DEF Fits

(* ClearPath forgets a path: no chunk starts at or past the end of a file,  *)
(* so none that is kept was in the cache.                                   *)
LEMMA ClearNodesKeeps ==
  ASSUME IInv, ClearNodes
  PROVE  Fits'
<1>1. /\ clear.pc = "listed" /\ clear' = ClearIdle
      /\ UNCHANGED <<storage, opened, fuse, status>>
  BY DEF ClearNodes, ClearNodesBut
<1>2. fuse.pc = "idle"
  BY <1>1 DEF IInv, Fits, OneAtATime
<1>3. OneAtATime' /\ OpenFits'
  BY <1>1, <1>2 DEF OneAtATime, OpenFits
<1>4. ReadFits'
  BY <1>1, <1>2 DEF IInv, Fits, ReadFits
<1>5. \A f \in Files \ clear.target :
          /\ node'[f] = node[f] /\ headers'[f] = headers[f]
          /\ allowed'[f] = allowed[f] /\ cache'[f] = cache[f]
  BY DEF ClearNodes, ClearNodesBut, Clearing
<1>6. \A f \in Files : f \in clear.target =>
          /\ node'[f] = Cleared(f) /\ headers'[f] = NoHeader
          /\ allowed'[f] = clear.since[f]
  BY DEF ClearNodes, ClearNodesBut, Clearing
<1>7. HeadersFit'
  <2>1. NoHeader.value = None
    BY DEF NoHeader
  <2>2. QED
    BY <1>5, <1>6, <2>1 DEF IInv, Fits, HeadersFit
<1>8. CacheFits'
  <2>1. SUFFICES ASSUME NEW f \in Files, NEW c \in Chunks,
                        cache'[f][c] # NoChunk
                 PROVE  ChunkFits(f, c)'
    BY DEF CacheFits
  <2>2. CASE f \in clear.target
    <3>1. cache'[f][c] = cache[f][c] /\ c * ChunkSize >= node[f].size
      BY <2>1, <2>2 DEF ClearNodes, ClearNodesBut, Clearing
    <3>2. ChunkFits(f, c)
      BY <2>1, <3>1 DEF IInv, Fits, CacheFits
    <3>3. c * ChunkSize \in Int /\ node[f].size \in Int
      BY ConstantTypes DEF Chunks, IInv, TypeOK
    <3>4. FALSE
      BY <3>1, <3>2, <3>3 DEF ChunkFits
    <3>5. QED
      BY <3>4
  <2>3. CASE f \notin clear.target
    <3>1. cache'[f][c] = cache[f][c]
      BY <1>5, <2>3
    <3>2. ChunkFits(f, c)
      BY <2>1, <3>1 DEF IInv, Fits, CacheFits
    <3>3. QED
      BY <1>5, <2>3, <3>1, <3>2 DEF ChunkFits
  <2>4. QED
    BY <2>2, <2>3
<1>9. StoredIsAllowed'
  <2>1. \A f \in Files : obj[f] \in allowed[f] /\ obj[f] \in clear.since[f]
    BY <1>1 DEF IInv, Fits, StoredIsAllowed
  <2>2. \A f \in Files : obj'[f] \in allowed'[f]
    BY <1>1, <1>5, <1>6, <2>1 DEF storage
  <2>3. clear'.pc = "idle"
    BY <1>1 DEF ClearIdle
  <2>4. QED
    BY <2>2, <2>3 DEF StoredIsAllowed
<1>10. status' = "running"
  BY <1>1 DEF IInv, Fits
<1>11. QED
  BY <1>3, <1>4, <1>7, <1>8, <1>9, <1>10 DEF Fits

(* A file system that was made anew.                                        *)
LEMMA FreshFits ==
  ASSUME TypeOK, fuse.pc = "idle", ReadFits, fuse' = fuse,
         obj' = obj, clear'.pc = "idle",
         node' = [f \in Files |-> FreshNode(f)],
         headers' = [f \in Files |-> FreshHeader(f)],
         cache' = [f \in Files |-> [c \in Chunks |-> NoChunk]],
         allowed' = [f \in Files |-> {obj[f]}],
         status' = "running"
  PROVE  Fits'
<1>1. \A f \in Files : FreshHeader(f).value = None
  BY FreshTypes
<1>2. HeadersFit' /\ CacheFits'
  BY <1>1 DEF HeadersFit, CacheFits
<1>3. OneAtATime' /\ OpenFits' /\ ReadFits'
  BY DEF OneAtATime, OpenFits, ReadFits
<1>4. StoredIsAllowed'
  BY DEF StoredIsAllowed
<1>5. QED
  BY <1>2, <1>3, <1>4 DEF Fits

(* applyCommand's update.                                                   *)
LEMMA UpdateKeeps ==
  ASSUME IInv, UpdateFilesystem
  PROVE  Fits'
<1>1. clear'.pc = "idle"
  BY DEF UpdateFilesystem, CommandMayStart
<1>2. QED
  BY <1>1, FreshFits DEF UpdateFilesystem, IInv, Fits, storage

(* Other users' uploads, and what the cache drops.                          *)
LEMMA WorldKeeps ==
  ASSUME IInv,
         \/ \E f \in Files, v \in Versions : PutHeader(f, v)
         \/ \E f \in Files, v \in Stored : PutObject(f, v)
         \/ \E f \in Files, c \in Chunks : Evict(f, c)
  PROVE  Fits'
<1>1. ASSUME NEW f \in Files, NEW v \in Versions, PutHeader(f, v)
      PROVE  Fits'
  BY <1>1 DEF PutHeader, IInv, Fits, OneAtATime, HeadersFit, CacheFits,
     ChunkFits, OpenFits, ReadFits, StoredIsAllowed
<1>2. ASSUME NEW f \in Files, NEW v \in Stored, PutObject(f, v)
      PROVE  Fits'
  <2>1. Seen(f, v) /\ obj' = [obj EXCEPT ![f] = v]
        /\ UNCHANGED <<vault, node, headers, cache, dirSize, opened, status>>
    BY <1>2 DEF PutObject
  <2>2. TypeOK
    BY DEF IInv
  <2>3. /\ allowed'[f] = allowed[f] \cup {v}
        /\ \A g \in Files \ {f} : allowed'[g] = allowed[g]
        /\ clear'.pc = clear.pc /\ clear'.listing = clear.listing
        /\ \A g \in Files : clear.since[g] \subseteq clear'.since[g]
        /\ clear.pc = "listed" => v \in clear'.since[f]
    BY <2>1, <2>2, SeenValue
  <2>4. /\ fuse'.floor = IF fuse.file = f /\ fuse.pieces # <<>>
                         THEN fuse.floor \cup {v} ELSE fuse.floor
        /\ fuse'.pc = fuse.pc /\ fuse'.file = fuse.file
        /\ fuse'.header = fuse.header /\ fuse'.size = fuse.size
        /\ fuse'.pieces = fuse.pieces /\ fuse'.got = fuse.got
        /\ fuse'.fetched = fuse.fetched
    BY <2>1, <2>2, SeenValue
  <2>5. \A g \in Files : allowed[g] \subseteq allowed'[g]
    BY <2>3
  <2>6. OneAtATime' /\ HeadersFit' /\ OpenFits' /\ status' = "running"
    BY <2>1, <2>3, <2>4 DEF IInv, Fits, OneAtATime, HeadersFit, OpenFits
  <2>7. CacheFits'
    BY <2>1, <2>5 DEF IInv, Fits, CacheFits, ChunkFits
  <2>8. StoredIsAllowed'
    <3>1. \A g \in Files : obj'[g] = IF g = f THEN v ELSE obj[g]
      BY <2>1, <2>2 DEF TypeOK
    <3>2. QED
      BY <2>3, <3>1 DEF IInv, Fits, StoredIsAllowed
  <2>9. ReadFits'
    <3>1. fuse.floor \subseteq fuse'.floor
      BY <2>4
    <3>2. fuse.pc \in {"chunk", "store"} =>
              fuse'.floor = allowed'[fuse.file]
      BY <2>3, <2>4 DEF IInv, RequestFits, Fits, ReadFits
    <3>3. headers' = headers /\ node' = node
      BY <2>1
    <3>4. QED
      BY <2>4, <3>1, <3>2, <3>3 DEF IInv, Fits, ReadFits
  <2>10. QED
    BY <2>6, <2>7, <2>8, <2>9 DEF Fits
<1>3. ASSUME NEW f \in Files, NEW c \in Chunks, Evict(f, c)
      PROVE  Fits'
  <2>1. cache' = [cache EXCEPT ![f][c] = NoChunk]
        /\ UNCHANGED <<storage, node, headers, dirSize, opened, fuse, clear,
                       allowed, status>>
    BY <1>3 DEF Evict
  <2>2. \A g \in Files, d \in Chunks :
            cache'[g][d] # NoChunk => cache'[g][d] = cache[g][d]
    BY <2>1 DEF IInv, TypeOK
  <2>3. CacheFits'
    BY <2>1, <2>2 DEF IInv, Fits, CacheFits, ChunkFits
  <2>4. OneAtATime' /\ HeadersFit' /\ OpenFits' /\ ReadFits'
        /\ StoredIsAllowed' /\ status' = "running"
    BY <2>1 DEF IInv, Fits, OneAtATime, HeadersFit, OpenFits, ReadFits,
       StoredIsAllowed, storage
  <2>5. QED
    BY <2>3, <2>4 DEF Fits
<1>4. QED
  BY <1>1, <1>2, <1>3

-----------------------------------------------------------------------------
(* The theorems *)

(* InitialiseFilesystem has listed the bucket and nothing is read yet.      *)
LEMMA InitHolds ==
  ASSUME Init
  PROVE  IInv
<1>1. obj \in [Files -> Versions] /\ obj \in [Files -> Stored]
  BY DEF Init, Stored
<1>2. \A f \in Files :
          /\ FreshNode(f) \in [size : Int, offset : Nat \cup {-1, -2}]
          /\ FreshNode(f).size \in Nat /\ SizeFits(FreshNode(f).size)
          /\ FreshNode(f).size > -MacSize
          /\ FreshHeader(f) \in Headers /\ FreshHeader(f).value = None
  <2>1. TAKE f \in Files
  <2>2. StoredSize(obj[f]) \in Nat /\ StoredSize(obj[f]) <= MaxSize
    BY <1>1, StoredSizeType
  <2>3. (f \in Shared) \in BOOLEAN
    OBVIOUS
  <2>4. QED
    BY <2>2, <2>3, IdleTypes, ConstantTypes
       DEF FreshNode, FreshHeader, Headers, SizeFits
<1>3. vault \in [Files -> Stored]
  BY <1>1, IdleTypes DEF Init
<1>4. node \in [Files -> [size : Int, offset : Nat \cup {-1, -2}]]
      /\ headers \in [Files -> Headers]
      /\ \A f \in Files : node[f].size > -MacSize
  BY <1>2 DEF Init
<1>5. cache \in [Files -> [Chunks -> [version : Stored, length : Nat]]]
  BY IdleTypes DEF Init
<1>6. allowed \in [Files -> SUBSET Stored]
  BY <1>1 DEF Init
<1>7. TypeOK
  BY <1>1, <1>3, <1>4, <1>5, <1>6, IdleTypes DEF Init, TypeOK
<1>8. SizesFit /\ HeadersFit /\ CacheFits
  BY <1>2, ConstantTypes DEF Init, SizesFit, HeadersFit, CacheFits, ClearIdle
<1>9. RequestFits /\ OneAtATime /\ OpenFits /\ ReadFits
  BY DEF Init, FuseIdle, RequestFits, OneAtATime, OpenFits, ReadFits
<1>10. StoredIsAllowed
  BY DEF Init, StoredIsAllowed, ClearIdle
<1>11. QED
  BY <1>7, <1>8, <1>9, <1>10 DEF Init, IInv, Fits

(* Every step of either thread, and of the world, keeps the invariant.      *)
LEMMA StepHolds ==
  ASSUME ~Overlap, IInv, [Next]_vars
  PROVE  IInv'
<1>1. TypeOK' /\ SizesFit' /\ RequestFits'
  BY TypeStep DEF IInv, TypesInv
<1>2. Fits'
  <2>1. CASE UNCHANGED vars
    BY <2>1 DEF vars, storage, IInv, Fits, OneAtATime, HeadersFit, CacheFits,
       ChunkFits, OpenFits, ReadFits, StoredIsAllowed
  <2>2. CASE Next
    <3>1. \A f \in Files : {f} \in SUBSET Files
      OBVIOUS
    <3>2. QED
      BY <2>2, <3>1, OpenKeeps, HeaderKeeps, ReadKeeps, ChunkFromCacheKeeps,
         FetchChunkKeeps, StoreChunkKeeps, ReadReturnsKeeps, WorldKeeps,
         ListForClearKeeps, ClearNodesKeeps, UpdateKeeps DEF Next
  <2>3. QED
    BY <2>1, <2>2
<1>3. QED
  BY <1>1, <1>2 DEF IInv

(* While commands are only given when FUSE is quiet, all of the invariant   *)
(* holds, whatever other users, the cache and failures do.                  *)
THEOREM Inductive ==
  ASSUME ~Overlap
  PROVE  Spec => []IInv
<1>1. Init => IInv
  BY InitHolds
<1>2. IInv /\ [Next]_vars => IInv'
  BY StepHolds
<1>3. QED
  BY <1>1, <1>2, PTL DEF Spec

(* Sizes and requests fit also if commands come between a request's steps.  *)
THEOREM TypesInductive == Spec => []TypesInv
<1>1. Init => TypesInv
  BY InitHolds DEF IInv, TypesInv
<1>2. TypesInv /\ [Next]_vars => TypesInv'
  BY TypeStep
<1>3. QED
  BY <1>1, <1>2, PTL DEF Spec

(* The memory of the two threads keeps its types, also when commands are    *)
(* given between the steps of a request: among them, that no read asks for  *)
(* a chunk past the end of the largest object, and that no node has a size  *)
(* that is below zero by more than one Crypt4GH tag.                        *)
THEOREM Types == Spec => []TypeOK
<1>1. TypesInv => TypeOK
  BY DEF TypesInv
<1>2. QED
  BY <1>1, TypesInductive, PTL

(* s3_read and DownloadData: the FUSE thread does not panic on a slice of   *)
(* the cache, and what one read answers is of one version of the file.      *)
THEOREM OneVersion ==
  ASSUME ~Overlap
  PROVE  Spec => []ReadsOneVersion
<1>1. IInv => ReadsOneVersion
  BY DEF IInv, Fits, ReadFits, ReadsOneVersion
<1>2. QED
  BY <1>1, Inductive, PTL

(* ClearPath: a read that starts after a clear has returned answers nothing *)
(* that was replaced before the clear began.                                *)
THEOREM Fresh ==
  ASSUME ~Overlap
  PROVE  Spec => []FreshAfterClear
<1>1. IInv => FreshAfterClear
  BY DEF IInv, Fits, ReadFits, FreshAfterClear
<1>2. QED
  BY <1>1, Inductive, PTL

(* DownloadData and CheckHeaderExistence: a cached chunk of a file whose    *)
(* header is loaded has the length that the file's size gives it.           *)
THEOREM CachedLength ==
  ASSUME ~Overlap
  PROVE  Spec => []CacheMatchesSize
<1>1. IInv => CacheMatchesSize
  BY DEF IInv, Fits, CacheFits, ChunkFits, CacheMatchesSize
<1>2. QED
  BY <1>1, Inductive, PTL

-----------------------------------------------------------------------------
(* What readers see *)

\* A read has a result when it is answered, and of a clear that is not under
\* way nothing is noted.
VisibleFits ==
    /\ fuse.result # "none" => fuse.pc = "answer"
    /\ clear.pc = "idle" => /\ clear.target = {}
                            /\ clear.since = [f \in Files |-> {}]

(* Of Seen, what a reader and ClearPath's listing see.                      *)
LEMMA SeenShows ==
  ASSUME fuse \in FuseStates, clear \in ClearStates,
         NEW f \in Files, NEW v \in Stored, Seen(f, v)
  PROVE  /\ fuse'.pc = fuse.pc /\ fuse'.result = fuse.result
         /\ clear'.pc = clear.pc /\ clear'.target = clear.target
         /\ clear'.since = [clear.since EXCEPT ![f] =
                              IF clear.pc = "idle" THEN @ ELSE @ \cup {v}]
BY DEF Seen, FuseStates, ClearStates

(* Every step keeps that.                                                   *)
LEMMA VisibleStep ==
  ASSUME TypeOK, RequestFits, VisibleFits, [Next]_vars
  PROVE  VisibleFits'
<1>1. fuse \in FuseStates /\ clear \in ClearStates
  BY DEF TypeOK
<1>2. ASSUME fuse' = FuseIdle, clear' = clear
      PROVE  VisibleFits'
  BY <1>2 DEF FuseIdle, VisibleFits
<1>3. ASSUME fuse' = fuse, clear' = clear
      PROVE  VisibleFits'
  BY <1>3 DEF VisibleFits
<1>4. ASSUME NEW r \in FuseStates, fuse' = r, r.result = "none", clear' = clear
      PROVE  VisibleFits'
  BY <1>4 DEF VisibleFits
<1>5. ASSUME NEW f \in Files, OpenFirst(f) \/ OpenAgain(f) \/ Release(f)
      PROVE  VisibleFits'
  BY <1>3, <1>5 DEF OpenFirst, OpenAgain, Release, FuseIdle, VisibleFits
<1>6. ASSUME GetFileHeader \/ GetReencryptedHeader
      PROVE  VisibleFits'
  <2>1. fuse.pc # "answer" /\ clear' = clear
    BY <1>6 DEF GetFileHeader, GetReencryptedHeader, FuseAt
  <2>2. fuse' = FuseIdle \/ fuse' = [fuse EXCEPT !.pc = "reencrypt"]
    BY <1>6 DEF GetFileHeader, GetReencryptedHeader, KeepHeader, OpenReturns
  <2>3. CASE fuse' = FuseIdle
    BY <1>2, <2>1, <2>3
  <2>4. CASE fuse' = [fuse EXCEPT !.pc = "reencrypt"]
    BY <1>1, <2>1, <2>4 DEF VisibleFits, FuseStates
  <2>5. QED
    BY <2>2, <2>3, <2>4
<1>7. ASSUME NEW f \in Files, NEW start \in 0 .. node[f].size, Read(f, start)
      PROVE  VisibleFits'
  BY <1>7 DEF Read, FuseIdle, VisibleFits
<1>8. ASSUME ChunkFromCache \/ FetchChunk \/ StoreChunk \/ ReadReturns
      PROVE  VisibleFits'
  <2>1. clear' = clear /\ fuse.pc \in {"chunk", "store", "answer"}
    BY <1>8 DEF ChunkFromCache, FetchChunk, StoreChunk, ReadReturns, FuseAt
  <2>2. \/ fuse' = FuseIdle \/ fuse' = fuse
        \/ fuse.pc # "answer" /\ fuse'.pc = "answer"
        \/ fuse.pc # "answer" /\ fuse'.result = "none"
    BY <1>1, <1>8 DEF ChunkFromCache, FetchChunk, StoreChunk, ReadReturns,
       FuseAt, Take, Answer, FuseStates, VisibleFits
  <2>3. QED
    BY <1>2, <1>3, <2>1, <2>2 DEF VisibleFits
<1>9. ASSUME NEW target \in SUBSET Files,
             ListForClear(target) \/ ClearNodes \/ UpdateFilesystem
      PROVE  VisibleFits'
  <2>1. CASE ListForClear(target)
    BY <2>1 DEF ListForClear, VisibleFits
  <2>2. CASE ClearNodes
    BY <2>2 DEF ClearNodes, ClearNodesBut, ClearIdle, VisibleFits
  <2>3. CASE UpdateFilesystem
    BY <1>3, <2>3 DEF UpdateFilesystem
  <2>4. QED
    BY <1>9, <2>1, <2>2, <2>3
<1>10. ASSUME NEW f \in Files, NEW v \in Versions, PutHeader(f, v)
       PROVE  VisibleFits'
  BY <1>3, <1>10 DEF PutHeader
<1>11. ASSUME NEW f \in Files, NEW v \in Stored, PutObject(f, v)
       PROVE  VisibleFits'
  <2>1. /\ fuse'.pc = fuse.pc /\ fuse'.result = fuse.result
        /\ clear'.pc = clear.pc /\ clear'.target = clear.target
        /\ clear'.since = [clear.since EXCEPT ![f] =
                             IF clear.pc = "idle" THEN @ ELSE @ \cup {v}]
    BY <1>1, <1>11, SeenShows DEF PutObject
  <2>2. clear.pc = "idle" => clear'.since = clear.since
    BY <2>1 DEF VisibleFits
  <2>3. QED
    BY <2>1, <2>2 DEF VisibleFits
<1>12. ASSUME NEW f \in Files, NEW c \in Chunks, Evict(f, c)
       PROVE  VisibleFits'
  BY <1>3, <1>12 DEF Evict
<1>13. CASE UNCHANGED vars
  BY <1>3, <1>13 DEF vars
<1>14. \A f \in Files : {f} \in SUBSET Files
  OBVIOUS
<1>15. QED
  BY <1>5, <1>6, <1>7, <1>8, <1>9, <1>10, <1>11, <1>12, <1>13, <1>14 DEF Next

\* A step that shows in the mount's promise, or does not show at all.
Shown == [Remote!Next]_(Remote!vars)

(* What readers see does not change while nothing of it does.               *)
LEMMA NotShown ==
  ASSUME UNCHANGED <<obj, allowed, clear>>,
         \/ fuse' = fuse
         \/ fuse.result # "data" /\ fuse'.result # "data"
  PROVE  Shown
BY DEF Shown, Remote!vars

(* s3_open, CheckHeaderExistence and s3_release do not show.                *)
LEMMA OpenShown ==
  ASSUME IInv, VisibleFits,
         \/ \E f \in Files : OpenFirst(f) \/ OpenAgain(f) \/ Release(f)
         \/ GetFileHeader \/ GetReencryptedHeader
  PROVE  Shown
<1>1. fuse \in FuseStates
  BY DEF IInv, TypeOK
<1>2. UNCHANGED <<obj, allowed, clear>>
  BY DEF OpenFirst, OpenAgain, Release, GetFileHeader, GetReencryptedHeader,
     storage
<1>3. fuse.pc # "answer"
  BY DEF OpenFirst, OpenAgain, Release, GetFileHeader, GetReencryptedHeader,
     FuseMayStart, FuseAt
<1>4. \/ fuse' = fuse \/ fuse' = [fuse EXCEPT !.pc = "reencrypt"]
      \/ fuse' = FuseIdle
      \/ \E f \in Files : fuse' = [FuseIdle EXCEPT !.pc = "header", !.file = f,
                                                   !.header = headers[f]]
  <2>1. CASE \E f \in Files : OpenFirst(f) \/ OpenAgain(f) \/ Release(f)
    BY <2>1 DEF OpenFirst, OpenAgain, Release
  <2>2. CASE GetFileHeader \/ GetReencryptedHeader
    BY <2>2 DEF GetFileHeader, GetReencryptedHeader, KeepHeader, OpenReturns
  <2>3. QED
    BY <2>1, <2>2
<1>5. fuse' = fuse \/ fuse'.result = "none"
  <2>1. fuse.result = "none"
    BY <1>3 DEF VisibleFits
  <2>2. [fuse EXCEPT !.pc = "reencrypt"].result = fuse.result
    BY <1>1 DEF FuseStates
  <2>3. \A f \in Files : [FuseIdle EXCEPT !.pc = "header", !.file = f,
                                         !.header = headers[f]].result = "none"
    BY DEF FuseIdle
  <2>4. FuseIdle.result = "none"
    BY DEF FuseIdle
  <2>5. QED
    BY <1>4, <2>1, <2>2, <2>3, <2>4
<1>6. QED
  BY <1>2, <1>3, <1>5, NotShown DEF VisibleFits

(* The last piece of a read is its answer: a version that was in storage    *)
(* since the file was refreshed.                                            *)
LEMMA TakeShown ==
  ASSUME IInv, VisibleFits, fuse.pc \in {"chunk", "store"},
         NEW v \in Stored, v = fuse.header.value, v \in fuse.floor,
         fuse' = Take(v), UNCHANGED <<obj, allowed, clear>>
  PROVE  Shown
<1>1. /\ fuse.pieces # <<>> /\ fuse.file \in Files /\ fuse.got \in Seq(Stored)
      /\ fuse \in FuseStates
  BY DEF IInv, RequestFits, TypeOK, FuseStates
<1>2. PICK f \in Files : f = fuse.file
  BY <1>1
<1>3. fuse'.file = f /\ fuse'.got = Append(fuse.got, v)
  BY <1>1, <1>2, TakeType DEF IInv
<1>4. fuse.result = "none"
  BY DEF VisibleFits
<1>5. CASE fuse'.result # "data"
  BY <1>4, <1>5, NotShown
<1>6. CASE fuse'.result = "data"
  <2>1. 1 \in DOMAIN Append(fuse.got, v)
    BY <1>1
  <2>2. \A i \in DOMAIN fuse'.got : fuse'.got[i] = v
    BY <1>1, <1>3, AllAppended DEF IInv, Fits, ReadFits
  <2>3. {fuse'.got[i] : i \in DOMAIN fuse'.got} = {v}
    BY <1>3, <2>1, <2>2
  <2>4. v \in allowed[f] /\ v # None
    BY <1>2 DEF IInv, Fits, ReadFits
  <2>5. Remote!Answer(f)
    BY <1>3, <1>4, <1>6, <2>3, <2>4 DEF Remote!Answer, Remote!NoAnswer
  <2>6. Remote!Next
    BY <2>5 DEF Remote!Next
  <2>7. QED
    BY <2>6 DEF Shown
<1>7. QED
  BY <1>5, <1>6

(* s3_read and DownloadData show when they have the last piece, and when    *)
(* the answer was returned.                                                 *)
LEMMA ReadShown ==
  ASSUME IInv, VisibleFits,
         \/ \E f \in Files : \E start \in 0 .. node[f].size : Read(f, start)
         \/ ChunkFromCache \/ FetchChunk \/ StoreChunk \/ ReadReturns
  PROVE  Shown
<1>1. UNCHANGED <<obj, allowed, clear>>
  BY DEF Read, ChunkFromCache, FetchChunk, StoreChunk, ReadReturns, storage
<1>2. ASSUME NEW f \in Files, NEW start \in 0 .. node[f].size, Read(f, start)
      PROVE  Shown
  <2>1. fuse.result # "data"
    BY <1>2 DEF Read, FuseMayStart, VisibleFits
  <2>2. fuse'.result # "data"
    BY <1>2 DEF Read, FuseIdle
  <2>3. QED
    BY <1>1, <2>1, <2>2, NotShown
<1>3. CASE ChunkFromCache
  BY <1>1, <1>3, CachedIsFresh, TakeShown
<1>4. CASE FetchChunk
  <2>1. fuse.result = "none"
    BY <1>4 DEF FetchChunk, FuseAt, VisibleFits
  <2>2. fuse'.result # "data"
    BY <1>4, <2>1 DEF FetchChunk, Answer, IInv, TypeOK, FuseStates
  <2>3. QED
    BY <1>1, <2>1, <2>2, NotShown
<1>5. CASE StoreChunk
  BY <1>1, <1>5, TakeShown
     DEF StoreChunk, FuseAt, IInv, Fits, ReadFits, TypeOK, FuseStates
<1>6. CASE ReadReturns
  BY <1>1, <1>6
     DEF ReadReturns, FuseIdle, Shown, Remote!Next, Remote!Return,
         Remote!NoAnswer
<1>7. QED
  BY <1>2, <1>3, <1>4, <1>5, <1>6

(* ClearPath refreshes its files while nobody reads; an update all of them. *)
LEMMA CommandShown ==
  ASSUME IInv, VisibleFits,
         \/ \E target \in SUBSET Files : ListForClear(target)
         \/ ClearNodes \/ UpdateFilesystem
  PROVE  Shown
<1>1. ASSUME NEW target \in SUBSET Files, ListForClear(target)
      PROVE  Shown
  <2>1. Remote!BeginRefresh
    BY <1>1 DEF ListForClear, CommandMayStart, VisibleFits, storage,
       Remote!BeginRefresh, Remote!NoRefresh
  <2>2. QED
    BY <2>1 DEF Shown, Remote!Next
<1>2. CASE ClearNodes
  <2>1. fuse.result = "none"
    BY <1>2 DEF ClearNodes, ClearNodesBut, IInv, Fits, OneAtATime, VisibleFits
  <2>2. Remote!EndRefresh
    BY <1>2, <2>1 DEF ClearNodes, ClearNodesBut, Clearing, ClearIdle, storage,
       Remote!EndRefresh, Remote!NoAnswer, Remote!NoRefresh
  <2>3. QED
    BY <2>2 DEF Shown, Remote!Next
<1>3. CASE UpdateFilesystem
  <2>1. fuse.result = "none"
    BY <1>3 DEF UpdateFilesystem, VisibleFits
  <2>2. Remote!Update
    BY <1>3, <2>1 DEF UpdateFilesystem, storage, Remote!Update, Remote!NoAnswer
  <2>3. QED
    BY <2>2 DEF Shown, Remote!Next
<1>4. QED
  BY <1>1, <1>2, <1>3

(* An upload or a removal of another user is one; the header that is posted *)
(* before it, and what the cache drops, do not show.                        *)
LEMMA WorldShown ==
  ASSUME IInv, VisibleFits,
         \/ \E f \in Files, v \in Versions : PutHeader(f, v)
         \/ \E f \in Files, v \in Stored : PutObject(f, v)
         \/ \E f \in Files, c \in Chunks : Evict(f, c)
  PROVE  Shown
<1>1. CASE \/ \E f \in Files, v \in Versions : PutHeader(f, v)
           \/ \E f \in Files, c \in Chunks : Evict(f, c)
  BY <1>1, NotShown DEF PutHeader, Evict, storage
<1>2. ASSUME NEW f \in Files, NEW v \in Stored, PutObject(f, v)
      PROVE  Shown
  <2>1. /\ fuse'.result = fuse.result /\ fuse'.file = fuse.file
        /\ fuse'.got = fuse.got /\ clear'.target = clear.target
        /\ clear'.since = [clear.since EXCEPT ![f] =
                             IF clear.pc = "idle" THEN @ ELSE @ \cup {v}]
    BY <1>2, SeenShows, SeenValue DEF PutObject, IInv, TypeOK
  <2>2. clear.since[f] = {} <=> clear.pc = "idle"
    BY DEF VisibleFits, IInv, Fits, StoredIsAllowed, TypeOK, ClearStates
  <2>3. /\ obj' = [obj EXCEPT ![f] = v]
        /\ allowed' = [allowed EXCEPT ![f] = @ \cup {v}]
    BY <1>2 DEF PutObject, Seen
  <2>4. clear'.since = [clear.since EXCEPT ![f] = IF @ = {} THEN @
                                                  ELSE @ \cup {v}]
    BY <2>1, <2>2
  <2>5. Remote!Put(f, v)
    BY <2>1, <2>3, <2>4 DEF Remote!Put
  <2>6. QED
    BY <2>5 DEF Shown, Remote!Next, Stored
<1>3. QED
  BY <1>1, <1>2

(* The initial states of the mount are initial states of its promise, and   *)
(* every step of either thread or of the world is a step of the promise or  *)
(* does not show: as long as commands are given while FUSE is quiet, what a *)
(* read is given is one upload of the file, and one that was in storage     *)
(* since the file was last cleared or listed.                               *)
THEOREM ReadsAreRemote ==
  ASSUME ~Overlap
  PROVE  Spec => ImplementsRemoteFiles
<1>1. Init => Remote!Init /\ VisibleFits
  BY DEF Init, FuseIdle, ClearIdle, VisibleFits, Remote!Init, Remote!NoRefresh,
     Remote!NoAnswer
<1>2. IInv /\ VisibleFits /\ [Next]_vars => VisibleFits'
  BY VisibleStep DEF IInv
<1>3. IInv /\ VisibleFits /\ [Next]_vars => [Remote!Next]_(Remote!vars)
  <2>1. SUFFICES ASSUME IInv, VisibleFits, [Next]_vars
                 PROVE  Shown
    BY DEF Shown
  <2>2. CASE Next
    <3>1. \A f \in Files : {f} \in SUBSET Files
      OBVIOUS
    <3>2. QED
      BY <2>1, <2>2, <3>1, OpenShown, ReadShown, CommandShown, WorldShown
         DEF Next
  <2>3. CASE UNCHANGED vars
    BY <2>3, NotShown DEF vars, storage
  <2>4. QED
    BY <2>1, <2>2, <2>3
<1>4. QED
  BY <1>1, <1>2, <1>3, Inductive, PTL DEF Spec, ImplementsRemoteFiles,
     Remote!Spec

-----------------------------------------------------------------------------
(* The size of a directory *)

(* Among some finite subsets, one has no other below it.                    *)
LEMMA LeastSubset ==
  ASSUME NEW S, NEW T, T # {}, T \subseteq FiniteSubsetsOf(S)
  PROVE  \E s \in T : \A r \in T : ~(<<r, s>> \in StrictSubsetOrdering(S))
BY FS_StrictSubsetOrderingWellFounded, WFMin, Zenon

(* What holds of a set when it holds of every smaller one holds of all the  *)
(* subsets of a finite set: T are those of which it holds.                  *)
LEMMA SubsetInduction ==
  ASSUME NEW S, IsFiniteSet(S), NEW T,
         \A s \in SUBSET S :
           (\A r \in SUBSET S : r \subseteq s /\ r # s => r \in T) => s \in T
  PROVE  \A s \in SUBSET S : s \in T
<1> DEFINE Bad == {s \in SUBSET S : s \notin T}
<1>1. SUFFICES ASSUME Bad # {} PROVE FALSE
  OBVIOUS
<1>2. Bad \subseteq SUBSET S
  OBVIOUS
<1>3. \A s \in SUBSET S : s \in Bad <=> s \notin T
  OBVIOUS
<1> HIDE DEF Bad
<1>4. Bad \subseteq FiniteSubsetsOf(S)
  BY <1>2, FS_FiniteSubsetsOfFinite
<1>5. PICK s \in Bad : \A r \in Bad : ~(<<r, s>> \in StrictSubsetOrdering(S))
  BY <1>1, <1>4, LeastSubset
<1>6. \A r \in SUBSET S : r \subseteq s /\ r # s => r \notin Bad
  BY <1>2, <1>5 DEF StrictSubsetOrdering
<1>7. s \in SUBSET S /\ s \notin T
  BY <1>2, <1>3
<1>8. \A r \in SUBSET S : r \subseteq s /\ r # s => r \in T
  BY <1>3, <1>6
<1>9. QED
  BY <1>7, <1>8

Pick(s) == CHOOSE f \in s : TRUE
Rest(s) == s \ {Pick(s)}

\* The sums of the sizes of the files of every subset of S, as the fold that
\* SumSizes uses tabulates them.
IsTable(nd, S, t) ==
    t = [s \in SUBSET S |-> IF s = {} THEN 0 ELSE nd[Pick(s)].size + t[Rest(s)]]
Table(nd, S) == CHOOSE t : IsTable(nd, S, t)

(* SumSizes looks up the sum for all of the files.                          *)
LEMMA SumIsInTable ==
  ASSUME NEW nd
  PROVE  SumSizes(nd) = Table(nd, Files)[Files]
BY Zenon
   DEF SumSizes, Table, IsTable, MapThenSumSet, MapThenFoldSet, Pick, Rest

(* The element that the fold takes from a set, and what it leaves.          *)
LEMMA Picked ==
  ASSUME NEW S, NEW s \in SUBSET S, s # {}
  PROVE  /\ Pick(s) \in s /\ Pick(s) \in S
         /\ Rest(s) \in SUBSET S /\ Rest(s) \subseteq s /\ Rest(s) # s
         /\ \A f : f \in Rest(s) <=> f \in s /\ f # Pick(s)
BY DEF Pick, Rest

(* What a table says of a subset.                                           *)
LEMMA TableEntry ==
  ASSUME NEW nd, NEW S, NEW t, IsTable(nd, S, t), NEW s \in SUBSET S
  PROVE  /\ s = {} => t[s] = 0
         /\ s # {} => t[s] = nd[Pick(s)].size + t[Rest(s)]
BY Zenon DEF IsTable

(* Tables agree on the subsets that they have in common.                    *)
LEMMA TablesAgree ==
  ASSUME NEW nd, NEW R, NEW S, R \subseteq S, IsFiniteSet(R),
         NEW a, IsTable(nd, R, a), NEW b, IsTable(nd, S, b)
  PROVE  \A s \in SUBSET R : a[s] = b[s]
<1> DEFINE T == {s \in SUBSET R : a[s] = b[s]}
<1>1. ASSUME NEW s \in SUBSET R,
             \A r \in SUBSET R : r \subseteq s /\ r # s => r \in T
      PROVE  s \in T
  <2>1. s \in SUBSET S
    OBVIOUS
  <2>2. CASE s = {}
    <3>1. a[s] = 0
      BY <2>2, TableEntry
    <3>2. b[s] = 0
      BY <2>1, <2>2, TableEntry
    <3>3. QED
      BY <3>1, <3>2
  <2>3. CASE s # {}
    <3>1. Rest(s) \in T
      BY <1>1, <2>3, Picked
    <3>2. a[s] = nd[Pick(s)].size + a[Rest(s)]
      BY <2>3, TableEntry
    <3>3. b[s] = nd[Pick(s)].size + b[Rest(s)]
      BY <2>1, <2>3, TableEntry
    <3>4. QED
      BY <3>1, <3>2, <3>3
  <2>4. QED
    BY <2>2, <2>3
<1> HIDE DEF T
<1>2. \A s \in SUBSET R : s \in T
  BY <1>1, SubsetInduction
<1>3. QED
  BY <1>2 DEF T

(* There is a table of every finite set: the one that takes the entry of a  *)
(* subset from the table of what the fold leaves of it.                     *)
LEMMA TableExists ==
  ASSUME NEW nd, NEW S, IsFiniteSet(S)
  PROVE  IsTable(nd, S, Table(nd, S))
<1> DEFINE T == {s \in SUBSET S : IsTable(nd, s, Table(nd, s))}
<1>1. ASSUME NEW s \in SUBSET S,
             \A r \in SUBSET S : r \subseteq s /\ r # s => r \in T
      PROVE  s \in T
  <2>1. \A r : r \subseteq s /\ r # s =>
                 IsTable(nd, r, Table(nd, r)) /\ IsFiniteSet(r)
    BY <1>1, FS_Subset
  <2> DEFINE Below(r) == Table(nd, Rest(r))[Rest(r)]
             h == [r \in SUBSET s |-> IF r = {} THEN 0
                                      ELSE nd[Pick(r)].size + Below(r)]
  <2>2. \A r \in SUBSET s : /\ r = {} => h[r] = 0
                            /\ r # {} => h[r] = nd[Pick(r)].size + Below(r)
    OBVIOUS
  <2>3. ASSUME NEW r \in SUBSET s, r # {}
        PROVE  h[Rest(r)] = Below(r)
    <3>1. PICK q : q = Rest(r)
      OBVIOUS
    <3>2. q \in SUBSET s /\ q # s /\ q \subseteq s
      BY <2>3, <3>1, Picked
    <3>3. IsTable(nd, q, Table(nd, q)) /\ IsFiniteSet(q) /\ q \in SUBSET q
      BY <2>1, <3>2
    <3> HIDE DEF h
    <3>4. CASE q = {}
      <4>1. h[q] = 0
        BY <2>2, <3>2, <3>4
      <4>2. Table(nd, q)[q] = 0
        BY <3>3, <3>4, TableEntry
      <4>3. QED
        BY <3>1, <4>1, <4>2
    <3>5. CASE q # {}
      <4>1. PICK p : p = Rest(q)
        OBVIOUS
      <4>2. p \in SUBSET q /\ p \subseteq q /\ p # q
        BY <3>3, <3>5, <4>1, Picked
      <4>3. p \subseteq s /\ p # s
        BY <3>2, <4>2
      <4>4. IsTable(nd, p, Table(nd, p)) /\ IsFiniteSet(p) /\ p \in SUBSET p
        BY <2>1, <4>3
      <4>5. h[q] = nd[Pick(q)].size + Table(nd, p)[p]
        BY <2>2, <3>2, <3>5, <4>1
      <4>6. Table(nd, q)[q] = nd[Pick(q)].size + Table(nd, q)[p]
        BY <3>3, <3>5, <4>1, TableEntry
      <4>7. Table(nd, p)[p] = Table(nd, q)[p]
        BY <3>3, <4>2, <4>4, TablesAgree
      <4>8. QED
        BY <3>1, <4>5, <4>6, <4>7
    <3>6. QED
      BY <3>4, <3>5
  <2>4. h = [r \in SUBSET s |-> IF r = {} THEN 0
                                ELSE nd[Pick(r)].size + h[Rest(r)]]
    BY <2>3, Zenon
  <2> HIDE DEF h
  <2>5. IsTable(nd, s, h)
    BY <2>4, Zenon DEF IsTable
  <2>6. IsTable(nd, s, Table(nd, s))
    BY <2>5, Zenon DEF Table
  <2>7. QED
    BY <2>6
<1>2. S \in SUBSET S
  OBVIOUS
<1> HIDE DEF T
<1>3. \A s \in SUBSET S : s \in T
  BY <1>1, SubsetInduction
<1>4. QED
  BY <1>2, <1>3 DEF T

(* Sums of sizes are numbers.                                               *)
LEMMA SumsAreNumbers ==
  ASSUME NEW nd, IsFiniteSet(Files), \A f \in Files : nd[f].size \in Int
  PROVE  \A s \in SUBSET Files : Table(nd, Files)[s] \in Int
<1> DEFINE t == Table(nd, Files)
           T == {s \in SUBSET Files : t[s] \in Int}
<1>1. IsTable(nd, Files, t)
  BY TableExists
<1> HIDE DEF t
<1>2. ASSUME NEW s \in SUBSET Files,
             \A r \in SUBSET Files : r \subseteq s /\ r # s => r \in T
      PROVE  s \in T
  <2>1. CASE s = {}
    BY <1>1, <2>1, TableEntry
  <2>2. CASE s # {}
    <3>1. Rest(s) \in T /\ Pick(s) \in Files
      BY <1>2, <2>2, Picked
    <3>2. t[s] = nd[Pick(s)].size + t[Rest(s)]
      BY <1>1, <2>2, TableEntry
    <3>3. QED
      BY <3>1, <3>2
  <2>3. QED
    BY <2>1, <2>2
<1> HIDE DEF T
<1>3. \A s \in SUBSET Files : s \in T
  BY <1>2, SubsetInduction
<1>4. QED
  BY <1>3 DEF T, t

(* When the size of one file changes, so does the sum, by as much.          *)
LEMMA SumChanges ==
  ASSUME IsFiniteSet(Files), NEW f \in Files, NEW old, NEW new,
         \A g \in Files : old[g].size \in Int /\ new[g].size \in Int,
         \A g \in Files : g # f => new[g].size = old[g].size
  PROVE  SumSizes(new) = SumSizes(old) + new[f].size - old[f].size
<1> DEFINE a == Table(old, Files)
           b == Table(new, Files)
           change == new[f].size - old[f].size
           T == {s \in SUBSET Files :
                   b[s] = IF f \in s THEN a[s] + change ELSE a[s]}
<1>1. \A s \in SUBSET Files : a[s] \in Int /\ b[s] \in Int
  BY SumsAreNumbers
<1>2. IsTable(old, Files, a) /\ IsTable(new, Files, b)
  BY TableExists
<1>3. SumSizes(old) = a[Files] /\ SumSizes(new) = b[Files]
  BY SumIsInTable
<1>4. change \in Int /\ new[f].size = old[f].size + change
  OBVIOUS
<1> HIDE DEF a, b, change
<1>5. ASSUME NEW s \in SUBSET Files,
             \A r \in SUBSET Files : r \subseteq s /\ r # s => r \in T
      PROVE  s \in T
  <2>1. CASE s = {}
    <3>1. a[s] = 0 /\ b[s] = 0 /\ f \notin s
      BY <1>2, <2>1, TableEntry
    <3>2. QED
      BY <3>1
  <2>2. CASE s # {}
    <3>1. PICK p, q : p = Pick(s) /\ q = Rest(s)
      OBVIOUS
    <3>2. /\ q \in T /\ q \in SUBSET Files /\ p \in Files /\ p \in s
          /\ f \in q <=> f \in s /\ f # p
      BY <1>5, <2>2, <3>1, Picked
    <3>3. a[s] = old[p].size + a[q]
      BY <1>2, <2>2, <3>1, TableEntry
    <3>4. b[s] = new[p].size + b[q]
      BY <1>2, <2>2, <3>1, TableEntry
    <3>5. a[q] \in Int /\ b[q] \in Int /\ old[p].size \in Int
          /\ new[p].size \in Int /\ a[s] \in Int /\ b[s] \in Int
      BY <1>1, <3>2
    <3>6. b[q] = IF f \in q THEN a[q] + change ELSE a[q]
      BY <3>2
    <3>7. CASE f = p
      BY <1>4, <3>2, <3>3, <3>4, <3>5, <3>6, <3>7
    <3>8. CASE f # p
      <4>1. new[p].size = old[p].size
        BY <3>2, <3>8
      <4>2. QED
        BY <1>4, <3>2, <3>3, <3>4, <3>5, <3>6, <3>8, <4>1
    <3>9. QED
      BY <3>7, <3>8
  <2>3. QED
    BY <2>1, <2>2
<1> HIDE DEF T
<1>6. Files \in SUBSET Files
  OBVIOUS
<1>7. \A s \in SUBSET Files : s \in T
  BY <1>5, SubsetInduction
<1>8. b[Files] = a[Files] + change
  BY <1>6, <1>7 DEF T
<1>9. a[Files] \in Int /\ old[f].size \in Int /\ new[f].size \in Int
  BY <1>1, <1>6
<1>10. QED
  BY <1>3, <1>8, <1>9 DEF change

(* A sum that no size has changed is the same.                              *)
LEMMA SameSizes ==
  ASSUME NEW old, NEW new, \A f \in Files : old[f].size \in Int,
         \A f \in Files : new[f].size = old[f].size
  PROVE  SumSizes(new) = SumSizes(old) /\ SumSizes(old) \in Int
<1>1. IsFiniteSet(Files)
  BY AccessAssumption
<1>2. SumSizes(old) \in Int
  BY <1>1, SumsAreNumbers, SumIsInTable
<1>3. CASE Files = {}
  <2>1. IsTable(old, Files, Table(old, Files))
        /\ IsTable(new, Files, Table(new, Files)) /\ Files \in SUBSET Files
    BY <1>1, TableExists
  <2>2. Table(old, Files)[Files] = 0
    BY <1>3, <2>1, TableEntry
  <2>3. Table(new, Files)[Files] = 0
    BY <1>3, <2>1, TableEntry
  <2>4. QED
    BY <1>2, <2>2, <2>3, SumIsInTable
<1>4. CASE Files # {}
  <2>1. PICK f \in Files : TRUE
    BY <1>4
  <2>2. SumSizes(new) = SumSizes(old) + new[f].size - old[f].size
    BY <1>1, SumChanges
  <2>3. QED
    BY <1>2, <2>2
<1>5. QED
  BY <1>3, <1>4

DirectoryFits == dirSize = SumSizes(node)

(* Steps that change no size.                                               *)
LEMMA SameSum ==
  ASSUME TypesInv, DirectoryFits, dirSize' = dirSize,
         \A f \in Files : node'[f].size = node[f].size
  PROVE  DirectoryFits'
BY SameSizes DEF TypesInv, TypeOK, DirectoryFits

(* CheckHeaderExistence adds to the directory what it adds to the file.     *)
LEMMA KeepHeaderAdds ==
  ASSUME TypesInv, TypesInv', DirectoryFits, fuse.file \in Files, NEW v,
         NEW offset \in Int, KeepHeader(v, offset)
  PROVE  DirectoryFits'
<1> DEFINE f == fuse.file
           bodySize == node[f].size - offset
<1>1. /\ dirSize = SumSizes(node) /\ IsFiniteSet(Files)
      /\ \A g \in Files : node[g].size \in Int /\ node'[g].size \in Int
  BY AccessAssumption DEF TypesInv, TypeOK, DirectoryFits
<1>2. SumSizes(node) \in Int
  BY <1>1, SameSizes
<1>3. CASE bodySize < 0
  <2>1. node' = [node EXCEPT ![f].offset = offset] /\ dirSize' = dirSize
    BY <1>3 DEF KeepHeader
  <2>2. \A g \in Files : node'[g].size = node[g].size
    BY <2>1 DEF TypesInv, TypeOK
  <2>3. QED
    BY <2>1, <2>2, SameSum
<1>4. CASE ~(bodySize < 0)
  <2> DEFINE newSize == calculateDecryptedSize(bodySize)
  <2>1. /\ node' = [node EXCEPT ![f] = [size |-> newSize, offset |-> offset]]
        /\ dirSize' = dirSize + newSize - node[f].size
    BY <1>4 DEF KeepHeader
  <2> HIDE DEF newSize, bodySize, f
  <2>2. /\ f \in Files => node'[f].size = newSize
        /\ \A g \in Files : g # f => node'[g].size = node[g].size
    BY <2>1 DEF TypesInv, TypeOK
  <2>3. f \in Files
    BY DEF f
  <2>4. SumSizes(node') = SumSizes(node) + node'[f].size - node[f].size
    BY <1>1, <2>2, <2>3, SumChanges
  <2>5. QED
    BY <1>1, <1>2, <2>1, <2>2, <2>3, <2>4 DEF DirectoryFits
<1>5. QED
  BY <1>3, <1>4

(* Every step keeps the sum.                                                *)
LEMMA SizesStep ==
  ASSUME TypesInv, TypesInv', DirectoryFits, [Next]_vars
  PROVE  DirectoryFits'
<1>1. UNCHANGED <<node, dirSize>> => DirectoryFits'
  BY SameSum
<1>2. ASSUME NEW f \in Files, OpenFirst(f)
      PROVE  DirectoryFits'
  <2>1. dirSize' = dirSize /\ \A g \in Files : node'[g].size = node[g].size
    BY <1>2 DEF OpenFirst, TypesInv, TypeOK
  <2>2. QED
    BY <2>1, SameSum
<1>3. CASE GetFileHeader \/ GetReencryptedHeader
  <2>1. fuse.file \in Files /\ fuse.pc \in {"header", "reencrypt"}
    BY <1>3 DEF GetFileHeader, GetReencryptedHeader, FuseAt, TypesInv,
       RequestFits
  <2>2. obj[fuse.file] \in Stored /\ fuse.file \in Files
         /\ node[fuse.file] \in [size : Int, offset : Nat \cup {-1, -2}]
    BY <2>1 DEF TypesInv, TypeOK
  <2>3. node[fuse.file].offset \in Int /\ obj[fuse.file] \in Stored
    BY <2>2
  <2>4. HeaderInObject(obj[fuse.file]) => HeaderSize[obj[fuse.file]] \in Int
    BY <2>3, ConstantTypes DEF HeaderInObject, Stored
  <2>5. \/ UNCHANGED <<node, dirSize>>
        \/ \E v, offset : offset \in Int /\ KeepHeader(v, offset)
    BY <1>3, <2>3, <2>4, Zenon DEF GetFileHeader, GetReencryptedHeader
  <2>6. QED
    BY <1>1, <2>1, <2>5, KeepHeaderAdds
<1>4. CASE ClearNodes
  <2>1. dirSize' = dirSize + SumSizes(node') - SumSizes(node)
    BY <1>4 DEF ClearNodes, ClearNodesBut
  <2>2. SumSizes(node) \in Int /\ SumSizes(node') \in Int
    BY SameSizes DEF TypesInv, TypeOK
  <2>3. QED
    BY <2>1, <2>2 DEF DirectoryFits
<1>5. CASE UpdateFilesystem
  BY <1>5 DEF UpdateFilesystem, DirectoryFits
<1>6. CASE \/ UNCHANGED vars
           \/ \E f \in Files : OpenAgain(f) \/ Release(f)
           \/ \E f \in Files : \E start \in 0 .. node[f].size : Read(f, start)
           \/ ChunkFromCache \/ FetchChunk \/ StoreChunk \/ ReadReturns
           \/ \E f \in Files : ListForClear({f})
           \/ ListForClear(Files)
           \/ \E f \in Files, v \in Versions : PutHeader(f, v)
           \/ \E f \in Files, v \in Stored : PutObject(f, v)
           \/ \E f \in Files, c \in Chunks : Evict(f, c)
  <2>1. UNCHANGED <<node, dirSize>>
    BY <1>6 DEF vars, OpenAgain, Release, Read, ChunkFromCache, FetchChunk,
       StoreChunk, ReadReturns, ListForClear, PutHeader, PutObject, Evict
  <2>2. QED
    BY <1>1, <2>1
<1>7. QED
  BY <1>2, <1>3, <1>4, <1>5, <1>6 DEF Next

(* updateParentSizes: the size of the directory is the sum of its files'    *)
(* sizes, and no size is below zero by a tag or more, while commands are    *)
(* given when FUSE is quiet.  Nothing is said of sizes that two threads     *)
(* adjust at once: the sums of the code are then not of one step.           *)
THEOREM DirectoryAddsUp ==
  ASSUME ~Overlap
  PROVE  Spec => []SizesAddUp
<1>1. Init => DirectoryFits
  BY DEF Init, DirectoryFits
<1>2. TypesInv /\ TypesInv' /\ DirectoryFits /\ [Next]_vars => DirectoryFits'
  BY SizesStep
<1>3. TypesInv /\ DirectoryFits => SizesAddUp
  BY DEF TypesInv, TypeOK, DirectoryFits, SizesAddUp
<1>4. QED
  BY <1>1, <1>2, <1>3, TypesInductive, PTL DEF Spec
=============================================================================
