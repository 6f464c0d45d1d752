--------------------------- MODULE PayloadProofs ---------------------------
(***************************************************************************)
(* Proofs about the stream of a payload file, for every size of the file,  *)
(* of its blocks and of the inflate window, every set of damaged blocks and*)
(* every sequence of reads and seeks.                                      *)
(*                                                                         *)
(* Their one hypothesis, NoSeeksInCompressed, is what the counterexample   *)
(* of PayloadReread asks for: a compressed file is read by the callers of  *)
(* the library only, front to back.                                        *)
(***************************************************************************)
EXTENDS PayloadStream, InflateStreamProofs

NoSeeksInCompressed == ReadAnywhere \subseteq {FALSE}

\* The first position after a block.
BlockEnd(b) == BlockOffset(b) + BlockLength(b)

\* Is the call between its seek in the file's stream and the bytes it asks for?
InFile == reading # Nothing /\ reading.phase \in {"sought", "fetching"}

\* The position of the current block's RangeStream in the file.
FilePosition == BlockOffset(currentBlock) + rangePosition[currentBlock]

-----------------------------------------------------------------------------
(* The inductive invariant: what holds for every caller.                   *)

PayloadTypes ==
    /\ rangePosition \in [Block -> Nat]
    /\ cacheBuffer \in [Block -> Seq(Byte) \cup {Nothing}]
    /\ cachePosition \in [Block -> Nat]
    /\ validated \in [Block -> BOOLEAN]
    /\ relativePosition \in 0..UncompressedSize
    /\ currentBlock \in 1..(BlockCount + 1)
    /\ reading \in BlockMapCall \cup {Nothing}
    /\ lastRead \in [why : {"ok", "short", "base", "hash"}, from : Nat, want : Nat, got : Seq(Byte)]
    /\ anyCaller \in Callers
    /\ compressed \in BOOLEAN
    /\ tampered \subseteq Block

\* The streams of the blocks: positions within the block, and a block that is
\* validated is intact and has its own bytes in its cache.
BlockInv ==
    \A b \in Block :
        /\ rangePosition[b] <= BlockLength(b)
        /\ cachePosition[b] <= BlockLength(b)
        /\ validated[b] => b \notin tampered
        /\ validated[b] /\ cacheBuffer[b] # Nothing => cacheBuffer[b] = BlockBytes(b)

\* The bytes of the file from a position on, none of them of a tampered block.
IntactBytes(got, from) ==
    /\ IsBytes(got, from)
    /\ \A i \in 1..Len(got) : \A b \in tampered :
          from + i - 1 \notin BlockOffset(b)..(BlockEnd(b) - 1)

\* The call that runs, and the result of the last one.
ReadingInv ==
    /\ BlockOffset(currentBlock) <= relativePosition
    /\ ~InFile => request = Nothing
    /\ reading # Nothing =>
           /\ reading.from + Len(reading.got) = relativePosition
           /\ reading.want = Lesser(reading.asked, UncompressedSize - reading.from)
           /\ Len(reading.got) <= reading.want
           /\ IntactBytes(reading.got, reading.from)
    /\ lastRead.why = "ok" =>
           /\ Len(lastRead.got) = Lesser(lastRead.want, UncompressedSize - lastRead.from)
           /\ IntactBytes(lastRead.got, lastRead.from)

\* The block that the call reads from the file's stream.
InFileInv ==
    LET b == currentBlock
    IN  InFile =>
           /\ b \in Block
           /\ Wanted > 0
           /\ PositionInBlock < BlockLength(b)
           /\ validated[b] => rangePosition[b] = PositionInBlock /\ cacheBuffer[b] = Nothing
           /\ ~validated[b] => cachePosition[b] = PositionInBlock

\* Its read of the file's stream: at the position of the RangeStream, for the
\* bytes RangeStream::Read asks for.
FetchInv ==
    /\ InLoop("sought") => request = Nothing /\ seekPosition = FilePosition
    /\ InLoop("fetching") /\ Pending =>
           /\ request.from = FilePosition
           /\ request.want = AmountToRead(currentBlock)
           /\ ~compressed => seekPosition = request.from
    /\ InLoop("fetching") /\ ~Pending =>
           /\ result.from = FilePosition
           /\ result.want = AmountToRead(currentBlock)
           /\ result.ok => IsBytes(result.got, result.from)

FileInv ==
    /\ seekPosition <= UncompressedSize
    /\ fileCurrentPosition <= UncompressedSize

-----------------------------------------------------------------------------
(* What holds for a caller that reads front to back.                       *)

\* Such a caller stops at the first failure.
StopsInv ==
    /\ lastRead.why # "ok" => reading = Nothing /\ IntactReads
    /\ Pending => result.ok
    /\ lastRead.why = "ok" /\ ~Fetched => result.ok

\* Only the block that is being read has a cache, and no block is entered for
\* the first time but at its start.
CachesInv ==
    /\ \A b \in Block :
          cacheBuffer[b] # Nothing =>
             IF InFile THEN b = currentBlock
             ELSE validated[b] /\ BlockOffset(b) < relativePosition /\ relativePosition < BlockEnd(b)
    /\ \A b \in Block :
          ~validated[b] /\ BlockOffset(b) <= relativePosition /\ relativePosition < BlockEnd(b) =>
             relativePosition = BlockOffset(b)
    /\ InFile /\ ~validated[currentBlock] => rangePosition[currentBlock] = 0

\* The inflate stream is at the position of the next byte that will be needed of
\* it: behind the block in the cache, or at the caller's own position unless that
\* is an end of the file.
FrontierInv ==
    /\ \A b \in Block :
          cacheBuffer[b] # Nothing /\ ~InFile => fileCurrentPosition = BlockEnd(b)
    /\ ~InFile => \/ relativePosition \in {0, UncompressedSize, fileCurrentPosition}
                  \/ \E b \in Block : cacheBuffer[b] # Nothing
    /\ Fetched /\ result.ok => fileCurrentPosition = result.from + Len(result.got)

FrontReaderInv ==
    /\ StopsInv
    /\ lastRead.why = "ok" => CachesInv
    /\ compressed => FrontInv
    /\ compressed /\ lastRead.why = "ok" => FrontierInv

PayloadInv ==
    /\ PayloadTypes /\ StreamInv /\ FileInv
    /\ BlockInv /\ ReadingInv /\ InFileInv /\ FetchInv
    /\ anyCaller => ~compressed
    /\ ~anyCaller => FrontReaderInv

-----------------------------------------------------------------------------
(* The blocks of a file.                                                   *)

LEMMA Multiples ==
    ASSUME NEW m \in Int, NEW n \in Int, m <= n, NEW k \in Nat
    PROVE  /\ m * k \in Int /\ n * k \in Int /\ m * k <= n * k
           /\ (m + 1) * k = m * k + k
<1>1. (n - m) * k \in Nat
    BY SMT
<1>2. (n - m) * k = n * k - m * k
    BY SMT
<1> QED
    BY <1>1, <1>2, SMT

(***************************************************************************)
(* The blocks cover the file and each of them holds a part of it.          *)
(***************************************************************************)
LEMMA BlocksCover ==
    /\ BlockCount \in Nat \ {0}
    /\ UncompressedSize <= BlockCount * BlockMapBlockSize
    /\ (BlockCount - 1) * BlockMapBlockSize < UncompressedSize
<1> DEFINE S == BlockMapBlockSize
           U == UncompressedSize
           q == (U + S - 1) \div S
           r == (U + S - 1) % S
<1>1. S \in Nat \ {0} /\ U \in Nat \ {0}
    BY InflateAssumption, PayloadAssumption
<1>2. BlockCount = q
    BY DEF BlockCount
<1> HIDE DEF S, U
<1>3. q \in Int /\ r \in 0..(S - 1) /\ U + S - 1 = S * q + r
    BY <1>1, SMT
<1> HIDE DEF q, r
<1>4. q * S = S * q /\ (q - 1) * S = S * q - S
    BY <1>1, <1>3, SMT
<1>5. U <= q * S /\ (q - 1) * S < U
    BY <1>1, <1>3, <1>4
<1>6. q > 0
  <2> SUFFICES ASSUME q <= 0
               PROVE  FALSE
      BY <1>3
  <2>1. q * S <= 0 * S
      BY <1>1, <1>3, Multiples
  <2> QED
      BY <1>1, <1>3, <1>5, <2>1
<1> QED
    BY <1>2, <1>3, <1>5, <1>6 DEF S, U

LEMMA BlockFacts ==
    ASSUME NEW b \in Block
    PROVE  /\ b \in Nat
           /\ BlockOffset(b) \in Nat
           /\ BlockLength(b) \in Nat \ {0}
           /\ BlockEnd(b) \in Nat
           /\ BlockEnd(b) = BlockOffset(b) + BlockLength(b)
           /\ BlockEnd(b) <= UncompressedSize
           /\ BlockEnd(b) = BlockOffset(b + 1) \/ BlockEnd(b) = UncompressedSize
           /\ BlockEnd(b) <= BlockOffset(b + 1)
<1>1. /\ BlockMapBlockSize \in Nat \ {0} /\ UncompressedSize \in Nat \ {0}
      /\ BlockCount \in Nat
      /\ b \in Int /\ 0 <= b - 1 /\ b - 1 <= BlockCount - 1
    BY InflateAssumption, PayloadAssumption, BlocksCover DEF Block
<1>2. 0 * BlockMapBlockSize <= (b - 1) * BlockMapBlockSize
    BY <1>1, Multiples
<1>3. (b - 1) * BlockMapBlockSize <= (BlockCount - 1) * BlockMapBlockSize
    BY <1>1, Multiples
<1>4. (b - 1) * BlockMapBlockSize \in Int /\ (BlockCount - 1) * BlockMapBlockSize \in Int
    BY <1>1
<1>5. BlockOffset(b) \in Nat /\ BlockOffset(b) < UncompressedSize
    BY <1>1, <1>2, <1>3, <1>4, BlocksCover DEF BlockOffset
<1>6. BlockOffset(b + 1) = BlockOffset(b) + BlockMapBlockSize
    BY <1>1 DEF BlockOffset
<1> QED
    BY <1>1, <1>5, <1>6 DEF BlockEnd, BlockLength, Lesser

(***************************************************************************)
(* Blocks follow each other, and a position is in one block at most.       *)
(***************************************************************************)
LEMMA BlocksOrdered ==
    ASSUME NEW d \in Block, NEW e \in Block, d < e
    PROVE  BlockEnd(d) <= BlockOffset(e)
<1>1. d \in Nat /\ e \in Nat /\ d <= e - 1 /\ BlockMapBlockSize \in Nat
    BY BlockFacts, PayloadAssumption
<1>2. d * BlockMapBlockSize <= (e - 1) * BlockMapBlockSize
    BY <1>1, Multiples
<1>3. BlockOffset(d + 1) = d * BlockMapBlockSize
    BY <1>1 DEF BlockOffset
<1>4. BlockOffset(d + 1) \in Int
    BY <1>1, <1>3
<1> QED
    BY <1>2, <1>3, <1>4, BlockFacts DEF BlockOffset

LEMMA BlocksApart ==
    ASSUME NEW b \in Block, NEW c \in Block, NEW p \in Int,
           BlockOffset(b) <= p, p < BlockEnd(b), BlockOffset(c) <= p, p < BlockEnd(c)
    PROVE  b = c
<1>2. b \in Nat /\ c \in Nat
    BY BlockFacts
<1>3. /\ BlockOffset(b) \in Nat /\ BlockEnd(b) \in Nat
      /\ BlockOffset(c) \in Nat /\ BlockEnd(c) \in Nat
    BY BlockFacts
<1>4. ~(b < c)
    BY <1>3, BlocksOrdered
<1>5. ~(c < b)
    BY <1>3, BlocksOrdered
<1> QED
    BY <1>2, <1>4, <1>5

(***************************************************************************)
(* Behind the last block there is nothing left to read.                    *)
(***************************************************************************)
LEMMA AfterTheBlocks == BlockOffset(BlockCount + 1) \in Nat /\ UncompressedSize <= BlockOffset(BlockCount + 1)
<1>1. (BlockCount + 1) - 1 = BlockCount
    BY BlocksCover
<1>2. BlockCount * BlockMapBlockSize \in Nat
    BY BlocksCover, PayloadAssumption
<1> QED
    BY <1>1, <1>2, BlocksCover DEF BlockOffset

-----------------------------------------------------------------------------
(* The initial states.                                                     *)

LEMMA PayloadInvInit == NoSeeksInCompressed /\ PayloadInit => PayloadInv
<1> SUFFICES ASSUME NoSeeksInCompressed, PayloadInit
             PROVE  PayloadInv
    OBVIOUS
<1> USE InflateAssumption, PayloadAssumption
<1>1. InflateInit /\ anyCaller \in Callers /\ anyCaller \in BOOLEAN
    BY DEF PayloadInit, InflateInit
<1>2. StreamInv /\ FrontInv /\ ~Pending /\ result.ok
    BY <1>1, StreamInit, FrontInit DEF InflateInit, Pending
<1>3. PayloadTypes
  <2>1. 1 \in 1..(BlockCount + 1)
      BY BlocksCover
  <2>2. lastRead \in [why : {"ok", "short", "base", "hash"}, from : Nat, want : Nat, got : Seq(Byte)]
      BY EmptyBytes DEF PayloadInit
  <2> QED
      BY <1>1, <2>1, <2>2 DEF PayloadInit, PayloadTypes
<1>4. FileInv
    BY <1>1 DEF FileInv, InflateInit
<1>5. BlockInv
  <2> SUFFICES ASSUME NEW b \in Block
               PROVE  /\ rangePosition[b] <= BlockLength(b)
                      /\ cachePosition[b] <= BlockLength(b)
                      /\ ~validated[b]
      BY DEF BlockInv
  <2> QED
      BY BlockFacts DEF PayloadInit
<1>6. reading = Nothing /\ ~InFile /\ ~Fetched /\ ~InLoop("sought") /\ ~InLoop("fetching")
    BY DEF PayloadInit, InFile, Fetched, InLoop
<1>7. ReadingInv
  <2>1. BlockOffset(currentBlock) <= relativePosition
      BY DEF PayloadInit, BlockOffset
  <2>2. lastRead.want = 0 /\ lastRead.from = 0 /\ Len(lastRead.got) = 0
      BY EmptyBytes DEF PayloadInit
  <2> QED
      BY <1>2, <1>6, <2>1, <2>2 DEF ReadingInv, Pending, Lesser, IntactBytes, IsBytes
<1>8. InFileInv /\ FetchInv
    BY <1>6 DEF InFileInv, FetchInv
<1>9. lastRead.why = "ok" /\ relativePosition = 0
    BY DEF PayloadInit
<1>10. StopsInv /\ CachesInv /\ FrontierInv
  <2>1. \A b \in Block : cacheBuffer[b] = Nothing
      BY DEF PayloadInit
  <2>2. \A b \in Block : BlockOffset(b) <= relativePosition => relativePosition = BlockOffset(b)
      BY <1>9, BlockFacts
  <2> QED
      BY <1>2, <1>6, <1>9, <2>1, <2>2 DEF StopsInv, CachesInv, FrontierInv
<1>11. anyCaller => ~compressed
    BY DEF NoSeeksInCompressed, PayloadInit
<1> QED
    BY <1>2, <1>3, <1>4, <1>5, <1>7, <1>8, <1>10, <1>11 DEF PayloadInv, FrontReaderInv

-----------------------------------------------------------------------------
(* The call that runs.                                                     *)

LEMMA CallTypes ==
    ASSUME PayloadTypes, reading # Nothing
    PROVE  /\ reading \in BlockMapCall
           /\ reading.from \in Nat /\ reading.asked \in Nat /\ reading.want \in Nat
           /\ reading.got \in Seq(Byte) /\ Len(reading.got) \in Nat
           /\ reading.phase \in {"loop", "sought", "fetching"}
  BY LenProperties DEF PayloadTypes, BlockMapCall

\* A call in another phase.
LEMMA PhaseTypes ==
    ASSUME PayloadTypes, reading # Nothing, NEW phase \in {"loop", "sought", "fetching"},
           reading' = [reading EXCEPT !.phase = phase]
    PROVE  /\ reading' \in BlockMapCall /\ reading' # Nothing
           /\ reading'.from = reading.from /\ reading'.asked = reading.asked
           /\ reading'.want = reading.want /\ reading'.got = reading.got
           /\ reading'.phase = phase
<1>1. reading \in BlockMapCall
    BY CallTypes
<1>2. reading' \in BlockMapCall
    BY <1>1 DEF BlockMapCall
<1> QED
    BY <1>1, <1>2, NoCallAssumption DEF BlockMapCall

\* The block in which the loop reads.
LEMMA InBlockFacts ==
    ASSUME PayloadTypes, ReadingInv, reading # Nothing, Wanted > 0, currentBlock <= BlockCount,
           PositionInBlock < BlockLength(currentBlock)
    PROVE  /\ currentBlock \in Block
           /\ Wanted \in Nat \ {0}
           /\ PositionInBlock \in Nat
           /\ relativePosition = BlockOffset(currentBlock) + PositionInBlock
           /\ BlockOffset(currentBlock) <= relativePosition
           /\ relativePosition < BlockEnd(currentBlock)
<1>1. currentBlock \in Block
    BY BlocksCover DEF PayloadTypes, Block
<1>2. relativePosition \in Nat /\ BlockOffset(currentBlock) <= relativePosition
    BY InflateAssumption DEF PayloadTypes, ReadingInv
<1>3. PositionInBlock \in Nat /\ relativePosition = BlockOffset(currentBlock) + PositionInBlock
    BY <1>1, <1>2, BlockFacts DEF PositionInBlock
<1>4. Wanted \in Nat \ {0}
    BY CallTypes DEF Wanted
<1> QED
    BY <1>1, <1>2, <1>3, <1>4, BlockFacts

(***************************************************************************)
(* Bytes of the current block, from the caller's position on, are given to *)
(* the caller.                                                             *)
(***************************************************************************)
LEMMA Delivered ==
    ASSUME PayloadTypes, ReadingInv, reading # Nothing, currentBlock \in Block,
           currentBlock \notin tampered, UNCHANGED fileVars, request' = Nothing,
           NEW bytes \in Seq(Byte), IsBytes(bytes, relativePosition),
           Len(bytes) <= Wanted, relativePosition + Len(bytes) <= BlockEnd(currentBlock),
           Deliver(bytes)
    PROVE  /\ reading' \in BlockMapCall /\ reading' # Nothing
           /\ reading'.phase = "loop"
           /\ relativePosition' \in 0..UncompressedSize
           /\ relativePosition' = relativePosition + Len(bytes)
           /\ ReadingInv'
<1>1. /\ reading \in BlockMapCall
      /\ reading.from \in Nat /\ reading.asked \in Nat /\ reading.want \in Nat
      /\ reading.got \in Seq(Byte) /\ Len(reading.got) \in Nat
    BY CallTypes
<1>2. /\ reading.got \o bytes \in Seq(Byte)
      /\ Len(bytes) \in Nat
      /\ Len(reading.got \o bytes) = Len(reading.got) + Len(bytes)
      /\ \A i \in 1..(Len(reading.got) + Len(bytes)) :
             (reading.got \o bytes)[i] = IF i <= Len(reading.got) THEN reading.got[i]
                                                                 ELSE bytes[i - Len(reading.got)]
    BY <1>1, ConcatProperties, LenProperties
<1>3. reading' = [reading EXCEPT !.got = @ \o bytes, !.phase = "loop"]
    BY DEF Deliver
<1>4. /\ reading'.from = reading.from /\ reading'.asked = reading.asked
      /\ reading'.want = reading.want /\ reading'.got = reading.got \o bytes
      /\ reading'.phase = "loop" /\ reading' \in BlockMapCall
    BY <1>1, <1>2, <1>3 DEF BlockMapCall
<1>5. reading' # Nothing
    BY <1>4, NoCallAssumption
<1>6. /\ relativePosition \in Nat /\ relativePosition' = relativePosition + Len(bytes)
      /\ UNCHANGED <<currentBlock, lastRead>>
    BY InflateAssumption DEF PayloadTypes, Deliver
<1>7. /\ BlockOffset(currentBlock) \in Nat /\ BlockOffset(currentBlock) <= relativePosition
      /\ BlockEnd(currentBlock) \in Nat /\ BlockEnd(currentBlock) <= UncompressedSize
    BY BlockFacts DEF ReadingInv
<1>8. relativePosition' \in 0..UncompressedSize
    BY <1>2, <1>6, <1>7, InflateAssumption
<1>9. /\ reading.from + Len(reading.got) = relativePosition
      /\ reading.want = Lesser(reading.asked, UncompressedSize - reading.from)
      /\ IntactBytes(reading.got, reading.from)
    BY DEF ReadingInv
<1>9a. /\ Len(reading'.got) = Len(reading.got) + Len(bytes)
       /\ Len(bytes) <= reading.want - Len(reading.got)
       /\ Len(bytes) \in Nat /\ Len(reading.got) \in Nat
    BY <1>1, <1>2, <1>4 DEF Wanted
<1>9b. /\ reading.from \in Nat /\ reading.want \in Nat
       /\ reading'.from = reading.from /\ reading'.want = reading.want
       /\ reading.from + Len(reading.got) = relativePosition
    BY <1>1, <1>4, <1>9
<1>10. /\ reading'.from + Len(reading'.got) = relativePosition'
       /\ Len(reading'.got) <= reading'.want
  <2>1. \A f, g, b, w \in Nat : /\ f + (g + b) = (f + g) + b
                                /\ b <= w - g => g + b <= w
      OBVIOUS
  <2>2. /\ reading.from + (Len(reading.got) + Len(bytes)) = relativePosition + Len(bytes)
        /\ Len(reading.got) + Len(bytes) <= reading.want
      BY <1>9a, <1>9b, <2>1
  <2> QED
      BY <1>6, <1>9a, <1>9b, <2>2
<1>11. ASSUME NEW i \in 1..Len(reading'.got)
       PROVE  /\ reading'.got[i] = reading'.from + i - 1
              /\ \A b \in tampered : reading'.from + i - 1 \notin BlockOffset(b)..(BlockEnd(b) - 1)
  <2>1. i \in 1..(Len(reading.got) + Len(bytes))
      BY <1>2, <1>4
  <2>2. CASE i <= Len(reading.got)
    <3>1. i \in 1..Len(reading.got)
        BY <1>1, <1>2, <2>1, <2>2
    <3>2. reading'.got[i] = reading.got[i]
        BY <1>2, <1>4, <2>1, <2>2
    <3> QED
        BY <1>4, <1>9, <3>1, <3>2 DEF IntactBytes, IsBytes
  <2>3. CASE ~(i <= Len(reading.got))
    <3> DEFINE j == i - Len(reading.got)
               q == relativePosition + j - 1
    <3>1. j \in 1..Len(bytes) /\ j \in Int
        BY <1>1, <1>2, <2>1, <2>3
    <3>2. reading'.got[i] = bytes[j]
        BY <1>2, <1>4, <2>1, <2>3
    <3>3. q = reading'.from + i - 1 /\ q \in Int
      <4>1. i \in Int
          OBVIOUS
      <4>2. relativePosition \in Nat
          BY <1>6
      <4>3. Len(reading.got) \in Nat
          BY <1>9a
      <4>4. reading.from \in Nat /\ reading.from + Len(reading.got) = relativePosition
          BY <1>9b
      <4>5. q = reading.from + i - 1 /\ q \in Int
        <5>1. \A f, l, k \in Int : (f + l) + (k - l) - 1 = f + k - 1 /\ f + k - 1 \in Int
            OBVIOUS
        <5>2. (reading.from + Len(reading.got)) + (i - Len(reading.got)) - 1 = reading.from + i - 1
            BY <4>1, <4>3, <4>4, <5>1
        <5>3. q = (reading.from + Len(reading.got)) + (i - Len(reading.got)) - 1
            BY <4>4
        <5>4. reading.from + i - 1 \in Int
            BY <4>1, <4>4
        <5> HIDE DEF q
        <5> QED
            BY <5>2, <5>3, <5>4
      <4> QED
          BY <1>9b, <4>5
    <3>4. BlockOffset(currentBlock) <= q /\ q < BlockEnd(currentBlock)
      <4>1. \A p, k, l, o, e \in Int : 1 <= k /\ k <= l /\ o <= p /\ p + l <= e
                                       => o <= p + k - 1 /\ p + k - 1 < e
          OBVIOUS
      <4>2. relativePosition + Len(bytes) <= BlockEnd(currentBlock)
          OBVIOUS
      <4> HIDE DEF j
      <4> QED
          BY <1>2, <1>6, <1>7, <3>1, <4>1, <4>2
    <3> HIDE DEF j
    <3>5. bytes[j] = q
        BY <3>1 DEF IsBytes
    <3> HIDE DEF q
    <3>6. ASSUME NEW b \in tampered, q \in BlockOffset(b)..(BlockEnd(b) - 1)
          PROVE  FALSE
      <4>1. b \in Block /\ BlockOffset(b) \in Nat /\ BlockEnd(b) \in Nat
          BY BlockFacts DEF PayloadTypes
      <4>2. BlockOffset(b) <= q /\ q < BlockEnd(b)
          BY <3>3, <3>6, <4>1
      <4> QED
          BY <3>3, <3>4, <4>1, <4>2, BlocksApart
    <3> QED
        BY <3>2, <3>3, <3>5, <3>6
  <2> QED
      BY <2>2, <2>3
<1>12. IntactBytes(reading.got, reading.from)'
    BY <1>11 DEF IntactBytes, IsBytes, fileVars
<1>13. IntactBytes(lastRead.got, lastRead.from) => IntactBytes(lastRead.got, lastRead.from)'
    BY <1>6 DEF IntactBytes, IsBytes, fileVars
<1>14. BlockOffset(currentBlock') <= relativePosition'
    BY <1>2, <1>6, <1>7
<1> QED
    BY <1>4, <1>5, <1>6, <1>8, <1>9, <1>10, <1>12, <1>13, <1>14 DEF ReadingInv

-----------------------------------------------------------------------------
(* Steps of the file's own stream.                                         *)

\* A stored file is read at once.
LEMMA StoredReads ==
    ASSUME StreamInv, FileInv, StoredRead
    PROVE  /\ StreamInv' /\ FileInv'
           /\ ~Pending' /\ result'.ok
           /\ result'.from = request.from /\ result'.want = request.want
           /\ IsBytes(result'.got, seekPosition)
<1> USE InflateAssumption
<1> DEFINE n == Lesser(request.want, UncompressedSize - seekPosition)
           got == [i \in 1..n |-> seekPosition + i - 1]
<1>1. /\ result' = [ok |-> TRUE, from |-> request.from, want |-> request.want, got |-> got]
      /\ seekPosition' = seekPosition + n
      /\ request' = Nothing /\ Pending
      /\ UNCHANGED <<inflateState, fileCurrentPosition, windowVars, zlibVars>>
    BY DEF StoredRead, Pending
<1>2. request \in ReadCall /\ request.from \in Nat /\ request.want \in Nat
    BY <1>1 DEF StreamInv, StreamTypes, Pending, ReadCall
<1>3. seekPosition \in Nat /\ seekPosition <= UncompressedSize
    BY DEF StreamInv, StreamTypes, FileInv
<1>4. n \in Nat /\ seekPosition + n <= UncompressedSize
    BY <1>2, <1>3 DEF Lesser
<1> HIDE DEF n
<1>5. got \in [1..n -> Byte]
    BY <1>3, <1>4 DEF Byte
<1>6. /\ got \in Seq(Byte) /\ Len(got) = n
      /\ \A i \in 1..n : got[i] = seekPosition + i - 1
  <2>1. got \in Seq(Byte)
      BY <1>4, <1>5, SeqDef
  <2>2. Len(got) = n
      BY <1>4, <1>5, <2>1, LenProperties
  <2> QED
      BY <2>1, <2>2
<1> HIDE DEF got
<1>7. /\ result'.ok /\ result'.from = request.from /\ result'.want = request.want
      /\ result'.got = got
      /\ result' \in [ok : BOOLEAN, from : Nat, want : Nat, got : Seq(Byte)]
    BY <1>1, <1>2, <1>6
<1>8. seekPosition' \in Nat /\ seekPosition' <= UncompressedSize /\ seekPosition <= seekPosition'
    BY <1>1, <1>3, <1>4
<1>9. StreamTypes'
    BY <1>1, <1>7, <1>8 DEF StreamInv, StreamTypes, windowVars, zlibVars
<1>10. WindowInv'
    BY <1>1 DEF StreamInv, WindowInv, Running, Copying, windowVars, zlibVars
<1>11. PositionInv'
  <2>1. fileCurrentPosition' <= seekPosition'
      BY <1>1, <1>3, <1>8 DEF StreamInv, StreamTypes, PositionInv
  <2> QED
      BY <1>1, <2>1 DEF StreamInv, PositionInv, Running, Copying, Fetching, Pending,
                        WindowStart, windowVars, zlibVars
<1>12. FileInv'
    BY <1>1, <1>8 DEF FileInv
<1> QED
    BY <1>1, <1>6, <1>7, <1>9, <1>10, <1>11, <1>12 DEF StreamInv, Pending, IsBytes

\* A read that fails leaves the positions in the file, or goes back to its start.
LEMMA FileFails ==
    ASSUME StreamInv, FileInv, HandlerFails \/ StoredReadFails
    PROVE  /\ StreamInv' /\ FileInv'
           /\ ~Pending' /\ ~result'.ok
           /\ result'.from = request.from /\ result'.want = request.want
<1>1. Pending /\ ReadFails
    BY DEF HandlerFails, UninitializedFails, ReadyToReadFails, ReadyToInflateFails,
           StoredReadFails, Pending
<1>2. /\ request' = Nothing /\ ~result'.ok
      /\ result' \in [ok : BOOLEAN, from : Nat, want : Nat, got : Seq(Byte)]
      /\ result'.from = request.from /\ result'.want = request.want
    BY <1>1, ReadFailsTypes DEF StreamInv
<1>3. StreamInv'
  <2>1. CASE HandlerFails
      BY <2>1, StreamFails
  <2>2. CASE StoredReadFails
    <3>1. UNCHANGED <<inflateState, seekPosition, fileCurrentPosition, windowVars, zlibVars>>
        BY <2>2 DEF StoredReadFails
    <3>2. StreamTypes'
        BY <1>2, <3>1 DEF StreamInv, StreamTypes, windowVars, zlibVars
    <3> QED
        BY <1>2, <3>1, <3>2 DEF StreamInv, WindowInv, PositionInv, Running, Copying, Fetching,
                                Pending, WindowStart, windowVars, zlibVars
  <2> QED
      BY <2>1, <2>2
<1>4. FileInv'
    BY InflateAssumption
       DEF HandlerFails, UninitializedFails, ReadyToReadFails, ReadyToInflateFails,
           StoredReadFails, FileInv
<1> QED
    BY <1>2, <1>3, <1>4 DEF Pending

LEMMA PayloadFileStream ==
    ASSUME PayloadInv, FileStream, UNCHANGED <<anyCaller, fileVars>>
    PROVE  PayloadInv'
<1> USE InflateAssumption
<1>1. /\ PayloadTypes /\ StreamInv /\ FileInv /\ BlockInv /\ ReadingInv /\ InFileInv
      /\ FetchInv /\ (anyCaller => ~compressed) /\ (~anyCaller => FrontReaderInv)
    BY DEF PayloadInv
<1>2. /\ UNCHANGED <<rangePosition, cacheBuffer, cachePosition, validated>>
      /\ UNCHANGED <<relativePosition, currentBlock, reading, lastRead>>
      /\ UNCHANGED <<anyCaller, compressed, tampered>>
    BY DEF FileStream, blockVars, hashVars, fileVars
<1>3. Pending
    BY DEF FileStream, Handler, Uninitialized, ReadyToRead, ReadyToInflate, SkipWindow,
           FetchWindow, CopyWindow, HandlerFails, UninitializedFails, ReadyToReadFails,
           ReadyToInflateFails, StoredRead, StoredReadFails, Pending
<1>4. /\ InFile /\ InLoop("fetching") /\ InFile' /\ InLoop("fetching")'
      /\ ~InLoop("sought")' /\ reading # Nothing
      /\ Fetched' <=> ~Pending'
    BY <1>1, <1>2, <1>3 DEF ReadingInv, FetchInv, Pending, InFile, InLoop, Fetched
<1>5. FilePosition' = FilePosition /\ AmountToRead(currentBlock)' = AmountToRead(currentBlock)
    BY <1>2 DEF FilePosition, AmountToRead, Wanted
<1>6. PayloadTypes' /\ BlockInv' /\ InFileInv'
  <2>1. PayloadTypes'
      BY <1>1, <1>2 DEF PayloadTypes
  <2>2. BlockInv'
      BY <1>1, <1>2 DEF BlockInv
  <2>3. InFileInv'
      BY <1>1, <1>2, <1>4 DEF InFileInv, Wanted, PositionInBlock
  <2> QED
      BY <2>1, <2>2, <2>3
<1>7. ReadingInv'
    BY <1>1, <1>2, <1>4 DEF ReadingInv, IntactBytes, IsBytes
\* The step, seen from the block streams.
<1>8. /\ StreamInv' /\ FileInv'
      /\ compressed => (~anyCaller => FrontInv')
      /\ Pending' => /\ request'.from = request.from /\ request'.want = request.want
                     /\ compressed /\ result' = result
      /\ ~Pending' => /\ result'.from = request.from /\ result'.want = request.want
                      /\ result'.ok => IsBytes(result'.got, result'.from)
                      /\ compressed /\ result'.ok =>
                            fileCurrentPosition' = result'.from + Len(result'.got)
  <2>1. CASE compressed /\ Handler
    <3>1. FrontInv /\ result.ok
        BY <1>1, <1>3, <2>1 DEF FrontReaderInv, StopsInv
    <3>2. FrontInv' /\ CallStep
        BY <1>1, <2>1, <3>1, FrontHandler
    <3>3. StreamInv'
        BY <1>1, <2>1, StreamHandler
    <3>4. result'.ok
        BY <3>1, <3>2 DEF CallStep
    <3>5. Positions' /\ ResultInv'
        BY <3>2, <3>4 DEF FrontInv
    <3>6. FileInv'
        BY <3>5 DEF FileInv, Positions
    <3> QED
        BY <2>1, <3>2, <3>3, <3>5, <3>6 DEF CallStep, ResultInv
  <2>2. CASE HandlerFails \/ StoredReadFails
      BY <1>1, <2>2, FileFails DEF FrontInv
  <2>3. CASE StoredRead
    <3>1. seekPosition = request.from /\ ~compressed
        BY <1>1, <1>3, <1>4, <2>3 DEF FetchInv, StoredRead
    <3> QED
        BY <1>1, <2>3, <3>1, StoredReads
  <2> QED
      BY <2>1, <2>2, <2>3 DEF FileStream
<1>9. FetchInv'
    BY <1>1, <1>2, <1>3, <1>4, <1>5, <1>8 DEF FetchInv
<1>10. ASSUME ~anyCaller
       PROVE  FrontReaderInv'
  <2>1. StopsInv /\ CachesInv /\ lastRead.why = "ok" /\ result.ok
      BY <1>1, <1>3, <1>4, <1>10 DEF FrontReaderInv, StopsInv
  <2>2. StopsInv'
      BY <1>2, <1>4, <1>8, <2>1 DEF StopsInv
  <2>3. CachesInv'
      BY <1>2, <1>4, <2>1 DEF CachesInv
  <2>4. compressed => FrontierInv'
      BY <1>4, <1>8 DEF FrontierInv
  <2> QED
      BY <1>2, <1>8, <1>10, <2>2, <2>3, <2>4 DEF FrontReaderInv
<1> QED
    BY <1>1, <1>2, <1>6, <1>7, <1>8, <1>9, <1>10 DEF PayloadInv

-----------------------------------------------------------------------------
(* Steps that do not touch the file's stream.                              *)

LEMMA InflateSame ==
    ASSUME UNCHANGED inflateVars
    PROVE  /\ StreamInv => StreamInv'
           /\ FrontInv => FrontInv'
           /\ FileInv => FileInv'
           /\ Pending' <=> Pending
           /\ UNCHANGED <<request, result, seekPosition, fileCurrentPosition>>
<1>1. StreamInv => StreamInv'
    BY DEF inflateVars, StreamInv, StreamTypes, WindowInv, PositionInv, Running, Copying,
           Fetching, Pending, WindowStart
<1>2. FrontInv => FrontInv'
    BY DEF inflateVars, FrontInv, Positions, CallInv, ResultInv, Running, Copying, Fetching,
           Pending, WindowStart, IsBytes
<1> QED
    BY <1>1, <1>2 DEF inflateVars, FileInv, Pending

LEMMA PayloadSeek ==
    ASSUME PayloadInv, NEW target \in SeekTargets, BlockMapSeek(target),
           anyCaller \/ lastRead.why = "ok", UNCHANGED <<anyCaller, fileVars>>
    PROVE  PayloadInv'
<1> USE InflateAssumption
<1>1. /\ PayloadTypes /\ StreamInv /\ FileInv /\ BlockInv /\ ReadingInv /\ InFileInv
      /\ FetchInv /\ (anyCaller => ~compressed) /\ (~anyCaller => FrontReaderInv)
    BY DEF PayloadInv
<1>2. /\ UNCHANGED inflateVars
      /\ UNCHANGED <<rangePosition, cacheBuffer, cachePosition, validated, reading, lastRead>>
      /\ UNCHANGED <<anyCaller, compressed, tampered>>
      /\ reading = Nothing /\ reading' = Nothing /\ currentBlock' = 1
    BY DEF BlockMapSeek, hashVars, fileVars, Idle
<1>3. target \in 0..UncompressedSize /\ relativePosition' = target
    BY DEF SeekTargets, BlockMapSeek, Lesser
<1>4. /\ StreamInv' /\ FileInv' /\ (FrontInv => FrontInv') /\ (Pending' <=> Pending)
      /\ UNCHANGED <<request, result, seekPosition, fileCurrentPosition>>
    BY <1>1, <1>2, InflateSame
<1>5. /\ ~InFile /\ ~InFile' /\ ~Fetched' /\ ~Fetched
      /\ ~InLoop("sought")' /\ ~InLoop("fetching")'
    BY <1>2 DEF InFile, Fetched, InLoop
<1>6. PayloadTypes'
    BY <1>1, <1>2, <1>3, BlocksCover DEF PayloadTypes
<1>7. BlockInv' /\ InFileInv' /\ FetchInv'
    BY <1>1, <1>2, <1>5 DEF BlockInv, InFileInv, FetchInv
<1>8. ReadingInv'
  <2>1. BlockOffset(1) = 0
      BY PayloadAssumption DEF BlockOffset
  <2> QED
      BY <1>1, <1>2, <1>3, <1>4, <1>5, <2>1 DEF ReadingInv, IntactBytes, IsBytes
<1>9. ASSUME ~anyCaller
      PROVE  FrontReaderInv'
  <2>1. /\ StopsInv /\ CachesInv /\ lastRead.why = "ok"
        /\ compressed => FrontInv /\ FrontierInv
      BY <1>1, <1>9 DEF FrontReaderInv
  <2>2. relativePosition \in {0, UncompressedSize} /\ target \in {0, UncompressedSize}
      BY <1>9 DEF SeekTargets
  <2>3. ASSUME NEW b \in Block
        PROVE  cacheBuffer[b] = Nothing
    <3>1. BlockOffset(b) \in Nat /\ BlockEnd(b) \in Nat /\ BlockEnd(b) <= UncompressedSize
        BY BlockFacts
    <3>2. ~(BlockOffset(b) < relativePosition /\ relativePosition < BlockEnd(b))
        BY <2>2, <3>1
    <3> QED
        BY <1>5, <2>1, <3>2 DEF CachesInv
  <2>4. ASSUME NEW b \in Block, BlockOffset(b) <= target, target < BlockEnd(b)
        PROVE  target = BlockOffset(b)
    <3>1. BlockOffset(b) \in Nat /\ BlockEnd(b) \in Nat /\ BlockEnd(b) <= UncompressedSize
        BY BlockFacts
    <3> QED
        BY <2>2, <2>4, <3>1
  <2>5. StopsInv'
      BY <1>2, <1>4, <1>5, <2>1 DEF StopsInv
  <2>6. CachesInv'
      BY <1>2, <1>3, <1>5, <2>3, <2>4 DEF CachesInv
  <2>7. FrontierInv'
      BY <1>2, <1>3, <1>5, <2>2, <2>3 DEF FrontierInv
  <2> QED
      BY <1>2, <1>4, <2>1, <2>5, <2>6, <2>7 DEF FrontReaderInv
<1> QED
    BY <1>1, <1>2, <1>4, <1>6, <1>7, <1>8, <1>9 DEF PayloadInv

LEMMA PayloadRead ==
    ASSUME PayloadInv, NEW countBytes \in Nat, BlockMapRead(countBytes),
           anyCaller \/ lastRead.why = "ok", UNCHANGED <<anyCaller, fileVars>>
    PROVE  PayloadInv'
<1> USE InflateAssumption
<1> DEFINE want == Lesser(countBytes, UncompressedSize - relativePosition)
           call == [from |-> relativePosition, asked |-> countBytes, got |-> <<>>,
                    want |-> want, phase |-> "loop"]
<1>1. /\ PayloadTypes /\ StreamInv /\ FileInv /\ BlockInv /\ ReadingInv /\ InFileInv
      /\ FetchInv /\ (anyCaller => ~compressed) /\ (~anyCaller => FrontReaderInv)
    BY DEF PayloadInv
<1>2. /\ UNCHANGED inflateVars
      /\ UNCHANGED <<rangePosition, cacheBuffer, cachePosition, validated, lastRead>>
      /\ UNCHANGED <<relativePosition, currentBlock, anyCaller, compressed, tampered>>
      /\ reading = Nothing /\ reading' = call
    BY DEF BlockMapRead, hashVars, fileVars, Idle
<1>3. relativePosition \in Nat /\ relativePosition <= UncompressedSize
    BY <1>1 DEF PayloadTypes
<1>4. want \in Nat
    BY <1>3 DEF Lesser
<1>5. /\ reading'.from = relativePosition /\ reading'.asked = countBytes
      /\ reading'.got = <<>> /\ reading'.want = want /\ reading'.phase = "loop"
    BY <1>2
<1>6. reading' \in BlockMapCall
    BY <1>2, <1>3, <1>4, EmptyBytes DEF BlockMapCall
<1>7. /\ StreamInv' /\ FileInv' /\ (FrontInv => FrontInv') /\ (Pending' <=> Pending)
      /\ UNCHANGED <<request, result, seekPosition, fileCurrentPosition>>
    BY <1>1, <1>2, InflateSame
<1>8. /\ ~InFile /\ ~InFile' /\ ~Fetched' /\ ~Fetched
      /\ ~InLoop("sought")' /\ ~InLoop("fetching")'
    BY <1>2, <1>5 DEF InFile, Fetched, InLoop
<1>9. PayloadTypes'
    BY <1>1, <1>2, <1>6 DEF PayloadTypes
<1>10. BlockInv' /\ InFileInv' /\ FetchInv'
    BY <1>1, <1>2, <1>8 DEF BlockInv, InFileInv, FetchInv
<1>11. ReadingInv'
  <2>1. Len(reading'.got) = 0 /\ IntactBytes(reading.got, reading.from)'
      BY <1>5, EmptyBytes DEF IntactBytes, IsBytes
  <2>2. /\ reading'.from + Len(reading'.got) = relativePosition'
        /\ reading'.want = Lesser(reading'.asked, UncompressedSize - reading'.from)
        /\ Len(reading'.got) <= reading'.want
      BY <1>2, <1>3, <1>4, <1>5, <2>1
  <2>3. /\ BlockOffset(currentBlock') <= relativePosition' /\ request' = Nothing
        /\ lastRead.why = "ok" =>
             /\ Len(lastRead.got) = Lesser(lastRead.want, UncompressedSize - lastRead.from)
             /\ IntactBytes(lastRead.got, lastRead.from)
      BY <1>1, <1>2, <1>7, <1>8 DEF ReadingInv
  <2>4. IntactBytes(lastRead.got, lastRead.from) => IntactBytes(lastRead.got, lastRead.from)'
      BY <1>2 DEF IntactBytes, IsBytes
  <2> QED
      BY <1>2, <1>7, <2>1, <2>2, <2>3, <2>4 DEF ReadingInv
<1>12. ASSUME ~anyCaller
       PROVE  FrontReaderInv'
  <2>1. /\ StopsInv /\ CachesInv /\ lastRead.why = "ok"
        /\ compressed => FrontInv /\ FrontierInv
      BY <1>1, <1>12 DEF FrontReaderInv
  <2>2. StopsInv'
      BY <1>2, <1>7, <1>8, <2>1 DEF StopsInv
  <2>3. CachesInv'
      BY <1>2, <1>8, <2>1 DEF CachesInv
  <2>4. compressed => FrontierInv'
      BY <1>2, <1>7, <1>8, <2>1 DEF FrontierInv
  <2> QED
      BY <1>2, <1>7, <2>1, <2>2, <2>3, <2>4 DEF FrontReaderInv
<1> QED
    BY <1>1, <1>2, <1>7, <1>9, <1>10, <1>11, <1>12 DEF PayloadInv

LEMMA Returned ==
    ASSUME PayloadTypes, reading # Nothing, NEW why \in {"ok", "short", "base", "hash"},
           Return(why, reading.got)
    PROVE  /\ reading' = Nothing
           /\ lastRead' \in [why : {"ok", "short", "base", "hash"}, from : Nat, want : Nat,
                             got : Seq(Byte)]
           /\ lastRead'.why = why /\ lastRead'.from = reading.from
           /\ lastRead'.want = reading.asked /\ lastRead'.got = reading.got
  BY CallTypes DEF Return

\* The call ends, all it was asked for read, or all there is.
LEMMA PayloadEndRead ==
    ASSUME PayloadInv, EndRead, UNCHANGED <<anyCaller, fileVars>>
    PROVE  PayloadInv'
<1> USE InflateAssumption
<1>1. /\ PayloadTypes /\ StreamInv /\ FileInv /\ BlockInv /\ ReadingInv /\ InFileInv
      /\ FetchInv /\ (anyCaller => ~compressed) /\ (~anyCaller => FrontReaderInv)
    BY DEF PayloadInv
<1>2. /\ UNCHANGED inflateVars
      /\ UNCHANGED <<rangePosition, cacheBuffer, cachePosition, validated>>
      /\ UNCHANGED <<relativePosition, currentBlock, anyCaller, compressed, tampered>>
      /\ reading # Nothing /\ reading.phase = "loop"
      /\ Return("ok", reading.got)
    BY DEF EndRead, InLoop, hashVars, fileVars
<1>3. /\ reading' = Nothing
      /\ lastRead' \in [why : {"ok", "short", "base", "hash"}, from : Nat, want : Nat,
                        got : Seq(Byte)]
      /\ lastRead'.why = "ok" /\ lastRead'.from = reading.from
      /\ lastRead'.want = reading.asked /\ lastRead'.got = reading.got
    BY <1>1, <1>2, Returned
<1>4. /\ StreamInv' /\ FileInv' /\ (FrontInv => FrontInv') /\ (Pending' <=> Pending)
      /\ UNCHANGED <<request, result, seekPosition, fileCurrentPosition>>
    BY <1>1, <1>2, InflateSame
<1>5. /\ ~InFile /\ ~InFile' /\ ~Fetched' /\ ~Fetched
      /\ ~InLoop("sought")' /\ ~InLoop("fetching")'
    BY <1>2, <1>3 DEF InFile, Fetched, InLoop
<1>6. PayloadTypes'
    BY <1>1, <1>2, <1>3 DEF PayloadTypes
<1>7. BlockInv' /\ InFileInv' /\ FetchInv'
    BY <1>1, <1>2, <1>5 DEF BlockInv, InFileInv, FetchInv
<1>8. Len(reading.got) = Lesser(reading.asked, UncompressedSize - reading.from)
  <2>1. /\ reading.from \in Nat /\ reading.asked \in Nat /\ reading.want \in Nat
        /\ Len(reading.got) \in Nat
      BY <1>1, <1>2, CallTypes
  <2>2. /\ reading.from + Len(reading.got) = relativePosition
        /\ reading.want = Lesser(reading.asked, UncompressedSize - reading.from)
        /\ Len(reading.got) <= reading.want
      BY <1>1, <1>2 DEF ReadingInv
  <2>3. CASE Wanted = 0
      BY <2>1, <2>2, <2>3 DEF Wanted
  <2>4. CASE currentBlock > BlockCount
    <3>1. currentBlock = BlockCount + 1
        BY <1>1, <2>4, BlocksCover DEF PayloadTypes
    <3>2. UncompressedSize <= relativePosition /\ relativePosition \in Nat
        BY <1>1, <3>1, AfterTheBlocks DEF ReadingInv, PayloadTypes
    <3> QED
        BY <2>1, <2>2, <3>2 DEF Lesser
  <2> QED
      BY <2>3, <2>4 DEF EndRead
<1>9. ReadingInv'
  <2>1. IntactBytes(lastRead.got, lastRead.from)'
      BY <1>1, <1>2, <1>3 DEF ReadingInv, IntactBytes, IsBytes
  <2> QED
      BY <1>1, <1>2, <1>3, <1>4, <1>5, <1>8, <2>1 DEF ReadingInv
<1>10. ASSUME ~anyCaller
       PROVE  FrontReaderInv'
  <2>1. /\ StopsInv /\ CachesInv /\ lastRead.why = "ok"
        /\ compressed => FrontInv /\ FrontierInv
      BY <1>1, <1>2, <1>10 DEF FrontReaderInv, StopsInv
  <2>2. StopsInv'
      BY <1>3, <1>4, <1>5, <2>1 DEF StopsInv
  <2>3. CachesInv'
      BY <1>2, <1>5, <2>1 DEF CachesInv
  <2>4. compressed => FrontierInv'
      BY <1>2, <1>4, <1>5, <2>1 DEF FrontierInv
  <2> QED
      BY <1>2, <1>4, <2>1, <2>2, <2>3, <2>4 DEF FrontReaderInv
<1> QED
    BY <1>1, <1>2, <1>4, <1>6, <1>7, <1>9, <1>10 DEF PayloadInv

\* The loop goes on to the next block.
LEMMA PayloadNextBlock ==
    ASSUME PayloadInv, NextBlockStream, UNCHANGED <<anyCaller, fileVars>>
    PROVE  PayloadInv'
<1> USE InflateAssumption
<1>1. /\ PayloadTypes /\ StreamInv /\ FileInv /\ BlockInv /\ ReadingInv /\ InFileInv
      /\ FetchInv /\ (anyCaller => ~compressed) /\ (~anyCaller => FrontReaderInv)
    BY DEF PayloadInv
<1>2. /\ UNCHANGED inflateVars
      /\ UNCHANGED <<rangePosition, cacheBuffer, cachePosition, validated, reading, lastRead>>
      /\ UNCHANGED <<relativePosition, anyCaller, compressed, tampered>>
      /\ reading # Nothing /\ reading.phase = "loop"
      /\ currentBlock <= BlockCount /\ currentBlock' = currentBlock + 1
      /\ PositionInBlock >= BlockLength(currentBlock) /\ Wanted > 0
    BY DEF NextBlockStream, InLoop, hashVars, fileVars
<1>3. /\ StreamInv' /\ FileInv' /\ (FrontInv => FrontInv') /\ (Pending' <=> Pending)
      /\ UNCHANGED <<request, result, seekPosition, fileCurrentPosition>>
    BY <1>1, <1>2, InflateSame
<1>4. /\ ~InFile /\ ~InFile' /\ ~Fetched' /\ ~Fetched
      /\ ~InLoop("sought")' /\ ~InLoop("fetching")'
    BY <1>2 DEF InFile, Fetched, InLoop
<1>5. PayloadTypes'
  <2>1. currentBlock' \in 1..(BlockCount + 1)
      BY <1>1, <1>2, BlocksCover DEF PayloadTypes
  <2> QED
      BY <1>1, <1>2, <2>1 DEF PayloadTypes
<1>6. BlockInv' /\ InFileInv' /\ FetchInv'
    BY <1>1, <1>2, <1>4 DEF BlockInv, InFileInv, FetchInv
<1>7. BlockOffset(currentBlock') <= relativePosition'
  <2>1. currentBlock \in Block
      BY <1>1, <1>2, BlocksCover DEF PayloadTypes, Block
  <2>2. /\ BlockOffset(currentBlock) \in Nat /\ BlockLength(currentBlock) \in Nat
        /\ relativePosition \in Nat /\ relativePosition <= UncompressedSize
      BY <1>1, <2>1, BlockFacts DEF PayloadTypes
  <2>3. BlockEnd(currentBlock) <= relativePosition
      BY <1>2, <2>2 DEF PositionInBlock, BlockEnd
  <2>4. CASE BlockEnd(currentBlock) = BlockOffset(currentBlock + 1)
      BY <1>2, <2>3, <2>4
  <2>5. CASE BlockEnd(currentBlock) = UncompressedSize
    <3>1. relativePosition = UncompressedSize
        BY <2>2, <2>3, <2>5
    <3>2. /\ reading.from + Len(reading.got) = relativePosition
          /\ reading.want = Lesser(reading.asked, UncompressedSize - reading.from)
        BY <1>1, <1>2 DEF ReadingInv
    <3>3. /\ reading.from \in Nat /\ reading.asked \in Nat /\ reading.want \in Nat
          /\ Len(reading.got) \in Nat
        BY <1>1, <1>2, CallTypes
    <3>4. reading.want > Len(reading.got)
        BY <1>2, <3>3 DEF Wanted
    <3>5. FALSE
        BY <3>1, <3>2, <3>3, <3>4 DEF Lesser
    <3> QED
        BY <3>5
  <2> QED
      BY <2>1, <2>4, <2>5, BlockFacts
<1>8. ReadingInv'
    BY <1>1, <1>2, <1>3, <1>4, <1>7 DEF ReadingInv, IntactBytes, IsBytes
<1>9. ASSUME ~anyCaller
      PROVE  FrontReaderInv'
  <2>1. /\ StopsInv /\ CachesInv /\ lastRead.why = "ok"
        /\ compressed => FrontInv /\ FrontierInv
      BY <1>1, <1>2, <1>9 DEF FrontReaderInv, StopsInv
  <2>2. StopsInv'
      BY <1>2, <1>3, <1>4, <2>1 DEF StopsInv
  <2>3. CachesInv'
      BY <1>2, <1>4, <2>1 DEF CachesInv
  <2>4. compressed => FrontierInv'
      BY <1>2, <1>3, <1>4, <2>1 DEF FrontierInv
  <2> QED
      BY <1>2, <1>3, <2>1, <2>2, <2>3, <2>4 DEF FrontReaderInv
<1> QED
    BY <1>1, <1>2, <1>3, <1>5, <1>6, <1>8, <1>9 DEF PayloadInv

\* The call fails.
LEMMA PayloadFails ==
    ASSUME PayloadInv, UNCHANGED <<anyCaller, fileVars>>, reading # Nothing, ~Pending,
           NEW why \in {"short", "base", "hash"}, Return(why, reading.got),
           UNCHANGED <<inflateVars, hashVars, relativePosition, currentBlock>>,
           rangePosition' \in [Block -> Nat],
           \A b \in Block : rangePosition'[b] <= BlockLength(b),
           ~anyCaller => why = "base" \/ (why = "hash" /\ currentBlock \in tampered)
    PROVE  PayloadInv'
<1> USE InflateAssumption
<1>1. /\ PayloadTypes /\ StreamInv /\ FileInv /\ BlockInv /\ ReadingInv
      /\ (anyCaller => ~compressed) /\ (~anyCaller => FrontReaderInv)
    BY DEF PayloadInv
<1>2. /\ UNCHANGED <<cacheBuffer, cachePosition, validated>>
      /\ UNCHANGED <<relativePosition, currentBlock, anyCaller, compressed, tampered>>
    BY DEF hashVars, fileVars
<1>3. /\ reading' = Nothing
      /\ lastRead' \in [why : {"ok", "short", "base", "hash"}, from : Nat, want : Nat,
                        got : Seq(Byte)]
      /\ lastRead'.why = why
    BY <1>1, Returned
<1>4. /\ StreamInv' /\ FileInv' /\ (FrontInv => FrontInv') /\ (Pending' <=> Pending)
    BY <1>1, InflateSame
<1>5. ~InFile' /\ ~InLoop("sought")' /\ ~InLoop("fetching")'
    BY <1>3 DEF InFile, InLoop
<1>6. PayloadTypes'
    BY <1>1, <1>2, <1>3 DEF PayloadTypes
<1>7. BlockInv' /\ InFileInv' /\ FetchInv'
    BY <1>1, <1>2, <1>5 DEF BlockInv, InFileInv, FetchInv
<1>8. ReadingInv'
    BY <1>1, <1>2, <1>3, <1>4 DEF ReadingInv, Pending
<1>9. ASSUME ~anyCaller
      PROVE  FrontReaderInv'
    BY <1>1, <1>2, <1>3, <1>4, <1>9 DEF FrontReaderInv, StopsInv, IntactReads
<1> QED
    BY <1>1, <1>2, <1>4, <1>6, <1>7, <1>8, <1>9 DEF PayloadInv

-----------------------------------------------------------------------------
(* Reading a block from the file's stream.                                 *)

\* The block that the call has entered.
LEMMA InFileFacts ==
    ASSUME PayloadTypes, ReadingInv, InFileInv, BlockInv, InFile
    PROVE  LET b == currentBlock
           IN  /\ b \in Block
               /\ Wanted \in Nat \ {0}
               /\ PositionInBlock \in Nat /\ PositionInBlock < BlockLength(b)
               /\ relativePosition = BlockOffset(b) + PositionInBlock
               /\ rangePosition[b] \in Nat /\ rangePosition[b] <= BlockLength(b)
               /\ AmountToRead(b) \in Nat
               /\ AmountToRead(b) <= BlockLength(b) - rangePosition[b]
               /\ validated[b] => AmountToRead(b) <= Wanted
               /\ AmountToRead(b) = 0 => rangePosition[b] = BlockLength(b)
               /\ ~validated[b] /\ rangePosition[b] = 0 => AmountToRead(b) = BlockLength(b)
<1> DEFINE b == currentBlock
<1>1. /\ b \in Block /\ Wanted > 0 /\ PositionInBlock < BlockLength(b) /\ reading # Nothing
    BY DEF InFileInv, InFile
<1>2. currentBlock <= BlockCount
    BY <1>1, BlocksCover DEF Block
<1>3. /\ Wanted \in Nat \ {0} /\ PositionInBlock \in Nat
      /\ relativePosition = BlockOffset(b) + PositionInBlock
    BY <1>1, <1>2, InBlockFacts
<1>4. rangePosition[b] \in Nat /\ rangePosition[b] <= BlockLength(b)
    BY <1>1 DEF PayloadTypes, BlockInv
<1>5. BlockLength(b) \in Nat \ {0}
    BY <1>1, BlockFacts
<1>6. /\ AmountToRead(b) \in Nat
      /\ AmountToRead(b) <= BlockLength(b) - rangePosition[b]
      /\ validated[b] => AmountToRead(b) <= Wanted
      /\ AmountToRead(b) = 0 => rangePosition[b] = BlockLength(b)
      /\ ~validated[b] /\ rangePosition[b] = 0 => AmountToRead(b) = BlockLength(b)
    BY <1>3, <1>4, <1>5 DEF AmountToRead, Lesser
<1> QED
    BY <1>1, <1>3, <1>4, <1>6

\* HashStream::Seek and RangeStream's seek of the file's stream.
LEMMA PayloadEnterBlock ==
    ASSUME PayloadInv, EnterBlock, UNCHANGED <<anyCaller, fileVars>>
    PROVE  PayloadInv'
<1> USE InflateAssumption
<1> DEFINE b == currentBlock
           target == BlockOffset(b) + RangeSeek(b)
<1>1. /\ PayloadTypes /\ StreamInv /\ FileInv /\ BlockInv /\ ReadingInv /\ InFileInv
      /\ FetchInv /\ (anyCaller => ~compressed) /\ (~anyCaller => FrontReaderInv)
    BY DEF PayloadInv
<1>2. /\ UNCHANGED <<validated, relativePosition, currentBlock, lastRead>>
      /\ UNCHANGED <<anyCaller, compressed, tampered>>
      /\ rangePosition' = [rangePosition EXCEPT ![b] = RangeSeek(b)]
      /\ cachePosition' = [cachePosition EXCEPT ![b] = PositionInBlock]
      /\ cacheBuffer' = [cacheBuffer EXCEPT ![b] = IF validated[b] THEN Nothing ELSE <<>>]
      /\ Seek(target)
      /\ reading' = [reading EXCEPT !.phase = "sought"]
      /\ reading # Nothing /\ reading.phase = "loop" /\ InBlock
      /\ ~(validated[b] /\ cacheBuffer[b] # Nothing)
    BY DEF EnterBlock, InBlock, InLoop, fileVars
<1>3. /\ b \in Block /\ Wanted \in Nat \ {0} /\ PositionInBlock \in Nat
      /\ relativePosition = BlockOffset(b) + PositionInBlock
      /\ BlockOffset(b) <= relativePosition /\ relativePosition < BlockEnd(b)
      /\ PositionInBlock < BlockLength(b) /\ Wanted > 0
    BY <1>1, <1>2, InBlockFacts DEF InBlock
<1>4. /\ BlockOffset(b) \in Nat /\ BlockLength(b) \in Nat /\ BlockEnd(b) <= UncompressedSize
      /\ BlockEnd(b) = BlockOffset(b) + BlockLength(b)
    BY <1>3, BlockFacts
<1>5. RangeSeek(b) \in Nat /\ RangeSeek(b) <= BlockLength(b)
    BY <1>1, <1>3, <1>4 DEF RangeSeek, PayloadTypes, BlockInv
<1>6. target \in Nat /\ target <= UncompressedSize
    BY <1>4, <1>5
<1>7. /\ reading' \in BlockMapCall /\ reading' # Nothing
      /\ reading'.from = reading.from /\ reading'.asked = reading.asked
      /\ reading'.want = reading.want /\ reading'.got = reading.got
      /\ reading'.phase = "sought"
    BY <1>1, <1>2, PhaseTypes
<1>8. /\ ~InFile /\ InFile' /\ ~Fetched' /\ ~Fetched
      /\ InLoop("sought")' /\ ~InLoop("fetching")'
    BY <1>2, <1>7 DEF InFile, Fetched, InLoop
<1>9. /\ seekPosition' = target /\ request = Nothing /\ UNCHANGED <<request, result>>
      /\ fileCurrentPosition' \in {0, fileCurrentPosition}
    BY <1>2, <1>6 DEF Seek, Lesser
<1>10. StreamInv' /\ FileInv'
    BY <1>1, <1>2, <1>6, <1>9, StreamSeek DEF FileInv
<1>11. PayloadTypes'
  <2>1. /\ rangePosition' \in [Block -> Nat] /\ cachePosition' \in [Block -> Nat]
      BY <1>1, <1>2, <1>3, <1>5 DEF PayloadTypes
  <2>2. cacheBuffer' \in [Block -> Seq(Byte) \cup {Nothing}]
      BY <1>1, <1>2, <1>3, EmptyBytes DEF PayloadTypes
  <2> QED
      BY <1>1, <1>2, <1>7, <2>1, <2>2 DEF PayloadTypes
<1>12. /\ rangePosition'[b] = RangeSeek(b) /\ cachePosition'[b] = PositionInBlock
       /\ cacheBuffer'[b] = IF validated[b] THEN Nothing ELSE <<>>
       /\ \A c \in Block : c # b => /\ rangePosition'[c] = rangePosition[c]
                                    /\ cachePosition'[c] = cachePosition[c]
                                    /\ cacheBuffer'[c] = cacheBuffer[c]
    BY <1>1, <1>2, <1>3 DEF PayloadTypes
<1>13. BlockInv'
  <2> SUFFICES ASSUME NEW c \in Block
               PROVE  /\ rangePosition'[c] <= BlockLength(c)
                      /\ cachePosition'[c] <= BlockLength(c)
                      /\ validated[c] => c \notin tampered
                      /\ validated[c] /\ cacheBuffer'[c] # Nothing => cacheBuffer'[c] = BlockBytes(c)
      BY <1>2 DEF BlockInv
  <2>1. CASE c = b
      BY <1>1, <1>3, <1>4, <1>5, <1>12, <2>1 DEF BlockInv
  <2>2. CASE c # b
      BY <1>1, <1>12, <2>2 DEF BlockInv
  <2> QED
      BY <2>1, <2>2
<1>14. ReadingInv'
    BY <1>1, <1>2, <1>7, <1>8 DEF ReadingInv, IntactBytes, IsBytes
<1>15. validated[b] => RangeSeek(b) = PositionInBlock
    BY <1>2 DEF RangeSeek
<1>16. Wanted' = Wanted /\ PositionInBlock' = PositionInBlock
    BY <1>2, <1>7 DEF Wanted, PositionInBlock
<1>17. InFileInv'
    BY <1>2, <1>3, <1>12, <1>15, <1>16 DEF InFileInv
<1>18. FetchInv'
    BY <1>2, <1>8, <1>9, <1>12 DEF FetchInv, FilePosition
<1>19. ASSUME ~anyCaller
       PROVE  FrontReaderInv'
  <2>1. /\ StopsInv /\ CachesInv /\ lastRead.why = "ok"
        /\ compressed => FrontInv /\ FrontierInv
      BY <1>1, <1>2, <1>19 DEF FrontReaderInv, StopsInv
  <2>2. ASSUME NEW c \in Block
        PROVE  cacheBuffer[c] = Nothing
    <3> SUFFICES ASSUME cacheBuffer[c] # Nothing
                 PROVE  FALSE
        OBVIOUS
    <3>1. validated[c] /\ BlockOffset(c) < relativePosition /\ relativePosition < BlockEnd(c)
        BY <1>8, <2>1 DEF CachesInv
    <3>2. relativePosition \in Int /\ BlockOffset(c) \in Nat
        BY <1>1, BlockFacts DEF PayloadTypes
    <3>3. BlockOffset(c) <= relativePosition
        BY <3>1, <3>2
    <3>4. c = b
        BY <1>3, <3>1, <3>2, <3>3, BlocksApart
    <3> QED
        BY <1>2, <3>1, <3>4
  <2>3. RangeSeek(b) = PositionInBlock /\ target = relativePosition
      BY <1>3, <2>2 DEF RangeSeek
  <2>4. ~validated[b] => PositionInBlock = 0
    <3>1. ~validated[b] => relativePosition = BlockOffset(b)
        BY <1>3, <2>1 DEF CachesInv
    <3> QED
        BY <1>3, <1>4, <3>1
  <2>5. StopsInv'
      BY <1>2, <1>8, <1>9, <2>1 DEF StopsInv, Pending
  <2>6. CachesInv'
      BY <1>2, <1>8, <1>12, <2>1, <2>2, <2>3, <2>4 DEF CachesInv
  <2>7. FrontierInv'
      BY <1>8 DEF FrontierInv
  <2>8. compressed => FrontInv'
    <3> SUFFICES ASSUME compressed
                 PROVE  FrontInv'
        OBVIOUS
    <3>1. target \in {0, fileCurrentPosition, UncompressedSize}
        BY <1>8, <2>1, <2>2, <2>3 DEF FrontierInv
    <3> QED
        BY <1>1, <1>2, <2>1, <3>1, FrontSeek
  <2> QED
      BY <1>2, <2>5, <2>6, <2>7, <2>8 DEF FrontReaderInv
<1> QED
    BY <1>1, <1>2, <1>10, <1>11, <1>13, <1>14, <1>17, <1>18, <1>19 DEF PayloadInv

\* RangeStream::Read begins its read of the file's stream.
LEMMA PayloadReadBlock ==
    ASSUME PayloadInv, ReadBlock, UNCHANGED <<anyCaller, fileVars>>
    PROVE  PayloadInv'
<1> USE InflateAssumption
<1> DEFINE b == currentBlock
           n == AmountToRead(b)
<1>1. /\ PayloadTypes /\ StreamInv /\ FileInv /\ BlockInv /\ ReadingInv /\ InFileInv
      /\ FetchInv /\ (anyCaller => ~compressed) /\ (~anyCaller => FrontReaderInv)
    BY DEF PayloadInv
<1>2. /\ UNCHANGED <<rangePosition, cacheBuffer, cachePosition, validated>>
      /\ UNCHANGED <<relativePosition, currentBlock, anyCaller, compressed, tampered>>
      /\ InLoop("sought") /\ reading # Nothing /\ reading.phase = "sought" /\ InFile
    BY DEF ReadBlock, InLoop, InFile, hashVars, fileVars
<1>3. /\ b \in Block
      /\ Wanted \in Nat \ {0}
      /\ PositionInBlock \in Nat /\ PositionInBlock < BlockLength(b)
      /\ rangePosition[b] \in Nat /\ rangePosition[b] <= BlockLength(b)
      /\ n \in Nat /\ n <= BlockLength(b) - rangePosition[b]
      /\ n = 0 => rangePosition[b] = BlockLength(b)
    BY <1>1, <1>2, InFileFacts
<1>4. request = Nothing /\ ~Pending /\ seekPosition = FilePosition
    BY <1>1, <1>2 DEF FetchInv, Pending
<1>5. CASE n = 0
  <2>1. Return("short", reading.got) /\ UNCHANGED inflateVars
      BY <1>5 DEF ReadBlock
  <2>2. ~anyCaller => FALSE
    <3> SUFFICES ASSUME ~anyCaller
                 PROVE  FALSE
        OBVIOUS
    <3>1. CachesInv
        BY <1>1, <1>2 DEF FrontReaderInv, StopsInv
    <3>2. rangePosition[b] = IF validated[b] THEN PositionInBlock ELSE 0
        BY <1>1, <1>2, <3>1 DEF InFileInv, CachesInv
    <3> QED
        BY <1>3, <1>5, <3>2
  <2>3. rangePosition' \in [Block -> Nat] /\ \A c \in Block : rangePosition'[c] <= BlockLength(c)
      BY <1>1, <1>2 DEF PayloadTypes, BlockInv
  <2> QED
      BY <1>2, <1>4, <2>1, <2>2, <2>3, PayloadFails DEF hashVars
<1>6. CASE n # 0
  <2>1. /\ BeginRead(n) /\ reading' = [reading EXCEPT !.phase = "fetching"]
        /\ UNCHANGED lastRead
      BY <1>6 DEF ReadBlock
  <2>2. n \in Nat \ {0} /\ seekPosition < UncompressedSize
    <3>1. /\ BlockOffset(b) \in Nat /\ BlockEnd(b) <= UncompressedSize
          /\ BlockEnd(b) = BlockOffset(b) + BlockLength(b) /\ BlockLength(b) \in Nat
        BY <1>3, BlockFacts
    <3> QED
        BY <1>3, <1>4, <1>6, <3>1 DEF FilePosition
  <2>3. /\ request' = [from |-> seekPosition, want |-> n, got |-> <<>>]
        /\ UNCHANGED <<result, seekPosition, fileCurrentPosition>>
      BY <2>1, <2>2 DEF BeginRead
  <2>4. StreamInv' /\ FileInv'
      BY <1>1, <2>1, <2>2, <2>3, StreamBeginRead DEF FileInv
  <2>5. request'.from = FilePosition /\ request'.want = n /\ seekPosition' = FilePosition
      BY <1>4, <2>3
  <2>6. Pending'
    <3>1. request' \in ReadCall
        BY <1>1, <1>3, <2>3, EmptyBytes DEF ReadCall, StreamInv, StreamTypes
    <3> QED
        BY <3>1, NothingAssumption DEF Pending
  <2>7. /\ reading' \in BlockMapCall /\ reading' # Nothing
        /\ reading'.from = reading.from /\ reading'.asked = reading.asked
        /\ reading'.want = reading.want /\ reading'.got = reading.got
        /\ reading'.phase = "fetching"
      BY <1>1, <1>2, <2>1, PhaseTypes
  <2>8. /\ InFile' /\ ~Fetched' /\ ~Fetched /\ ~InLoop("sought")' /\ InLoop("fetching")'
      BY <1>2, <2>6, <2>7 DEF InFile, Fetched, InLoop, Pending
  <2>9. /\ Wanted' = Wanted /\ PositionInBlock' = PositionInBlock
        /\ FilePosition' = FilePosition /\ AmountToRead(currentBlock)' = n
      BY <1>2, <2>7 DEF Wanted, PositionInBlock, FilePosition, AmountToRead
  <2>10. PayloadTypes'
      BY <1>1, <1>2, <2>1, <2>7 DEF PayloadTypes
  <2>11. BlockInv'
      BY <1>1, <1>2 DEF BlockInv
  <2>12. InFileInv'
      BY <1>1, <1>2, <2>9 DEF InFileInv
  <2>13. FetchInv'
      BY <2>5, <2>6, <2>8, <2>9 DEF FetchInv
  <2>14. ReadingInv'
      BY <1>1, <1>2, <2>1, <2>7, <2>8 DEF ReadingInv, IntactBytes, IsBytes
  <2>15. ASSUME ~anyCaller
         PROVE  FrontReaderInv'
    <3>1. /\ StopsInv /\ CachesInv /\ lastRead.why = "ok" /\ result.ok
          /\ compressed => FrontInv
        BY <1>1, <1>2, <2>8, <2>15 DEF FrontReaderInv, StopsInv
    <3>2. StopsInv'
        BY <2>1, <2>3, <3>1 DEF StopsInv
    <3>3. CachesInv'
        BY <1>2, <2>8, <3>1 DEF CachesInv
    <3>4. FrontierInv'
        BY <2>8 DEF FrontierInv
    <3>5. compressed => FrontInv'
        BY <1>1, <2>1, <2>2, <3>1, FrontBeginRead
    <3> QED
        BY <1>2, <3>2, <3>3, <3>4, <3>5 DEF FrontReaderInv
  <2> QED
      BY <1>1, <1>2, <2>4, <2>10, <2>11, <2>12, <2>13, <2>14, <2>15 DEF PayloadInv
<1> QED
    BY <1>5, <1>6

-----------------------------------------------------------------------------
(* The read of the file's stream has returned.                             *)

LEMMA PayloadFetchFails ==
    ASSUME PayloadInv, FetchFails, UNCHANGED <<anyCaller, fileVars>>
    PROVE  PayloadInv'
<1>1. reading # Nothing /\ ~Pending
    BY DEF FetchFails, Fetched, InLoop, Pending
<1>2. rangePosition' \in [Block -> Nat] /\ \A b \in Block : rangePosition'[b] <= BlockLength(b)
    BY DEF FetchFails, PayloadInv, PayloadTypes, BlockInv
<1> QED
    BY <1>1, <1>2, PayloadFails DEF FetchFails

\* A sequence of the bytes of a block is the block.
LEMMA WholeBlock ==
    ASSUME NEW b \in Block
    PROVE  /\ BlockBytes(b) \in Seq(Byte)
           /\ Len(BlockBytes(b)) = BlockLength(b)
           /\ \A i \in 1..BlockLength(b) : BlockBytes(b)[i] = BlockOffset(b) + i - 1
           /\ \A s \in Seq(Byte) :
                 Len(s) = BlockLength(b) /\ IsBytes(s, BlockOffset(b)) => s = BlockBytes(b)
<1>1. BlockOffset(b) \in Nat /\ BlockLength(b) \in Nat
    BY BlockFacts
<1>2. \A i \in 1..BlockLength(b) : BlockBytes(b)[i] = BlockOffset(b) + i - 1
    BY DEF BlockBytes
<1>3. BlockBytes(b) \in [1..BlockLength(b) -> Byte]
    BY <1>1 DEF BlockBytes, Byte
<1>4. BlockBytes(b) \in Seq(Byte)
    BY <1>1, <1>3, SeqDef
<1>5. Len(BlockBytes(b)) = BlockLength(b)
    BY <1>1, <1>3, <1>4, LenProperties
<1>6. ASSUME NEW s \in Seq(Byte), Len(s) = BlockLength(b), IsBytes(s, BlockOffset(b))
      PROVE  s = BlockBytes(b)
  <2>1. \A i \in 1..Len(s) : s[i] = BlockBytes(b)[i]
      BY <1>2, <1>6 DEF IsBytes
  <2> QED
      BY <1>4, <1>5, <1>6, <2>1, SeqEqual
<1> QED
    BY <1>2, <1>4, <1>5, <1>6

\* What the file's stream gave.
LEMMA FetchFacts ==
    ASSUME PayloadInv, FetchSucceeds
    PROVE  LET b == currentBlock
           IN  /\ reading # Nothing /\ InFile /\ request = Nothing /\ ~Pending /\ Fetched
               /\ result.ok
               /\ result.got \in Seq(Byte) /\ Len(result.got) \in Nat
               /\ Len(result.got) = AmountToRead(b)
               /\ IsBytes(result.got, FilePosition) /\ result.from = FilePosition
               /\ rangePosition' \in [Block -> Nat]
               /\ \A c \in Block : rangePosition'[c] <= BlockLength(c)
<1> DEFINE b == currentBlock
<1>1. /\ InLoop("fetching") /\ request = Nothing /\ ~Pending /\ reading # Nothing /\ InFile
      /\ Fetched /\ result.ok /\ Len(result.got) = result.want
    BY DEF FetchSucceeds, Fetched, InLoop, Pending, InFile
<1>2. PayloadTypes /\ StreamInv /\ BlockInv /\ ReadingInv /\ InFileInv /\ FetchInv
    BY DEF PayloadInv
<1>3. result.got \in Seq(Byte) /\ Len(result.got) \in Nat
    BY <1>2, LenProperties DEF StreamInv, StreamTypes
<1>4. Len(result.got) = AmountToRead(b) /\ IsBytes(result.got, FilePosition) /\ result.from = FilePosition
    BY <1>1, <1>2 DEF FetchInv
<1>5. /\ b \in Block /\ rangePosition[b] \in Nat
      /\ AmountToRead(b) <= BlockLength(b) - rangePosition[b]
    BY <1>1, <1>2, InFileFacts
<1>6. BlockLength(b) \in Nat
    BY <1>5, BlockFacts
<1>7. rangePosition[b] + Len(result.got) \in Nat /\ rangePosition[b] + Len(result.got) <= BlockLength(b)
    BY <1>3, <1>4, <1>5, <1>6
<1>8. rangePosition' = [rangePosition EXCEPT ![b] = @ + Len(result.got)]
    BY DEF FetchSucceeds
<1>9. rangePosition' \in [Block -> Nat]
    BY <1>2, <1>5, <1>7, <1>8 DEF PayloadTypes
<1>10. \A c \in Block : rangePosition'[c] <= BlockLength(c)
    BY <1>2, <1>5, <1>7, <1>8 DEF PayloadTypes, BlockInv
<1> QED
    BY <1>1, <1>3, <1>4, <1>9, <1>10

\* An intact block is validated: a reader from the front meets a wrong hash only
\* in a block that is tampered with.
LEMMA PayloadValidateFails ==
    ASSUME PayloadInv, ValidateFails, UNCHANGED <<anyCaller, fileVars>>
    PROVE  PayloadInv'
<1> DEFINE b == currentBlock
           why == IF Len(result.got) = BlockLength(b) THEN "hash" ELSE "short"
<1>1. /\ FetchSucceeds /\ ~validated[b] /\ Return(why, reading.got)
      /\ ~(Len(result.got) = BlockLength(b) /\ HashMatches(b))
      /\ UNCHANGED <<inflateVars, hashVars, relativePosition, currentBlock>>
    BY DEF ValidateFails, FetchSucceeds
<1>2. /\ reading # Nothing /\ InFile /\ ~Pending
      /\ result.got \in Seq(Byte) /\ Len(result.got) = AmountToRead(b)
      /\ IsBytes(result.got, FilePosition)
      /\ rangePosition' \in [Block -> Nat]
      /\ \A c \in Block : rangePosition'[c] <= BlockLength(c)
    BY <1>1, FetchFacts
<1>3. ~anyCaller => why = "hash" /\ b \in tampered
  <2> SUFFICES ASSUME ~anyCaller
               PROVE  why = "hash" /\ b \in tampered
      OBVIOUS
  <2>1. /\ PayloadTypes /\ BlockInv /\ ReadingInv /\ InFileInv /\ FrontReaderInv
      BY DEF PayloadInv
  <2>2. CachesInv
      BY <1>2, <2>1 DEF FrontReaderInv, StopsInv
  <2>3. rangePosition[b] = 0
      BY <1>1, <1>2, <2>2 DEF CachesInv
  <2>4. b \in Block /\ AmountToRead(b) = BlockLength(b)
      BY <1>1, <1>2, <2>1, <2>3, InFileFacts
  <2>5. FilePosition = BlockOffset(b)
      BY <2>3, <2>4, BlockFacts DEF FilePosition
  <2>6. result.got = BlockBytes(b)
      BY <1>2, <2>4, <2>5, WholeBlock
  <2> QED
      BY <1>1, <1>2, <2>4, <2>6 DEF HashMatches
<1>4. why \in {"short", "hash"}
    OBVIOUS
<1> QED
    BY <1>1, <1>2, <1>3, <1>4, PayloadFails

-----------------------------------------------------------------------------
(* Bytes for the caller.                                                   *)

\* A step that gives bytes of the current block to the caller, from its cache, its
\* validation or the file's stream.
LEMMA PayloadDelivers ==
    ASSUME PayloadInv, UNCHANGED <<anyCaller, fileVars>>, UNCHANGED inflateVars,
           reading # Nothing, request = Nothing, currentBlock \in Block,
           currentBlock \notin tampered,
           NEW bytes \in Seq(Byte), IsBytes(bytes, relativePosition), Len(bytes) <= Wanted,
           relativePosition + Len(bytes) <= BlockEnd(currentBlock), Deliver(bytes),
           rangePosition' \in [Block -> Nat],
           \A c \in Block : rangePosition'[c] <= BlockLength(c),
           cachePosition' \in [Block -> Nat],
           \A c \in Block : cachePosition'[c] <= BlockLength(c),
           validated' \in [Block -> BOOLEAN], validated'[currentBlock],
           cacheBuffer' \in [Block -> Seq(Byte) \cup {Nothing}],
           cacheBuffer'[currentBlock] \in {Nothing, BlockBytes(currentBlock)},
           \A c \in Block : c # currentBlock => /\ validated'[c] = validated[c]
                                               /\ cacheBuffer'[c] = cacheBuffer[c],
           ~anyCaller =>
              /\ lastRead.why = "ok" /\ result.ok
              /\ \A c \in Block : c # currentBlock => cacheBuffer[c] = Nothing
              /\ cacheBuffer'[currentBlock] # Nothing =>
                    /\ BlockOffset(currentBlock) < relativePosition'
                    /\ relativePosition' < BlockEnd(currentBlock)
              /\ compressed =>
                    fileCurrentPosition = IF cacheBuffer'[currentBlock] = Nothing
                                          THEN relativePosition' ELSE BlockEnd(currentBlock)
    PROVE  PayloadInv'
<1> USE InflateAssumption
<1> DEFINE b == currentBlock
<1>1. /\ PayloadTypes /\ StreamInv /\ FileInv /\ BlockInv /\ ReadingInv
      /\ (anyCaller => ~compressed) /\ (~anyCaller => FrontReaderInv)
    BY DEF PayloadInv
<1>2. /\ UNCHANGED <<currentBlock, lastRead, anyCaller, compressed, tampered>>
    BY DEF Deliver, fileVars
<1>3. /\ StreamInv' /\ FileInv' /\ (FrontInv => FrontInv') /\ (Pending' <=> Pending)
      /\ UNCHANGED <<request, result, seekPosition, fileCurrentPosition>>
    BY <1>1, InflateSame
<1>4. /\ reading' \in BlockMapCall /\ reading' # Nothing /\ reading'.phase = "loop"
      /\ relativePosition' \in 0..UncompressedSize
      /\ relativePosition' = relativePosition + Len(bytes)
      /\ ReadingInv'
    BY <1>1, <1>3, Delivered
<1>5. ~InFile' /\ ~Fetched' /\ ~InLoop("sought")' /\ ~InLoop("fetching")'
    BY <1>4 DEF InFile, Fetched, InLoop
<1>6. PayloadTypes'
    BY <1>1, <1>2, <1>4 DEF PayloadTypes
<1>7. BlockInv'
  <2> SUFFICES ASSUME NEW c \in Block
               PROVE  /\ validated'[c] => c \notin tampered
                      /\ validated'[c] /\ cacheBuffer'[c] # Nothing => cacheBuffer'[c] = BlockBytes(c)
      BY <1>2 DEF BlockInv
  <2>1. CASE c = b
      BY <2>1
  <2>2. CASE c # b
      BY <1>1, <2>2 DEF BlockInv
  <2> QED
      BY <2>1, <2>2
<1>8. InFileInv' /\ FetchInv'
    BY <1>5 DEF InFileInv, FetchInv
<1>9. ASSUME ~anyCaller
      PROVE  FrontReaderInv'
  <2>1. /\ lastRead.why = "ok" /\ result.ok
        /\ \A c \in Block : c # b => cacheBuffer'[c] = Nothing
        /\ cacheBuffer'[b] # Nothing =>
               BlockOffset(b) < relativePosition' /\ relativePosition' < BlockEnd(b)
        /\ compressed => fileCurrentPosition = IF cacheBuffer'[b] = Nothing
                                               THEN relativePosition' ELSE BlockEnd(b)
        /\ compressed => FrontInv
      BY <1>1, <1>9 DEF FrontReaderInv
  <2>2. StopsInv'
      BY <1>2, <1>3, <2>1 DEF StopsInv, Pending
  <2>3. ASSUME NEW c \in Block, ~validated'[c],
               BlockOffset(c) <= relativePosition', relativePosition' < BlockEnd(c)
        PROVE  relativePosition' = BlockOffset(c)
    <3>1. c # b
        BY <2>3
    <3>2. /\ BlockOffset(c) \in Nat /\ BlockEnd(c) \in Nat /\ c \in Nat
          /\ BlockOffset(b) \in Nat /\ BlockEnd(b) \in Nat /\ b \in Nat
        BY BlockFacts
    <3>3. /\ relativePosition \in Nat /\ relativePosition' \in Nat /\ Len(bytes) \in Nat
          /\ BlockOffset(b) <= relativePosition
        BY <1>1, <1>4, LenProperties DEF PayloadTypes, ReadingInv
    <3>4. CASE c < b
      <4>1. BlockEnd(c) <= BlockOffset(b)
          BY <3>4, BlocksOrdered
      <4>2. FALSE
          BY <1>4, <2>3, <3>2, <3>3, <4>1
      <4> QED
          BY <4>2
    <3>5. CASE b < c
      <4>1. BlockEnd(b) <= BlockOffset(c)
          BY <3>5, BlocksOrdered
      <4> QED
          BY <1>4, <2>3, <3>2, <3>3, <4>1
    <3> QED
        BY <3>1, <3>2, <3>4, <3>5
  <2>4. CachesInv'
      BY <1>2, <1>5, <2>1, <2>3 DEF CachesInv
  <2>5. compressed => FrontierInv'
      BY <1>2, <1>3, <1>5, <2>1 DEF FrontierInv
  <2> QED
      BY <1>2, <1>3, <2>1, <2>2, <2>4, <2>5 DEF FrontReaderInv
<1> QED
    BY <1>1, <1>2, <1>3, <1>4, <1>6, <1>7, <1>8, <1>9 DEF PayloadInv

\* A validated block, read again from the file's stream.
LEMMA PayloadReadDirect ==
    ASSUME PayloadInv, ReadDirect, UNCHANGED <<anyCaller, fileVars>>
    PROVE  PayloadInv'
<1> DEFINE b == currentBlock
<1>1. /\ FetchSucceeds /\ validated[b] /\ Deliver(result.got) /\ UNCHANGED hashVars
      /\ UNCHANGED inflateVars
    BY DEF ReadDirect, FetchSucceeds
<1>2. PayloadTypes /\ BlockInv /\ ReadingInv /\ InFileInv
    BY DEF PayloadInv
<1>3. /\ reading # Nothing /\ InFile /\ request = Nothing /\ Fetched /\ result.ok
      /\ result.got \in Seq(Byte) /\ Len(result.got) \in Nat
      /\ Len(result.got) = AmountToRead(b)
      /\ IsBytes(result.got, FilePosition) /\ result.from = FilePosition
      /\ rangePosition' \in [Block -> Nat]
      /\ \A c \in Block : rangePosition'[c] <= BlockLength(c)
    BY <1>1, FetchFacts
<1>4. /\ b \in Block /\ Wanted \in Nat /\ PositionInBlock \in Nat
      /\ relativePosition = BlockOffset(b) + PositionInBlock
      /\ AmountToRead(b) <= BlockLength(b) - rangePosition[b]
      /\ AmountToRead(b) <= Wanted
    BY <1>1, <1>2, <1>3, InFileFacts
<1>5. rangePosition[b] = PositionInBlock /\ cacheBuffer[b] = Nothing
    BY <1>1, <1>2, <1>3 DEF InFileInv
<1>6. FilePosition = relativePosition
    BY <1>4, <1>5 DEF FilePosition
<1>7. relativePosition + Len(result.got) <= BlockEnd(b)
  <2>1. BlockOffset(b) \in Nat /\ BlockLength(b) \in Nat /\ BlockEnd(b) = BlockOffset(b) + BlockLength(b)
      BY <1>4, BlockFacts
  <2> QED
      BY <1>3, <1>4, <1>5, <2>1
<1>8. /\ cacheBuffer' = cacheBuffer /\ cachePosition' = cachePosition /\ validated' = validated
      /\ relativePosition' = relativePosition + Len(result.got)
    BY <1>1 DEF hashVars, Deliver
<1>9. ~anyCaller =>
        /\ lastRead.why = "ok"
        /\ \A c \in Block : c # b => cacheBuffer[c] = Nothing
        /\ compressed => fileCurrentPosition = relativePosition'
  <2> SUFFICES ASSUME ~anyCaller
               PROVE  /\ lastRead.why = "ok"
                      /\ \A c \in Block : c # b => cacheBuffer[c] = Nothing
                      /\ compressed => fileCurrentPosition = relativePosition'
      OBVIOUS
  <2>1. lastRead.why = "ok" /\ CachesInv /\ (compressed => FrontierInv)
      BY <1>3 DEF PayloadInv, FrontReaderInv, StopsInv
  <2> QED
      BY <1>3, <1>6, <1>8, <2>1 DEF CachesInv, FrontierInv
<1>10. b \notin tampered
    BY <1>1, <1>2, <1>4 DEF BlockInv
<1>11. /\ cachePosition' \in [Block -> Nat] /\ validated' \in [Block -> BOOLEAN]
       /\ cacheBuffer' \in [Block -> Seq(Byte) \cup {Nothing}]
       /\ \A c \in Block : cachePosition'[c] <= BlockLength(c)
    BY <1>2, <1>8 DEF PayloadTypes, BlockInv
<1>12. IsBytes(result.got, relativePosition) /\ Len(result.got) <= Wanted
    BY <1>3, <1>4, <1>6
<1> QED
    BY <1>1, <1>3, <1>4, <1>5, <1>7, <1>8, <1>9, <1>10, <1>11, <1>12, PayloadDelivers

\* HashStream::CacheRead of a block's own bytes.
LEMMA CacheReads ==
    ASSUME PayloadInv, UNCHANGED <<anyCaller, fileVars>>, UNCHANGED inflateVars,
           reading # Nothing, request = Nothing, currentBlock \in Block,
           currentBlock \notin tampered, Wanted \in Nat \ {0},
           PositionInBlock \in Nat, PositionInBlock < BlockLength(currentBlock),
           CacheRead(currentBlock, BlockBytes(currentBlock), PositionInBlock),
           rangePosition' \in [Block -> Nat],
           \A c \in Block : rangePosition'[c] <= BlockLength(c),
           validated' = [validated EXCEPT ![currentBlock] = TRUE],
           ~anyCaller =>
              /\ lastRead.why = "ok" /\ result.ok
              /\ \A c \in Block : c # currentBlock => cacheBuffer[c] = Nothing
              /\ compressed => fileCurrentPosition = BlockEnd(currentBlock)
    PROVE  PayloadInv'
<1> USE InflateAssumption
<1> DEFINE b == currentBlock
           cache == BlockBytes(b)
           p == PositionInBlock
           n == Lesser(Lesser(Wanted, BlockLength(b) - p), Len(cache) - p)
           bytes == SubSeq(cache, p + 1, p + n)
<1>1. PayloadTypes /\ BlockInv /\ ReadingInv
    BY DEF PayloadInv
<1>2. /\ cachePosition' = [cachePosition EXCEPT ![b] = p + n]
      /\ cacheBuffer' = [cacheBuffer EXCEPT ![b] = IF p + n = BlockLength(b) THEN Nothing ELSE cache]
      /\ Deliver(bytes)
    BY DEF CacheRead
<1>3. /\ cache \in Seq(Byte) /\ Len(cache) = BlockLength(b)
      /\ \A i \in 1..BlockLength(b) : cache[i] = BlockOffset(b) + i - 1
    BY WholeBlock
<1>4. /\ BlockOffset(b) \in Nat /\ BlockLength(b) \in Nat
      /\ BlockEnd(b) = BlockOffset(b) + BlockLength(b)
      /\ relativePosition \in Nat /\ relativePosition = BlockOffset(b) + p
    BY <1>1, BlockFacts DEF PayloadTypes, PositionInBlock
<1>5. n \in Nat \ {0} /\ n <= Wanted /\ p + n <= BlockLength(b)
    BY <1>3, <1>4 DEF Lesser
<1>5a. p \in Nat
    OBVIOUS
<1> HIDE DEF n, cache, p
<1>6. \A i \in (p + 1)..(p + n) : cache[i] \in Byte
  <2> SUFFICES ASSUME NEW i \in (p + 1)..(p + n)
               PROVE  cache[i] \in Byte
      OBVIOUS
  <2>1. i \in 1..Len(cache)
      BY <1>3, <1>4, <1>5, <1>5a
  <2> QED
      BY <1>3, <2>1, ElementOfSeq
<1>7. /\ bytes \in Seq(Byte)
      /\ Len(bytes) = IF p + 1 <= p + n THEN (p + n) - (p + 1) + 1 ELSE 0
      /\ \A i \in 1..((p + n) - (p + 1) + 1) : bytes[i] = cache[(p + 1) + i - 1]
  <2>1. p + 1 \in Int /\ p + n \in Int
      BY <1>5, <1>5a
  <2> QED
      BY <1>6, <2>1, SubSeqProperties
<1>8. Len(bytes) = n /\ \A i \in 1..n : bytes[i] = cache[p + i]
  <2>1. Len(bytes) = n /\ (p + n) - (p + 1) + 1 = n
      BY <1>5, <1>5a, <1>7
  <2>2. \A i \in 1..n : (p + 1) + i - 1 = p + i
      BY <1>5, <1>5a
  <2> QED
      BY <1>7, <2>1, <2>2
<1> HIDE DEF bytes
<1>9. IsBytes(bytes, relativePosition)
  <2> SUFFICES ASSUME NEW i \in 1..n
               PROVE  bytes[i] = relativePosition + i - 1
      BY <1>8 DEF IsBytes
  <2>1. p + i \in 1..BlockLength(b)
      BY <1>4, <1>5, <1>5a
  <2>2. bytes[i] = BlockOffset(b) + (p + i) - 1
      BY <1>3, <1>8, <2>1
  <2>3. i \in Int
      BY <1>5
  <2> QED
      BY <1>4, <1>5a, <2>2, <2>3
<1>10. Len(bytes) <= Wanted /\ relativePosition + Len(bytes) <= BlockEnd(b)
    BY <1>4, <1>5, <1>5a, <1>8
<1>11. relativePosition' = BlockOffset(b) + (p + n)
  <2>1. relativePosition' = relativePosition + n
      BY <1>2, <1>8 DEF Deliver
  <2> QED
      BY <1>4, <1>5, <1>5a, <2>1
<1>12. p + n \in Nat /\ p + n > 0
    BY <1>5, <1>5a
<1>13. cachePosition' \in [Block -> Nat] /\ \A c \in Block : cachePosition'[c] <= BlockLength(c)
    BY <1>1, <1>2, <1>5, <1>12 DEF PayloadTypes, BlockInv
<1>14. /\ cacheBuffer' \in [Block -> Seq(Byte) \cup {Nothing}]
       /\ cacheBuffer'[b] = IF p + n = BlockLength(b) THEN Nothing ELSE cache
       /\ \A c \in Block : c # b => cacheBuffer'[c] = cacheBuffer[c]
    BY <1>1, <1>2, <1>3 DEF PayloadTypes
<1>15. validated' \in [Block -> BOOLEAN] /\ validated'[b]
       /\ \A c \in Block : c # b => validated'[c] = validated[c]
    BY <1>1 DEF PayloadTypes
<1>16. cacheBuffer'[b] # Nothing => BlockOffset(b) < relativePosition' /\ relativePosition' < BlockEnd(b)
    BY <1>4, <1>5, <1>11, <1>12, <1>14
<1>17. cacheBuffer'[b] = Nothing => relativePosition' = BlockEnd(b)
  <2>1. cache # Nothing
      BY <1>3, NoCallAssumption
  <2> QED
      BY <1>4, <1>11, <1>14, <2>1
<1>18. ~anyCaller =>
          /\ lastRead.why = "ok" /\ result.ok
          /\ \A c \in Block : c # b => cacheBuffer[c] = Nothing
          /\ cacheBuffer'[b] # Nothing =>
                BlockOffset(b) < relativePosition' /\ relativePosition' < BlockEnd(b)
          /\ compressed => fileCurrentPosition = IF cacheBuffer'[b] = Nothing
                                                 THEN relativePosition' ELSE BlockEnd(b)
    BY <1>16, <1>17
<1>19. cacheBuffer'[b] \in {Nothing, BlockBytes(b)}
    BY <1>14 DEF cache
<1> QED
    BY <1>2, <1>7, <1>9, <1>10, <1>13, <1>14, <1>15, <1>18, <1>19, PayloadDelivers

LEMMA PayloadReadCached ==
    ASSUME PayloadInv, ReadCached, UNCHANGED <<anyCaller, fileVars>>
    PROVE  PayloadInv'
<1> DEFINE b == currentBlock
<1>1. /\ InBlock /\ validated[b] /\ cacheBuffer[b] # Nothing
      /\ CacheRead(b, cacheBuffer[b], PositionInBlock)
      /\ UNCHANGED inflateVars /\ rangePosition' = rangePosition /\ validated' = validated
    BY DEF ReadCached
<1>2. PayloadTypes /\ BlockInv /\ ReadingInv
    BY DEF PayloadInv
<1>3. reading # Nothing /\ reading.phase = "loop" /\ ~InFile /\ ~Fetched
    BY <1>1 DEF InBlock, InLoop, InFile, Fetched
<1>4. /\ b \in Block /\ Wanted \in Nat \ {0} /\ PositionInBlock \in Nat
      /\ PositionInBlock < BlockLength(b)
      /\ BlockOffset(b) <= relativePosition /\ relativePosition < BlockEnd(b)
    BY <1>1, <1>2, <1>3, InBlockFacts DEF InBlock
<1>5. cacheBuffer[b] = BlockBytes(b) /\ b \notin tampered
    BY <1>1, <1>2, <1>4 DEF BlockInv
<1>6. validated' = [validated EXCEPT ![b] = TRUE]
    BY <1>1, <1>2, <1>4 DEF PayloadTypes
<1>7. request = Nothing
    BY <1>2, <1>3 DEF ReadingInv
<1>8. rangePosition' \in [Block -> Nat] /\ \A c \in Block : rangePosition'[c] <= BlockLength(c)
    BY <1>1, <1>2 DEF PayloadTypes, BlockInv
<1>9. ~anyCaller =>
        /\ lastRead.why = "ok" /\ result.ok
        /\ \A c \in Block : c # b => cacheBuffer[c] = Nothing
        /\ compressed => fileCurrentPosition = BlockEnd(b)
  <2> SUFFICES ASSUME ~anyCaller
               PROVE  /\ lastRead.why = "ok" /\ result.ok
                      /\ \A c \in Block : c # b => cacheBuffer[c] = Nothing
                      /\ compressed => fileCurrentPosition = BlockEnd(b)
      OBVIOUS
  <2>1. lastRead.why = "ok" /\ result.ok /\ CachesInv /\ (compressed => FrontierInv)
      BY <1>3 DEF PayloadInv, FrontReaderInv, StopsInv
  <2>2. ASSUME NEW c \in Block, c # b, cacheBuffer[c] # Nothing
        PROVE  FALSE
    <3>1. BlockOffset(c) < relativePosition /\ relativePosition < BlockEnd(c)
        BY <1>3, <2>1, <2>2 DEF CachesInv
    <3>2. relativePosition \in Int /\ BlockOffset(c) \in Nat
        BY <1>2, BlockFacts DEF PayloadTypes
    <3>3. BlockOffset(c) <= relativePosition
        BY <3>1, <3>2
    <3> QED
        BY <1>4, <2>2, <3>1, <3>2, <3>3, BlocksApart
  <2> QED
      BY <1>1, <1>3, <1>4, <2>1, <2>2 DEF FrontierInv
<1>10. CacheRead(b, BlockBytes(b), PositionInBlock)
    BY <1>1, <1>5
<1> QED
    BY <1>1, <1>3, <1>4, <1>5, <1>6, <1>7, <1>8, <1>9, <1>10, CacheReads

LEMMA PayloadValidate ==
    ASSUME PayloadInv, Validate, UNCHANGED <<anyCaller, fileVars>>
    PROVE  PayloadInv'
<1> DEFINE b == currentBlock
<1>1. /\ FetchSucceeds /\ ~validated[b] /\ UNCHANGED inflateVars
      /\ Len(result.got) = BlockLength(b)
      /\ result.got = BlockBytes(b) /\ b \notin tampered
      /\ validated' = [validated EXCEPT ![b] = TRUE]
      /\ CacheRead(b, result.got, cachePosition[b])
    BY DEF Validate, FetchSucceeds, HashMatches
<1>2. PayloadTypes /\ BlockInv /\ ReadingInv /\ InFileInv
    BY DEF PayloadInv
<1>3. /\ reading # Nothing /\ InFile /\ request = Nothing /\ Fetched /\ result.ok
      /\ result.from = FilePosition
      /\ rangePosition' \in [Block -> Nat]
      /\ \A c \in Block : rangePosition'[c] <= BlockLength(c)
    BY <1>1, FetchFacts
<1>4. /\ b \in Block /\ Wanted \in Nat \ {0} /\ PositionInBlock \in Nat
      /\ PositionInBlock < BlockLength(b)
    BY <1>2, <1>3, InFileFacts
<1>5. CacheRead(b, BlockBytes(b), PositionInBlock)
    BY <1>1, <1>2, <1>3 DEF InFileInv
<1>6. ~anyCaller =>
        /\ lastRead.why = "ok"
        /\ \A c \in Block : c # b => cacheBuffer[c] = Nothing
        /\ compressed => fileCurrentPosition = BlockEnd(b)
  <2> SUFFICES ASSUME ~anyCaller
               PROVE  /\ lastRead.why = "ok"
                      /\ \A c \in Block : c # b => cacheBuffer[c] = Nothing
                      /\ compressed => fileCurrentPosition = BlockEnd(b)
      OBVIOUS
  <2>1. lastRead.why = "ok" /\ CachesInv /\ (compressed => FrontierInv)
      BY <1>3 DEF PayloadInv, FrontReaderInv, StopsInv
  <2>2. rangePosition[b] = 0
      BY <1>1, <1>3, <2>1 DEF CachesInv
  <2>3. FilePosition = BlockOffset(b)
      BY <1>4, <2>2, BlockFacts DEF FilePosition
  <2>4. compressed => fileCurrentPosition = BlockEnd(b)
      BY <1>1, <1>3, <2>1, <2>3 DEF FrontierInv, BlockEnd
  <2> QED
      BY <1>3, <2>1, <2>4 DEF CachesInv
<1> QED
    BY <1>1, <1>3, <1>4, <1>5, <1>6, CacheReads

-----------------------------------------------------------------------------
(* The theorems.                                                           *)

LEMMA PayloadInvNext == PayloadInv /\ [PayloadNext]_payloadVars => PayloadInv'
<1> SUFFICES ASSUME PayloadInv, [PayloadNext]_payloadVars
             PROVE  PayloadInv'
    OBVIOUS
<1>1. CASE UNCHANGED payloadVars
  <2>1. /\ UNCHANGED inflateVars
        /\ UNCHANGED <<rangePosition, cacheBuffer, cachePosition, validated>>
        /\ UNCHANGED <<relativePosition, currentBlock, reading, lastRead>>
        /\ UNCHANGED <<anyCaller, compressed, tampered>>
      BY <1>1 DEF payloadVars, blockVars, hashVars, fileVars
  <2>2. /\ StreamInv' /\ FileInv' /\ (FrontInv => FrontInv') /\ (Pending' <=> Pending)
        /\ UNCHANGED <<request, result, seekPosition, fileCurrentPosition>>
      BY <2>1, InflateSame DEF PayloadInv
  <2>3. /\ (InFile' <=> InFile) /\ (Fetched' <=> Fetched)
        /\ (InLoop("sought")' <=> InLoop("sought"))
        /\ (InLoop("fetching")' <=> InLoop("fetching"))
        /\ FilePosition' = FilePosition /\ Wanted' = Wanted /\ PositionInBlock' = PositionInBlock
        /\ AmountToRead(currentBlock)' = AmountToRead(currentBlock)
      BY <2>1, <2>2 DEF InFile, Fetched, InLoop, FilePosition, Wanted, PositionInBlock, AmountToRead
  <2>4. PayloadTypes' /\ BlockInv'
      BY <2>1 DEF PayloadInv, PayloadTypes, BlockInv
  <2>5. ReadingInv'
      BY <2>1, <2>2, <2>3 DEF PayloadInv, ReadingInv, IntactBytes, IsBytes
  <2>6. InFileInv' /\ FetchInv'
      BY <2>1, <2>2, <2>3 DEF PayloadInv, InFileInv, FetchInv, IsBytes
  <2>7. ASSUME ~anyCaller
        PROVE  FrontReaderInv'
    <3>1. FrontReaderInv
        BY <2>7 DEF PayloadInv
    <3>2. StopsInv'
        BY <2>1, <2>2, <2>3, <3>1 DEF FrontReaderInv, StopsInv, IntactReads
    <3>3. CachesInv => CachesInv'
        BY <2>1, <2>3 DEF CachesInv
    <3>4. FrontierInv => FrontierInv'
        BY <2>1, <2>2, <2>3 DEF FrontierInv
    <3> QED
        BY <2>1, <2>2, <3>1, <3>2, <3>3, <3>4 DEF FrontReaderInv
  <2> QED
      BY <2>1, <2>2, <2>4, <2>5, <2>6, <2>7 DEF PayloadInv
<1>2. CASE PayloadNext
  <2>1. UNCHANGED <<anyCaller, fileVars>>
      BY <1>2 DEF PayloadNext
  <2>2. CASE FileStream
      BY <2>1, <2>2, PayloadFileStream
  <2>3. CASE BlockStep
      BY <2>1, <2>3, PayloadEndRead, PayloadNextBlock, PayloadReadCached, PayloadEnterBlock,
         PayloadReadBlock, PayloadFetchFails, PayloadValidate, PayloadValidateFails,
         PayloadReadDirect DEF BlockStep
  <2>4. ASSUME anyCaller \/ lastRead.why = "ok", NEW countBytes \in 1..MaxRead,
               BlockMapRead(countBytes)
        PROVE  PayloadInv'
    <3>1. countBytes \in Nat
        BY InflateAssumption
    <3> QED
        BY <2>1, <2>4, <3>1, PayloadRead
  <2>5. ASSUME anyCaller \/ lastRead.why = "ok", NEW target \in SeekTargets,
               BlockMapSeek(target)
        PROVE  PayloadInv'
      BY <2>1, <2>5, PayloadSeek
  <2> QED
      BY <1>2, <2>2, <2>3, <2>4, <2>5 DEF PayloadNext
<1> QED
    BY <1>1, <1>2

LEMMA PayloadInvariant == NoSeeksInCompressed /\ PayloadSpec => []PayloadInv
<1>1. NoSeeksInCompressed /\ PayloadInit => PayloadInv
    BY PayloadInvInit
<1>2. PayloadInv /\ [PayloadNext]_payloadVars => PayloadInv'
    BY PayloadInvNext
<1> QED
    BY <1>1, <1>2, PTL DEF PayloadSpec

(***************************************************************************)
(* The positions of the block streams stay in their blocks, those of the   *)
(* file's stream in the file.                                              *)
(***************************************************************************)
THEOREM PayloadPositions == NoSeeksInCompressed /\ PayloadSpec => []PayloadTypeOK
<1>1. PayloadInv => PayloadTypeOK
  <2> SUFFICES ASSUME PayloadInv
               PROVE  PayloadTypeOK
      OBVIOUS
  <2>1. InflateTypeOK
      BY InflateAssumption
         DEF PayloadInv, InflateTypeOK, StreamInv, StreamTypes, FileInv, PayloadTypes
  <2>2. ASSUME NEW b \in Block
        PROVE  /\ rangePosition[b] \in 0..BlockLength(b)
               /\ cachePosition[b] \in 0..BlockLength(b)
               /\ validated[b] \in BOOLEAN
    <3>1. /\ rangePosition[b] \in Nat /\ rangePosition[b] <= BlockLength(b)
          /\ cachePosition[b] \in Nat /\ cachePosition[b] <= BlockLength(b)
          /\ validated[b] \in BOOLEAN
        BY DEF PayloadInv, PayloadTypes, BlockInv
    <3> QED
        BY <3>1, BlockFacts
  <2> QED
      BY <2>1, <2>2 DEF PayloadTypeOK, PayloadInv, PayloadTypes
<1> QED
    BY <1>1, PayloadInvariant, PTL

(***************************************************************************)
(* No caller is handed a byte of a block whose hash is wrong, or a byte    *)
(* from another place of the file, whatever is damaged, however reads fall *)
(* on blocks and windows, and whichever calls failed before.               *)
(***************************************************************************)
THEOREM PayloadValidated == NoSeeksInCompressed /\ PayloadSpec => []ValidatedBytes
<1>1. PayloadInv => ValidatedBytes
  <2> SUFFICES ASSUME PayloadInv, lastRead.why = "ok"
               PROVE  /\ Len(lastRead.got) = Lesser(lastRead.want, UncompressedSize - lastRead.from)
                      /\ \A i \in 1..Len(lastRead.got) :
                            /\ lastRead.got[i] = lastRead.from + i - 1
                            /\ \A b \in tampered :
                                  lastRead.got[i] \notin BlockOffset(b)..(BlockOffset(b) + BlockLength(b) - 1)
      BY DEF ValidatedBytes
  <2>1. /\ Len(lastRead.got) = Lesser(lastRead.want, UncompressedSize - lastRead.from)
        /\ \A i \in 1..Len(lastRead.got) : lastRead.got[i] = lastRead.from + i - 1
        /\ \A i \in 1..Len(lastRead.got) : \A b \in tampered :
              lastRead.from + i - 1 \notin BlockOffset(b)..(BlockEnd(b) - 1)
      BY DEF PayloadInv, ReadingInv, IntactBytes, IsBytes
  <2>2. ASSUME NEW i \in 1..Len(lastRead.got), NEW b \in tampered
        PROVE  lastRead.got[i] \notin BlockOffset(b)..(BlockOffset(b) + BlockLength(b) - 1)
    <3>1. lastRead.got[i] = lastRead.from + i - 1
        BY <2>1
    <3>2. lastRead.from + i - 1 \notin BlockOffset(b)..(BlockEnd(b) - 1)
        BY <2>1
    <3>3. BlockEnd(b) - 1 = BlockOffset(b) + BlockLength(b) - 1
      <4>1. b \in Block
          BY DEF PayloadInv, PayloadTypes
      <4> QED
          BY <4>1, BlockFacts
    <3> QED
        BY <3>1, <3>2, <3>3
  <2> QED
      BY <2>1, <2>2
<1> QED
    BY <1>1, PayloadInvariant, PTL

(***************************************************************************)
(* Unpack and the readers of the XML files, which read a file from its     *)
(* front, are never refused a block that is intact.                        *)
(***************************************************************************)
THEOREM PayloadIntact == NoSeeksInCompressed /\ PayloadSpec => []IntactReads
<1>1. PayloadInv => IntactReads
    BY DEF PayloadInv, FrontReaderInv, StopsInv, IntactReads
<1> QED
    BY <1>1, PayloadInvariant, PTL
=============================================================================
