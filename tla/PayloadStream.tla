--------------------------- MODULE PayloadStream ---------------------------
(***************************************************************************)
(* The stream of a payload file that IAppxFile::GetStream hands out: a     *)
(* BlockMapStream over one HashStream per block, each over a RangeStream of*)
(* the file's own stream, which is an InflateStream when the file is       *)
(* compressed and the bytes of the archive when it is stored.              *)
(*                                                                         *)
(* A read of the file's stream takes several steps (InflateStream), so a   *)
(* Read() here is a sequence of steps: `reading' is the call that runs.    *)
(* Bytes are offsets, as in InflateStream; the hash of a block matches when*)
(* the bytes read are those of the block and the block is not tampered.    *)
(***************************************************************************)
EXTENDS InflateStream, FiniteSets

CONSTANTS
    BlockMapBlockSize, \* BLOCKMAP_BLOCK_SIZE
    ReadThrough,       \* which files (TRUE: compressed) are read front to back,
    ReadAnywhere,      \* and which by callers that seek anywhere
    Damages            \* bound: the sets of blocks that may be tampered with

BlockCount == (UncompressedSize + BlockMapBlockSize - 1) \div BlockMapBlockSize
Block == 1..BlockCount

\* offset and size of a block (the BlockMapStream constructor)
BlockOffset(b) == (b - 1) * BlockMapBlockSize
BlockLength(b) == Lesser(BlockMapBlockSize, UncompressedSize - BlockOffset(b))
BlockBytes(b) == [i \in 1..BlockLength(b) |-> BlockOffset(b) + i - 1]

ASSUME PayloadAssumption ==
    /\ BlockMapBlockSize \in Nat \ {0}
    /\ ReadThrough \subseteq BOOLEAN
    /\ ReadAnywhere \subseteq BOOLEAN
    /\ Damages \subseteq SUBSET Block

\* The calls to BlockMapStream::Read, and how far one has got: in its loop, with the
\* file's stream sought, with a read of that stream under way.
BlockMapCall == [from : Nat, asked : Nat, got : Seq(Byte), want : Nat,
                 phase : {"loop", "sought", "fetching"}]

ASSUME NoCallAssumption == Nothing \notin BlockMapCall /\ Nothing \notin Seq(Byte)

VARIABLES
    compressed,       \* is the file compressed?
    tampered,         \* blocks whose bytes do not have the hash of the block map
    rangePosition,    \* RangeStream::m_relativePosition of each block
    cacheBuffer,      \* HashStream::m_cacheBuffer of each block
    cachePosition,    \* HashStream::m_relativePosition of each block
    validated,        \* HashStream::m_validated of each block
    relativePosition, \* BlockMapStream::m_relativePosition
    currentBlock,     \* BlockMapStream::m_currentBlock
    reading,          \* the BlockMapStream::Read that runs
    lastRead          \* the last one that returned

hashVars == <<cacheBuffer, cachePosition, validated>>
blockVars == <<rangePosition, hashVars, relativePosition, currentBlock, reading, lastRead>>
fileVars == <<compressed, tampered>>
payloadVars == <<inflateVars, blockVars, anyCaller, fileVars>>

Idle == reading = Nothing

PayloadInit ==
    /\ InflateInit
    /\ compressed \in IF anyCaller THEN ReadAnywhere ELSE ReadThrough
    /\ tampered \in Damages
    /\ rangePosition = [b \in Block |-> 0]
    /\ cacheBuffer = [b \in Block |-> Nothing]
    /\ cachePosition = [b \in Block |-> 0]
    /\ validated = [b \in Block |-> FALSE]
    /\ relativePosition = 0
    /\ currentBlock = 1
    /\ reading = Nothing
    /\ lastRead = [why |-> "ok", from |-> 0, want |-> 0, got |-> <<>>]

-----------------------------------------------------------------------------
(* The file's own stream when the file is stored: a RangeStream of the     *)
(* archive, read at once.                                                  *)

StoredRead ==
    /\ ~compressed
    /\ request # Nothing
    /\ LET n == Lesser(request.want, UncompressedSize - seekPosition)
       IN  /\ result' = [ok |-> TRUE, from |-> request.from, want |-> request.want,
                         got |-> [i \in 1..n |-> seekPosition + i - 1]]
           /\ seekPosition' = seekPosition + n
    /\ request' = Nothing
    /\ UNCHANGED <<inflateState, fileCurrentPosition, windowVars, zlibVars>>

StoredReadFails ==
    /\ ~compressed
    /\ request # Nothing
    /\ ReadFails
    /\ UNCHANGED <<inflateState, seekPosition, fileCurrentPosition, windowVars, zlibVars>>

\* A step of the file's own stream while a block is being read.
FileStream ==
    /\ \/ compressed /\ Handler
       \/ compressed /\ HandlerFails
       \/ StoredRead
       \/ StoredReadFails
    /\ UNCHANGED blockVars

-----------------------------------------------------------------------------
(* BlockMapStream::Read.                                                   *)

\* BlockMapStream::Seek to an absolute position.
BlockMapSeek(target) ==
    /\ Idle
    /\ relativePosition' = Lesser(target, UncompressedSize)
    /\ currentBlock' = 1
    /\ UNCHANGED <<inflateVars, rangePosition, hashVars, reading, lastRead>>

BlockMapRead(countBytes) ==
    /\ Idle
    /\ reading' = [from |-> relativePosition, asked |-> countBytes, got |-> <<>>,
                   want |-> Lesser(countBytes, UncompressedSize - relativePosition),
                   phase |-> "loop"]
    /\ UNCHANGED <<inflateVars, rangePosition, hashVars, relativePosition, currentBlock,
                   lastRead>>

Return(why, got) ==
    /\ reading' = Nothing
    /\ lastRead' = [why |-> why, from |-> reading.from, want |-> reading.asked, got |-> got]

InLoop(phase) == reading # Nothing /\ reading.phase = phase

Wanted == reading.want - Len(reading.got)
PositionInBlock == relativePosition - BlockOffset(currentBlock)

\* The loop ends: all is read, or there is no block left.
EndRead ==
    /\ InLoop("loop")
    /\ Wanted = 0 \/ currentBlock > BlockCount
    /\ Return("ok", reading.got)
    /\ UNCHANGED <<inflateVars, rangePosition, hashVars, relativePosition, currentBlock>>

\* Mutant: the loop stays at the block it has read to its end.
MutNextBlockStream ==
    /\ InLoop("loop")
    /\ Wanted > 0
    /\ currentBlock <= BlockCount
    /\ PositionInBlock >= BlockLength(currentBlock)
    /\ UNCHANGED <<inflateVars, blockVars>>

\* The current block ends before the position: the next one.
NextBlockStream ==
    /\ InLoop("loop")
    /\ Wanted > 0
    /\ currentBlock <= BlockCount
    /\ PositionInBlock >= BlockLength(currentBlock)
    /\ currentBlock' = currentBlock + 1
    /\ UNCHANGED <<inflateVars, rangePosition, hashVars, relativePosition, reading, lastRead>>

InBlock == /\ InLoop("loop")
           /\ Wanted > 0
           /\ currentBlock <= BlockCount
           /\ PositionInBlock < BlockLength(currentBlock)

\* The bytes of block b go to the caller.
Deliver(bytes) ==
    /\ reading' = [reading EXCEPT !.got = @ \o bytes, !.phase = "loop"]
    /\ relativePosition' = relativePosition + Len(bytes)
    /\ UNCHANGED <<currentBlock, lastRead>>

\* HashStream::CacheRead from position p; the cache goes once read to its end.
CacheRead(b, cache, p) ==
    LET n == Lesser(Lesser(Wanted, BlockLength(b) - PositionInBlock), Len(cache) - p)
    IN  /\ cachePosition' = [cachePosition EXCEPT ![b] = p + n]
        /\ cacheBuffer' = [cacheBuffer EXCEPT ![b] = IF p + n = BlockLength(b) THEN Nothing
                                                                              ELSE cache]
        /\ Deliver(SubSeq(cache, p + 1, p + n))

\* HashStream::Seek and Read of a block that is validated and cached.
ReadCached ==
    LET b == currentBlock
    IN  /\ InBlock
        /\ validated[b]
        /\ cacheBuffer[b] # Nothing
        /\ CacheRead(b, cacheBuffer[b], PositionInBlock)
        /\ UNCHANGED <<inflateVars, rangePosition, validated>>

\* Mutant: the RangeStream is not sought.
MutRangeSeek(b) == rangePosition[b]

\* HashStream::Seek: the RangeStream is sought only while there is no cache.
RangeSeek(b) == IF cacheBuffer[b] = Nothing THEN PositionInBlock ELSE rangePosition[b]

\* Any other block: HashStream::Seek, then RangeStream::Read seeks the file's
\* stream.  Validate() allocates its cache buffer before it reads.
EnterBlock ==
    LET b == currentBlock
    IN  /\ InBlock
        /\ ~(validated[b] /\ cacheBuffer[b] # Nothing)
        /\ rangePosition' = [rangePosition EXCEPT ![b] = RangeSeek(b)]
        /\ cachePosition' = [cachePosition EXCEPT ![b] = PositionInBlock]
        /\ cacheBuffer' = [cacheBuffer EXCEPT ![b] = IF validated[b] THEN Nothing ELSE <<>>]
        /\ Seek(BlockOffset(b) + RangeSeek(b))
        /\ reading' = [reading EXCEPT !.phase = "sought"]
        /\ UNCHANGED <<validated, relativePosition, currentBlock, lastRead>>

\* Mutant: the end of the block is not a limit.
MutAmountToRead(b) == IF validated[b] THEN Wanted ELSE BlockLength(b)

\* The bytes RangeStream::Read asks for: the whole block to validate it, the
\* bytes the caller wants once it is validated; never past the block.
AmountToRead(b) ==
    Lesser(IF validated[b] THEN Wanted ELSE BlockLength(b), BlockLength(b) - rangePosition[b])

ReadBlock ==
    /\ InLoop("sought")
    /\ IF AmountToRead(currentBlock) = 0
       THEN Return("short", reading.got) /\ UNCHANGED inflateVars
       ELSE /\ BeginRead(AmountToRead(currentBlock))
            /\ reading' = [reading EXCEPT !.phase = "fetching"]
            /\ UNCHANGED lastRead
    /\ UNCHANGED <<rangePosition, hashVars, relativePosition, currentBlock>>

\* The read of the file's stream has returned.
Fetched == InLoop("fetching") /\ request = Nothing

\* It failed, or gave fewer bytes than RangeStream::Read asked for.
FetchFails ==
    /\ Fetched
    /\ ~result.ok \/ Len(result.got) # result.want
    /\ Return("base", reading.got)
    /\ UNCHANGED <<inflateVars, rangePosition, hashVars, relativePosition, currentBlock>>

FetchSucceeds ==
    /\ Fetched
    /\ result.ok
    /\ Len(result.got) = result.want
    /\ rangePosition' = [rangePosition EXCEPT ![currentBlock] = @ + Len(result.got)]
    /\ UNCHANGED inflateVars

\* Mutant: the digest is computed and not compared.
MutHashMatches(b) == Len(result.got) = BlockLength(b)

\* Validate(): the whole block was read and has the expected hash.
HashMatches(b) == result.got = BlockBytes(b) /\ b \notin tampered

Validate ==
    LET b == currentBlock
    IN  /\ FetchSucceeds
        /\ ~validated[b]
        /\ Len(result.got) = BlockLength(b)
        /\ HashMatches(b)
        /\ validated' = [validated EXCEPT ![b] = TRUE]
        /\ CacheRead(b, result.got, cachePosition[b])

ValidateFails ==
    LET b == currentBlock
    IN  /\ FetchSucceeds
        /\ ~validated[b]
        /\ ~(Len(result.got) = BlockLength(b) /\ HashMatches(b))
        /\ Return(IF Len(result.got) = BlockLength(b) THEN "hash" ELSE "short", reading.got)
        /\ UNCHANGED <<hashVars, relativePosition, currentBlock>>

\* A validated block without a cache is read from the file's stream directly;
\* HashStream::m_relativePosition does not move.
ReadDirect ==
    /\ FetchSucceeds
    /\ validated[currentBlock]
    /\ Deliver(result.got)
    /\ UNCHANGED hashVars

-----------------------------------------------------------------------------
BlockStep ==
    \/ EndRead \/ NextBlockStream \/ ReadCached \/ EnterBlock \/ ReadBlock
    \/ FetchFails \/ Validate \/ ValidateFails \/ ReadDirect

\* AppxPackageObject::Unpack and the XML readers read a file front to back to its
\* end, look for its size or start again only before the first byte or after the
\* last, and give up at the first failure; other callers of the public IStream may
\* seek anywhere and try again.
SeekTargets ==
    IF anyCaller THEN 0..UncompressedSize
    ELSE IF relativePosition \in {0, UncompressedSize} THEN {0, UncompressedSize} ELSE {}

PayloadNext ==
    /\ \/ FileStream
       \/ BlockStep
       \/ /\ anyCaller \/ lastRead.why = "ok"
          /\ \/ \E countBytes \in 1..MaxRead : BlockMapRead(countBytes)
             \/ \E target \in SeekTargets : BlockMapSeek(target)
    /\ UNCHANGED <<anyCaller, fileVars>>

PayloadSpec ==
    /\ PayloadInit /\ [][PayloadNext]_payloadVars
    /\ WF_<<inflateVars, blockVars>>(FileStream \/ BlockStep)

-----------------------------------------------------------------------------
(* Properties.                                                             *)

\* The types of the block streams' variables.
PayloadTypeOK ==
    /\ InflateTypeOK
    /\ \A b \in Block : /\ rangePosition[b] \in 0..BlockLength(b)
                        /\ cachePosition[b] \in 0..BlockLength(b)
                        /\ validated[b] \in BOOLEAN
    /\ relativePosition \in 0..UncompressedSize
    /\ currentBlock \in 1..(BlockCount + 1)

\* What a read that succeeded returned: the bytes of the file at the position it
\* was called at, as many as were asked for and are left, and no byte of a block
\* whose hash is wrong -- whether they came from a validation, from a cache left
\* by an earlier read or straight from the file's stream.
ValidatedBytes ==
    lastRead.why = "ok" =>
        /\ Len(lastRead.got) = Lesser(lastRead.want, UncompressedSize - lastRead.from)
        /\ \A i \in 1..Len(lastRead.got) :
              /\ lastRead.got[i] = lastRead.from + i - 1
              /\ \A b \in tampered : lastRead.got[i] \notin BlockOffset(b)..(BlockOffset(b) + BlockLength(b) - 1)

\* A block whose bytes are intact is never refused to a caller that reads from
\* the front: such a read fails only where the file's stream failed or at a
\* block that is tampered with.
IntactReads ==
    ~anyCaller => \/ lastRead.why \in {"ok", "base"}
                  \/ lastRead.why = "hash" /\ currentBlock \in tampered

\* BlockMapStream::Read returns: its loop over blocks ends.
PayloadReadReturns == reading # Nothing ~> reading = Nothing
=============================================================================
