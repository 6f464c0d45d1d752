------------------------- MODULE InflateStreamProofs -------------------------
(***************************************************************************)
(* Proofs about the inflate stream, for every size of the file, of the     *)
(* window and of the reads, and wherever the chunks of the compressed      *)
(* stream end.                                                             *)
(***************************************************************************)
EXTENDS InflateStream, SequenceTheorems, TLAPS

Running == inflateState # "UNINITIALIZED"
Copying == inflateState = "READY_TO_COPY"
Fetching == inflateState \in {"READY_TO_READ", "READY_TO_INFLATE"}
Pending == request # Nothing

\* Where the bytes of the window start in the file.
WindowStart == fileCurrentWindowPositionEnd - windowLength

(***************************************************************************)
(* The inductive invariant, for every caller.                              *)
(***************************************************************************)
StreamTypes ==
    /\ inflateState \in {"UNINITIALIZED", "READY_TO_READ", "READY_TO_INFLATE", "READY_TO_COPY"}
    /\ seekPosition \in Nat
    /\ inflateWindowPosition \in Nat
    /\ fileCurrentPosition \in Nat
    /\ fileCurrentWindowPositionEnd \in 0..UncompressedSize
    /\ windowLength \in 0..BufferSize
    /\ inflated \in 0..UncompressedSize
    /\ source \in 0..UncompressedSize
    /\ unread \in BOOLEAN
    /\ request \in ReadCall \cup {Nothing}
    /\ result \in [ok : BOOLEAN, from : Nat, want : Nat, got : Seq(Byte)]

\* m_fileCurrentWindowPositionEnd counts what zlib has produced.
WindowInv ==
    Running => /\ fileCurrentWindowPositionEnd = inflated
               /\ inflated + source <= UncompressedSize
               /\ Copying => windowLength <= inflated

\* m_fileCurrentPosition never runs ahead of the seek position, nor of the place
\* in the window that the next byte is copied from.
PositionInv ==
    /\ fileCurrentPosition <= seekPosition
    /\ Fetching => fileCurrentPosition <= fileCurrentWindowPositionEnd
    /\ Copying /\ inflateWindowPosition <= windowLength =>
           fileCurrentPosition <= WindowStart + inflateWindowPosition
    /\ Pending => /\ Len(request.got) < request.want
                  /\ seekPosition <= UncompressedSize
                  /\ Running => fileCurrentPosition < UncompressedSize

StreamInv == StreamTypes /\ WindowInv /\ PositionInv

(***************************************************************************)
(* For a caller that reads front to back, starts again or looks for the    *)
(* size, the two positions agree and a window is left where it was.        *)
(***************************************************************************)
Positions ==
    /\ fileCurrentPosition <= UncompressedSize
    /\ seekPosition \in {fileCurrentPosition, UncompressedSize}
    /\ ~Running => fileCurrentPosition \in {0, UncompressedSize}
    /\ Fetching => fileCurrentPosition = fileCurrentWindowPositionEnd
    /\ Copying => /\ fileCurrentPosition = WindowStart + inflateWindowPosition
                  /\ inflateWindowPosition <= windowLength

\* The bytes of the file from a position on.
IsBytes(got, from) == \A i \in 1..Len(got) : got[i] = from + i - 1

\* What the Read() that runs has copied so far.
CallInv ==
    Pending => /\ seekPosition = fileCurrentPosition
               /\ ~Running => fileCurrentPosition = 0
               /\ request.from + Len(request.got) = seekPosition
               /\ IsBytes(request.got, request.from)

\* What a Read() that succeeded returned.
ResultInv ==
    /\ Len(result.got) = Lesser(result.want, UncompressedSize - result.from)
    /\ IsBytes(result.got, result.from)

FrontInv == result.ok => Positions /\ CallInv /\ ResultInv

\* What one step does to the call: it goes on, or ends with the stream behind the
\* last byte it returned.
CallStep ==
    /\ Pending' => /\ request'.from = request.from
                   /\ request'.want = request.want
                   /\ result' = result
    /\ ~Pending' => /\ result'.ok
                    /\ result'.from = request.from
                    /\ result'.want = request.want
                    /\ result'.from + Len(result'.got) = fileCurrentPosition'

-----------------------------------------------------------------------------
(* Operators.                                                              *)

LEMMA LesserType ==
    ASSUME NEW a \in Int, NEW b \in Int
    PROVE  /\ Lesser(a, b) \in {a, b}
           /\ Lesser(a, b) <= a
           /\ Lesser(a, b) <= b
  BY DEF Lesser

(***************************************************************************)
(* A sequence of bytes followed by n more bytes.                           *)
(***************************************************************************)
LEMMA MoreBytes ==
    ASSUME NEW s \in Seq(Byte), NEW n \in Nat, NEW f \in [1..n -> Byte]
    PROVE  /\ s \o f \in Seq(Byte)
           /\ Len(s \o f) = Len(s) + n
           /\ \A i \in 1..Len(s) : (s \o f)[i] = s[i]
           /\ \A i \in 1..n : (s \o f)[Len(s) + i] = f[i]
<1>1. f \in Seq(Byte)
    BY SeqDef
<1>2. Len(f) = n
    BY <1>1, LenProperties
<1>3. Len(s) \in Nat
    BY LenProperties
<1>4. \A i \in 1..(Len(s) + n) : (s \o f)[i] = IF i <= Len(s) THEN s[i] ELSE f[i - Len(s)]
    BY <1>1, <1>2, ConcatProperties
<1>5. ASSUME NEW i \in 1..n
      PROVE  (s \o f)[Len(s) + i] = f[i]
  <2>1. Len(s) + i \in 1..(Len(s) + n) /\ ~(Len(s) + i <= Len(s)) /\ (Len(s) + i) - Len(s) = i
      BY <1>3
  <2> QED
      BY <1>4, <2>1
<1>6. ASSUME NEW i \in 1..Len(s)
      PROVE  (s \o f)[i] = s[i]
  <2>1. i \in 1..(Len(s) + n) /\ i <= Len(s)
      BY <1>3
  <2> QED
      BY <1>4, <2>1
<1> QED
    BY <1>1, <1>2, <1>5, <1>6, ConcatProperties

LEMMA EmptyBytes == <<>> \in Seq(Byte) /\ Len(<<>>) = 0
  BY EmptySeq


-----------------------------------------------------------------------------
(* The calls and the handlers keep the invariant, whoever calls.           *)

LEMMA StreamInit == InflateInit => StreamInv
  BY InflateAssumption, EmptyBytes
     DEF InflateInit, StreamInv, StreamTypes, WindowInv, PositionInv, Running, Copying,
         Fetching, Pending

LEMMA StreamSeek ==
    ASSUME StreamInv, NEW target \in Nat, Seek(target)
    PROVE  StreamInv'
<1> DEFINE position == Lesser(target, UncompressedSize)
<1>1. position \in Nat
    BY InflateAssumption DEF Lesser
<1> HIDE DEF position
<1>2. /\ request = Nothing /\ seekPosition' = position
      /\ UNCHANGED <<windowVars, zlibVars, request, result>>
    BY DEF Seek, position
<1> USE DEF StreamInv, StreamTypes, WindowInv, PositionInv, Running, Copying, Fetching,
            Pending, WindowStart, windowVars, zlibVars
<1>3. CASE position # seekPosition /\ position < fileCurrentPosition
  <2>1. inflateState' = "UNINITIALIZED" /\ fileCurrentPosition' = 0
      BY <1>3 DEF Seek, position
  <2> QED
      BY <1>1, <1>2, <2>1
<1>4. CASE ~(position # seekPosition /\ position < fileCurrentPosition)
  <2>1. UNCHANGED <<inflateState, fileCurrentPosition>>
      BY <1>4 DEF Seek, position
  <2> QED
      BY <1>1, <1>2, <1>4, <2>1
<1> QED
    BY <1>3, <1>4

LEMMA StreamBeginRead ==
    ASSUME StreamInv, NEW countBytes \in Nat \ {0}, BeginRead(countBytes)
    PROVE  StreamInv'
<1> DEFINE call == [from |-> seekPosition, want |-> countBytes, got |-> <<>>]
           past == [ok |-> TRUE, from |-> seekPosition, want |-> countBytes, got |-> <<>>]
<1>1. /\ call \in ReadCall
      /\ past \in [ok : BOOLEAN, from : Nat, want : Nat, got : Seq(Byte)]
      /\ Len(call.got) < call.want
    BY EmptyBytes DEF StreamInv, StreamTypes, ReadCall
<1>2. \/ seekPosition < UncompressedSize /\ request' = call /\ UNCHANGED result
      \/ result' = past /\ UNCHANGED request /\ request = Nothing
    BY DEF BeginRead
<1> HIDE DEF call, past
<1>3. UNCHANGED <<inflateState, seekPosition, fileCurrentPosition, windowVars, zlibVars>>
    BY DEF BeginRead
<1> USE DEF StreamInv, StreamTypes, WindowInv, PositionInv, Running, Copying, Fetching,
            Pending, WindowStart, windowVars, zlibVars
<1>4. StreamTypes' /\ WindowInv'
    BY <1>1, <1>2, <1>3
<1>5. PositionInv'
    BY <1>1, <1>2, <1>3, InflateAssumption
<1> QED
    BY <1>4, <1>5

\* A handler that fails: the call ends, and the stream is left as it was or
\* starts again.
LEMMA ReadFailsTypes ==
    ASSUME StreamTypes, Pending, ReadFails
    PROVE  /\ request' = Nothing
           /\ ~result'.ok
           /\ result' \in [ok : BOOLEAN, from : Nat, want : Nat, got : Seq(Byte)]
           /\ result'.from = request.from /\ result'.want = request.want
  BY DEF ReadFails, StreamTypes, Pending, ReadCall

LEMMA StreamFails == StreamInv /\ HandlerFails => StreamInv'
<1> SUFFICES ASSUME StreamInv, HandlerFails
             PROVE  StreamInv'
    OBVIOUS
<1>1. Pending /\ ReadFails
    BY DEF HandlerFails, UninitializedFails, ReadyToReadFails, ReadyToInflateFails, Pending
<1>2. /\ request' = Nothing
      /\ result' \in [ok : BOOLEAN, from : Nat, want : Nat, got : Seq(Byte)]
    BY <1>1, ReadFailsTypes DEF StreamInv
<1> USE InflateAssumption
    DEF StreamInv, StreamTypes, WindowInv, PositionInv, Running, Copying, Fetching, Pending,
        WindowStart, windowVars, zlibVars
<1>3. CASE UninitializedFails
    BY <1>2, <1>3 DEF UninitializedFails
<1>4. CASE ReadyToReadFails
    BY <1>2, <1>4 DEF ReadyToReadFails
<1>5. CASE ReadyToInflateFails
    BY <1>2, <1>5 DEF ReadyToInflateFails
<1> QED
    BY <1>3, <1>4, <1>5 DEF HandlerFails


(***************************************************************************)
(* The loop of Read() goes on with one more part of the request, or ends.  *)
(***************************************************************************)
LEMMA ReadGoesOnTypes ==
    ASSUME StreamTypes, Pending, NEW got \in Seq(Byte), NEW stay \in BOOLEAN,
           ReadGoesOn(got, stay)
    PROVE  \/ /\ stay /\ Len(got) < request.want
              /\ request' = [from |-> request.from, want |-> request.want, got |-> got]
              /\ request' \in ReadCall
              /\ result' = result
           \/ /\ ~(stay /\ Len(got) < request.want)
              /\ request' = Nothing
              /\ result' = [ok |-> TRUE, from |-> request.from, want |-> request.want,
                            got |-> got]
              /\ result' \in [ok : BOOLEAN, from : Nat, want : Nat, got : Seq(Byte)]
<1>1. request \in ReadCall
    BY DEF StreamTypes, Pending
<1>2. request.from \in Nat /\ request.want \in Nat
    BY <1>1 DEF ReadCall
<1>3. CASE stay /\ Len(got) < request.want
  <2>1. [request EXCEPT !.got = got] = [from |-> request.from, want |-> request.want, got |-> got]
      BY <1>1 DEF ReadCall
  <2>2. [request EXCEPT !.got = got] \in ReadCall
      BY <1>2, <2>1 DEF ReadCall
  <2> QED
      BY <1>3, <2>1, <2>2 DEF ReadGoesOn
<1>4. CASE ~(stay /\ Len(got) < request.want)
  <2>1. /\ request' = Nothing
        /\ result' = [ok |-> TRUE, from |-> request.from, want |-> request.want, got |-> got]
      BY <1>4 DEF ReadGoesOn
  <2>2. result' \in [ok : BOOLEAN, from : Nat, want : Nat, got : Seq(Byte)]
      BY <1>2, <2>1
  <2> QED
      BY <1>4, <2>1, <2>2
<1> QED
    BY <1>3, <1>4

\* The bytes one call of the handler copies out of the window.
Copied == [i \in 1..CopyCount |-> WindowByte(SkippedTo + i - 1)]

(***************************************************************************)
(* What CopyWindow copies, when the place to copy from is in the buffer.   *)
(***************************************************************************)
LEMMA CopyFacts ==
    ASSUME StreamInv, Pending, Copying
    PROVE  /\ SkippedTo \in Nat /\ SkippedTo >= inflateWindowPosition
           /\ CopyCount \in Nat
           /\ CopyCount <= request.want - Len(request.got)
           /\ SkippedTo < windowLength => CopyCount <= windowLength - SkippedTo
           /\ SkippedTo >= windowLength => CopyCount = request.want - Len(request.got)
           /\ request.got \o Copied \in Seq(Byte)
           /\ Len(request.got \o Copied) = Len(request.got) + CopyCount
           /\ \A i \in 1..Len(request.got) : (request.got \o Copied)[i] = request.got[i]
           /\ \A i \in 1..CopyCount :
                 (request.got \o Copied)[Len(request.got) + i] = WindowByte(SkippedTo + i - 1)
<1>1. request \in ReadCall
    BY DEF StreamInv, StreamTypes, Pending
<1>2. request.want \in Nat /\ request.got \in Seq(Byte) /\ Len(request.got) \in Nat
    BY <1>1, LenProperties DEF ReadCall
<1>3. SkippedTo \in Nat /\ SkippedTo >= inflateWindowPosition
    BY DEF SkippedTo, StreamInv, StreamTypes, PositionInv
<1>4. Len(request.got) < request.want
    BY DEF StreamInv, PositionInv
<1>5. /\ CopyCount \in Nat
      /\ CopyCount <= request.want - Len(request.got)
      /\ SkippedTo < windowLength => CopyCount <= windowLength - SkippedTo
      /\ SkippedTo >= windowLength => CopyCount = request.want - Len(request.got)
    BY <1>2, <1>3, <1>4, InflateAssumption DEF CopyCount, Lesser, StreamInv, StreamTypes
<1>6. \A i \in 1..CopyCount : WindowByte(SkippedTo + i - 1) \in Byte
  <2> SUFFICES ASSUME NEW i \in 1..CopyCount
               PROVE  WindowByte(SkippedTo + i - 1) \in Byte
      OBVIOUS
  <2>1. SkippedTo + i - 1 \in Nat
      BY <1>3, <1>5
  <2>2. inflated \in Nat /\ windowLength \in Nat /\ windowLength <= inflated
      BY InflateAssumption DEF StreamInv, StreamTypes, WindowInv, Copying, Running
  <2> QED
      BY <2>1, <2>2 DEF WindowByte, Byte
<1>7. Copied \in [1..CopyCount -> Byte]
    BY <1>6 DEF Copied
<1>8. \A i \in 1..CopyCount : Copied[i] = WindowByte(SkippedTo + i - 1)
    BY DEF Copied
<1>9. /\ request.got \o Copied \in Seq(Byte)
      /\ Len(request.got \o Copied) = Len(request.got) + CopyCount
      /\ \A i \in 1..Len(request.got) : (request.got \o Copied)[i] = request.got[i]
      /\ \A i \in 1..CopyCount : (request.got \o Copied)[Len(request.got) + i] = Copied[i]
    BY <1>2, <1>5, <1>7, MoreBytes
<1> QED
    BY <1>3, <1>5, <1>8, <1>9


LEMMA StreamCopyWindow == StreamInv /\ CopyWindow => StreamInv'
<1> SUFFICES ASSUME StreamInv, CopyWindow
             PROVE  StreamInv'
    OBVIOUS
<1> DEFINE n == CopyCount
           k == SkippedTo
           got == request.got \o Copied
<1>1. /\ Pending /\ Copying /\ Running
      /\ fileCurrentWindowPositionEnd >= seekPosition
      /\ k # windowLength
      /\ UNCHANGED <<fileCurrentWindowPositionEnd, windowLength, inflated, source, unread>>
    BY DEF CopyWindow, Pending, Copying, Running, zlibVars
<1>2. /\ k \in Nat /\ k >= inflateWindowPosition
      /\ n \in Nat /\ n <= request.want - Len(request.got)
      /\ k < windowLength => n <= windowLength - k
      /\ k >= windowLength => n = request.want - Len(request.got)
      /\ got \in Seq(Byte) /\ Len(got) = Len(request.got) + n
    BY <1>1, CopyFacts
<1>3. k = inflateWindowPosition + (seekPosition - fileCurrentPosition)
    BY DEF SkippedTo
<1>4. request \in ReadCall /\ request.want \in Nat /\ Len(request.got) \in Nat
    BY <1>1, LenProperties DEF StreamInv, StreamTypes, Pending, ReadCall
<1>5. CASE k >= BufferSize
  <2>1. /\ inflateWindowPosition' = Lesser(k, MaxWindowPosition)
        /\ ReadFails
        /\ UNCHANGED <<inflateState, seekPosition, fileCurrentPosition>>
      BY <1>5 DEF CopyWindow
  <2>2. /\ request' = Nothing
        /\ result' \in [ok : BOOLEAN, from : Nat, want : Nat, got : Seq(Byte)]
      BY <1>1, <2>1, ReadFailsTypes DEF StreamInv
  <2>3. inflateWindowPosition' \in Nat /\ inflateWindowPosition' > windowLength
      BY <1>1, <1>2, <1>5, <2>1, InflateAssumption
         DEF Lesser, MaxWindowPosition, StreamInv, StreamTypes
  <2> QED
      BY <1>1, <2>1, <2>2, <2>3
         DEF StreamInv, StreamTypes, WindowInv, PositionInv, Running, Copying, Fetching,
             Pending, WindowStart
<1>6. CASE k < BufferSize
  <2>1. /\ seekPosition' = seekPosition + n
        /\ inflateWindowPosition' = k + n
        /\ fileCurrentPosition' = fileCurrentPosition + n
        /\ inflateState' = IF fileCurrentPosition' = UncompressedSize
                              THEN "UNINITIALIZED" ELSE "READY_TO_COPY"
        /\ ReadGoesOn(got, fileCurrentPosition' # UncompressedSize)
      BY <1>2, <1>6, InflateAssumption DEF CopyWindow, Copied
  <2> HIDE DEF n, k, got
  <2>2. \/ /\ fileCurrentPosition' # UncompressedSize /\ Len(got) < request.want
           /\ request' = [from |-> request.from, want |-> request.want, got |-> got]
           /\ request' \in ReadCall
           /\ result' = result
        \/ /\ ~(fileCurrentPosition' # UncompressedSize /\ Len(got) < request.want)
           /\ request' = Nothing
           /\ result' = [ok |-> TRUE, from |-> request.from, want |-> request.want,
                         got |-> got]
           /\ result' \in [ok : BOOLEAN, from : Nat, want : Nat, got : Seq(Byte)]
      BY <1>1, <1>2, <2>1, ReadGoesOnTypes DEF StreamInv
  <2>3. StreamTypes'
    <3>1. /\ request' \in ReadCall \cup {Nothing}
          /\ result' \in [ok : BOOLEAN, from : Nat, want : Nat, got : Seq(Byte)]
        BY <2>2 DEF StreamInv, StreamTypes
    <3>2. seekPosition' \in Nat /\ inflateWindowPosition' \in Nat /\ fileCurrentPosition' \in Nat
        BY <1>2, <2>1 DEF StreamInv, StreamTypes
    <3> QED
        BY <1>1, <2>1, <3>1, <3>2 DEF StreamInv, StreamTypes
  <2>4. WindowInv'
      BY <1>1, <2>1 DEF StreamInv, WindowInv, Running, Copying
  <2>5. k < windowLength =>
            /\ fileCurrentPosition <= WindowStart + inflateWindowPosition
            /\ fileCurrentPosition' <= WindowStart' + inflateWindowPosition'
            /\ fileCurrentPosition' <= UncompressedSize
            /\ seekPosition' <= UncompressedSize
    <3> SUFFICES ASSUME k < windowLength
                 PROVE  /\ fileCurrentPosition <= WindowStart + inflateWindowPosition
                        /\ fileCurrentPosition' <= WindowStart' + inflateWindowPosition'
                        /\ fileCurrentPosition' <= UncompressedSize
                        /\ seekPosition' <= UncompressedSize
        OBVIOUS
    <3>1. /\ seekPosition \in Nat /\ fileCurrentPosition \in Nat
          /\ inflateWindowPosition \in Nat /\ windowLength \in Nat
          /\ fileCurrentWindowPositionEnd \in Nat
          /\ fileCurrentWindowPositionEnd <= UncompressedSize
          /\ UncompressedSize \in Nat
        BY InflateAssumption DEF StreamInv, StreamTypes
    <3>2. inflateWindowPosition <= windowLength
        BY <1>2, <3>1
    <3>3. /\ fileCurrentPosition <= WindowStart + inflateWindowPosition
          /\ fileCurrentPosition <= seekPosition
        BY <1>1, <3>2 DEF StreamInv, PositionInv
    <3>4. n <= windowLength - k
        BY <1>2
    <3>5. WindowStart' = WindowStart
        BY <1>1 DEF WindowStart
    <3> QED
        BY <1>2, <1>3, <2>1, <3>1, <3>3, <3>4, <3>5 DEF WindowStart
  <2>6. k > windowLength => request' = Nothing /\ inflateWindowPosition' > windowLength
    <3> SUFFICES ASSUME k > windowLength
                 PROVE  request' = Nothing /\ inflateWindowPosition' > windowLength
        OBVIOUS
    <3>1. windowLength \in Nat
        BY InflateAssumption DEF StreamInv, StreamTypes
    <3>2. Len(got) = request.want
        BY <1>2, <1>4, <3>1
    <3>3. ~(Len(got) < request.want)
        BY <1>4, <3>2
    <3> QED
        BY <1>2, <2>1, <2>2, <3>1, <3>3
  <2>7. k < windowLength \/ k > windowLength
      BY <1>1, <1>2 DEF StreamInv, StreamTypes
  <2>8. PositionInv'
    <3>1. fileCurrentPosition' <= seekPosition'
        BY <1>2, <2>1 DEF StreamInv, StreamTypes, PositionInv
    <3>2. ~Fetching'
        BY <2>1 DEF Fetching
    <3>3. Copying' /\ inflateWindowPosition' <= windowLength' =>
              fileCurrentPosition' <= WindowStart' + inflateWindowPosition'
        BY <1>1, <1>2, <2>1, <2>5, <2>6, <2>7 DEF StreamInv, StreamTypes
    <3>4. Pending' => /\ Len(request'.got) < request'.want
                      /\ seekPosition' <= UncompressedSize
                      /\ Running' => fileCurrentPosition' < UncompressedSize
      <4> SUFFICES ASSUME Pending'
                   PROVE  /\ Len(request'.got) < request'.want
                          /\ seekPosition' <= UncompressedSize
                          /\ fileCurrentPosition' < UncompressedSize
          OBVIOUS
      <4>1. /\ fileCurrentPosition' # UncompressedSize /\ Len(got) < request.want
            /\ request' = [from |-> request.from, want |-> request.want, got |-> got]
          BY <2>2 DEF Pending
      <4>2. k < windowLength
          BY <2>6, <2>7 DEF Pending
      <4>3. fileCurrentPosition' \in Nat
          BY <2>3 DEF StreamTypes
      <4> QED
          BY <2>5, <4>1, <4>2, <4>3, InflateAssumption
    <3> QED
        BY <3>1, <3>2, <3>3, <3>4 DEF PositionInv
  <2> QED
      BY <2>3, <2>4, <2>8 DEF StreamInv
<1> QED
    BY <1>2, <1>5, <1>6, InflateAssumption


LEMMA StreamHandler == StreamInv /\ Handler => StreamInv'
<1> SUFFICES ASSUME StreamInv, Handler
             PROVE  StreamInv'
    OBVIOUS
<1> USE InflateAssumption
<1>1. CASE Uninitialized
    BY <1>1 DEF Uninitialized, StreamInv, StreamTypes, WindowInv, PositionInv, Running,
                Copying, Fetching, Pending, WindowStart, windowVars, zlibVars
<1>2. CASE ReadyToRead
  <2>1. PICK bytes \in 0..(UncompressedSize - inflated) :
           /\ source' = bytes
           /\ unread' \in IF inflated + bytes < UncompressedSize THEN {TRUE}
                          ELSE IF bytes = 0 THEN {FALSE} ELSE BOOLEAN
      BY <1>2 DEF ReadyToRead
  <2>2. unread' \in BOOLEAN
      BY <2>1
  <2>3. source' \in 0..UncompressedSize /\ inflated + source' <= UncompressedSize
      BY <2>1 DEF StreamInv, StreamTypes
  <2> QED
    BY <1>2, <2>2, <2>3
            DEF ReadyToRead, StreamInv, StreamTypes, WindowInv, PositionInv, Running,
                Copying, Fetching, Pending, WindowStart, windowVars, zlibVars
<1>3. CASE ReadyToInflate
  <2> DEFINE produced == Lesser(BufferSize, source)
  <2>1. produced \in 0..BufferSize /\ produced <= source
      BY DEF Lesser, StreamInv, StreamTypes
  <2>2. /\ inflateState = "READY_TO_INFLATE" /\ inflateState' = "READY_TO_COPY"
        /\ windowLength' = produced
        /\ inflated' = inflated + produced
        /\ source' = source - produced
        /\ fileCurrentWindowPositionEnd' = fileCurrentWindowPositionEnd + produced
        /\ inflateWindowPosition' = 0
        /\ UNCHANGED <<seekPosition, fileCurrentPosition, unread, request, result>>
      BY <1>3 DEF ReadyToInflate
  <2> HIDE DEF produced
  <2>3. /\ fileCurrentWindowPositionEnd = inflated
        /\ inflated + source <= UncompressedSize
        /\ fileCurrentPosition <= fileCurrentWindowPositionEnd
      BY <2>2 DEF StreamInv, WindowInv, PositionInv, Running, Fetching
  <2>4. StreamTypes'
      BY <2>1, <2>2, <2>3 DEF StreamInv, StreamTypes
  <2>5. WindowInv'
      BY <2>1, <2>2, <2>3 DEF StreamInv, StreamTypes, WindowInv
  <2>6. PositionInv'
      BY <2>1, <2>2, <2>3
         DEF StreamInv, StreamTypes, PositionInv, Fetching, Copying, Pending, Running, WindowStart
  <2> QED
      BY <2>4, <2>5, <2>6 DEF StreamInv
<1>4. NextFetch \in {"READY_TO_READ", "READY_TO_INFLATE"}
    BY DEF NextFetch
<1>5. CASE SkipWindow
    BY <1>4, <1>5
       DEF SkipWindow, StreamInv, StreamTypes, WindowInv, PositionInv, Running,
           Copying, Fetching, Pending, WindowStart, windowVars, zlibVars
<1>6. CASE FetchWindow
  <2>1. fileCurrentPosition <= fileCurrentWindowPositionEnd
      BY <1>6 DEF FetchWindow, SkippedTo, StreamInv, StreamTypes, PositionInv, Copying, WindowStart
  <2> QED
      BY <1>4, <1>6, <2>1
         DEF FetchWindow, SkippedTo, StreamInv, StreamTypes, WindowInv, PositionInv,
             Running, Copying, Fetching, Pending, WindowStart, windowVars, zlibVars
<1>7. CASE CopyWindow
    BY <1>7, StreamCopyWindow
<1> QED
    BY <1>1, <1>2, <1>3, <1>5, <1>6, <1>7 DEF Handler


-----------------------------------------------------------------------------
(* For a caller that reads from the front.                                 *)

LEMMA FrontInit == InflateInit => FrontInv
<1> SUFFICES ASSUME InflateInit
             PROVE  FrontInv
    OBVIOUS
<1>1. result.got = <<>> /\ result.from = 0 /\ result.want = 0 /\ request = Nothing
    BY DEF InflateInit
<1>2. ResultInv
    BY <1>1, EmptyBytes, InflateAssumption DEF ResultInv, IsBytes, Lesser
<1>3. Positions /\ CallInv
    BY <1>1, InflateAssumption
       DEF InflateInit, Positions, CallInv, Running, Fetching, Copying, Pending
<1> QED
    BY <1>2, <1>3 DEF FrontInv

LEMMA FrontSeek ==
    ASSUME StreamInv, FrontInv,
           NEW target \in {0, fileCurrentPosition, UncompressedSize}, Seek(target)
    PROVE  FrontInv'
<1> SUFFICES ASSUME result.ok
             PROVE  Positions' /\ CallInv' /\ ResultInv'
    BY DEF FrontInv, Seek
<1> USE InflateAssumption
<1> DEFINE position == Lesser(target, UncompressedSize)
<1>1. Positions /\ ResultInv
    BY DEF FrontInv
<1>2. position = target
    BY <1>1 DEF Positions, Lesser, StreamInv, StreamTypes
<1>3. /\ request = Nothing /\ seekPosition' = target
      /\ UNCHANGED <<windowVars, zlibVars, request, result>>
    BY <1>2 DEF Seek
<1>4. ResultInv' /\ CallInv'
    BY <1>1, <1>3 DEF ResultInv, IsBytes, CallInv, Pending
<1>5. CASE target # seekPosition /\ target < fileCurrentPosition
  <2>1. inflateState' = "UNINITIALIZED" /\ fileCurrentPosition' = 0
      BY <1>2, <1>5 DEF Seek
  <2>2. target = 0
      BY <1>1, <1>5 DEF Positions, StreamInv, StreamTypes
  <2> QED
      BY <1>3, <1>4, <2>1, <2>2 DEF Positions, Running, Fetching, Copying
<1>6. CASE ~(target # seekPosition /\ target < fileCurrentPosition)
  <2>1. UNCHANGED <<inflateState, fileCurrentPosition>>
      BY <1>2, <1>6 DEF Seek
  <2>2. target \in {fileCurrentPosition, UncompressedSize}
      BY <1>1, <1>6 DEF Positions, StreamInv, StreamTypes, PositionInv
  <2> QED
      BY <1>1, <1>3, <1>4, <2>1, <2>2
         DEF Positions, Running, Fetching, Copying, WindowStart, windowVars, zlibVars
<1> QED
    BY <1>5, <1>6

LEMMA FrontBeginRead ==
    ASSUME StreamInv, FrontInv, result.ok,
           NEW countBytes \in Nat \ {0}, BeginRead(countBytes)
    PROVE  FrontInv'
<1> USE InflateAssumption
<1>1. UNCHANGED <<inflateState, seekPosition, fileCurrentPosition, windowVars, zlibVars>>
    BY DEF BeginRead
<1>2. CASE seekPosition < UncompressedSize
  <2>1. /\ request' = [from |-> seekPosition, want |-> countBytes, got |-> <<>>]
        /\ UNCHANGED result
      BY <1>2 DEF BeginRead
  <2> SUFFICES ASSUME result.ok
               PROVE  Positions' /\ CallInv' /\ ResultInv'
      BY <2>1 DEF FrontInv
  <2>2. Positions /\ ResultInv
      BY DEF FrontInv
  <2>3. seekPosition = fileCurrentPosition /\ (~Running => fileCurrentPosition = 0)
      BY <1>2, <2>2 DEF Positions
  <2>4. /\ request'.from = seekPosition /\ Len(request'.got) = 0 /\ seekPosition \in Nat
      BY <2>1, EmptyBytes DEF StreamInv, StreamTypes
  <2>5. CallInv'
      BY <1>1, <2>3, <2>4 DEF CallInv, Running, IsBytes
  <2>6. Positions'
      BY <1>1, <2>2
         DEF Positions, Running, Fetching, Copying, WindowStart, windowVars, zlibVars
  <2>7. ResultInv'
      BY <2>1, <2>2 DEF ResultInv, IsBytes
  <2> QED
      BY <2>5, <2>6, <2>7
<1>3. CASE ~(seekPosition < UncompressedSize)
  <2>1. /\ result' = [ok |-> TRUE, from |-> seekPosition, want |-> countBytes, got |-> <<>>]
        /\ UNCHANGED request /\ request = Nothing
      BY <1>3 DEF BeginRead
  <2>2. result'.from = seekPosition /\ result'.want = countBytes /\ Len(result'.got) = 0
      BY <2>1, EmptyBytes
  <2>3. seekPosition = UncompressedSize => ResultInv'
      BY <2>2 DEF ResultInv, IsBytes, Lesser
  <2>4. Positions
      BY DEF FrontInv
  <2>5. seekPosition = UncompressedSize
      BY <1>3, <2>4 DEF Positions, StreamInv, StreamTypes
  <2>6. Positions'
      BY <1>1, <2>4
         DEF Positions, Running, Fetching, Copying, WindowStart, windowVars, zlibVars
  <2> QED
      BY <2>1, <2>3, <2>5, <2>6 DEF FrontInv, CallInv, Pending
<1> QED
    BY <1>2, <1>3


LEMMA FrontCopyWindow ==
    ASSUME StreamInv, FrontInv, result.ok, CopyWindow
    PROVE  FrontInv' /\ CallStep
<1> USE InflateAssumption
<1> DEFINE n == CopyCount
           got == request.got \o Copied
<1>1. /\ Pending /\ Copying /\ Running
      /\ SkippedTo # windowLength
      /\ UNCHANGED <<fileCurrentWindowPositionEnd, windowLength, inflated, source, unread>>
    BY DEF CopyWindow, Pending, Copying, Running, zlibVars
<1>2. Positions /\ CallInv /\ ResultInv
    BY DEF FrontInv
<1>3. /\ seekPosition \in Nat /\ fileCurrentPosition \in Nat
      /\ inflateWindowPosition \in Nat /\ windowLength \in Nat
      /\ fileCurrentWindowPositionEnd \in Nat
      /\ fileCurrentWindowPositionEnd <= UncompressedSize
      /\ windowLength <= BufferSize
      /\ inflated = fileCurrentWindowPositionEnd
    BY <1>1 DEF StreamInv, StreamTypes, WindowInv
<1>4. /\ seekPosition = fileCurrentPosition
      /\ fileCurrentPosition = (fileCurrentWindowPositionEnd - windowLength) + inflateWindowPosition
      /\ inflateWindowPosition <= windowLength
    BY <1>1, <1>2 DEF Positions, CallInv, WindowStart
<1>5. SkippedTo = inflateWindowPosition /\ SkippedTo < windowLength /\ SkippedTo < BufferSize
    BY <1>1, <1>3, <1>4 DEF SkippedTo
<1>6. /\ request.from \in Nat /\ request.want \in Nat /\ Len(request.got) \in Nat
      /\ Len(request.got) < request.want
  <2>1. request \in ReadCall
      BY <1>1 DEF StreamInv, StreamTypes, Pending
  <2> QED
      BY <1>1, <2>1, LenProperties DEF StreamInv, PositionInv, ReadCall
<1>7. /\ n \in Nat /\ n <= request.want - Len(request.got)
      /\ n <= windowLength - SkippedTo
      /\ got \in Seq(Byte) /\ Len(got) = Len(request.got) + n
    BY <1>1, <1>5, CopyFacts
<1>7a. n \in Nat /\ n <= request.want - Len(request.got) /\ n <= windowLength - SkippedTo
    BY <1>7
<1>7b. Len(got) = Len(request.got) + n
    BY <1>7
<1>7c. SkippedTo \in Nat
    BY <1>3, <1>5
<1>7d. request.from + Len(request.got) = seekPosition
    BY <1>1, <1>2 DEF CallInv
<1>7e. \A i \in 1..Len(request.got) : got[i] = request.got[i]
    BY <1>1, <1>5, CopyFacts
<1>7f. \A i \in 1..n : got[Len(request.got) + i] = WindowByte(SkippedTo + i - 1)
    BY <1>1, <1>5, CopyFacts
<1>8. /\ seekPosition' = seekPosition + n
      /\ inflateWindowPosition' = SkippedTo + n
      /\ fileCurrentPosition' = fileCurrentPosition + n
      /\ inflateState' = IF fileCurrentPosition' = UncompressedSize
                           THEN "UNINITIALIZED" ELSE "READY_TO_COPY"
      /\ ReadGoesOn(got, fileCurrentPosition' # UncompressedSize)
    BY <1>3, <1>5 DEF CopyWindow, Copied
<1> HIDE DEF n, got
<1>9. fileCurrentPosition' <= UncompressedSize
    BY <1>3, <1>4, <1>5, <1>7, <1>8
<1>10. Positions'
    BY <1>1, <1>3, <1>4, <1>5, <1>7, <1>8, <1>9
       DEF Positions, Running, Fetching, Copying, WindowStart
<1>11. IsBytes(got, request.from)
  <2> SUFFICES ASSUME NEW i \in 1..Len(got)
               PROVE  got[i] = request.from + i - 1
      BY DEF IsBytes
  <2>1. CASE i <= Len(request.got)
    <3>1. i \in 1..Len(request.got)
        BY <1>6, <1>7a, <1>7b, <2>1
    <3> QED
        BY <1>1, <1>2, <1>7e, <3>1 DEF CallInv, IsBytes
  <2>2. CASE ~(i <= Len(request.got))
    <3> DEFINE j == i - Len(request.got)
    <3>1. j \in 1..n /\ i = Len(request.got) + j
        BY <1>6, <1>7a, <1>7b, <2>2
    <3> HIDE DEF j
    <3>2. got[i] = WindowByte(SkippedTo + j - 1)
        BY <1>7f, <3>1
    <3>3. SkippedTo + j - 1 < windowLength
        BY <1>3, <1>7a, <1>7c, <3>1
    <3>4. got[i] = inflated - windowLength + (SkippedTo + j - 1)
        BY <3>2, <3>3 DEF WindowByte
    <3>5. j \in Int
        BY <1>7a, <3>1
    <3>6. inflated - windowLength + (SkippedTo + j - 1) = seekPosition + j - 1
        BY <1>3, <1>4, <1>5, <3>5
    <3>7. request.from + i - 1 = seekPosition + j - 1
        BY <1>6, <1>7d, <3>1, <3>5
    <3> QED
        BY <3>4, <3>6, <3>7
  <2> QED
      BY <2>1, <2>2
<1>12. request.from + Len(got) = seekPosition' /\ seekPosition' = fileCurrentPosition'
  <2>1. \A f, g, m \in Nat : f + (g + m) = (f + g) + m
      OBVIOUS
  <2>2. request.from + (Len(request.got) + n) = seekPosition + n
      BY <1>6, <1>7a, <1>7d, <2>1
  <2>3. seekPosition' = seekPosition + n /\ fileCurrentPosition' = fileCurrentPosition + n
      BY <1>8
  <2> QED
      BY <1>4, <1>7b, <2>2, <2>3
<1>13. \/ /\ fileCurrentPosition' # UncompressedSize /\ Len(got) < request.want
          /\ request' = [from |-> request.from, want |-> request.want, got |-> got]
          /\ result' = result
       \/ /\ ~(fileCurrentPosition' # UncompressedSize /\ Len(got) < request.want)
          /\ request' = Nothing
          /\ result' = [ok |-> TRUE, from |-> request.from, want |-> request.want,
                        got |-> got]
    BY <1>1, <1>7, <1>8, ReadGoesOnTypes DEF StreamInv
<1>14. CallInv'
  <2> SUFFICES ASSUME Pending'
               PROVE  CallInv'
      BY DEF CallInv
  <2>1. /\ request'.got = got /\ request'.from = request.from
        /\ fileCurrentPosition' # UncompressedSize
      BY <1>13 DEF Pending
  <2>2. Running'
      BY <1>8, <2>1 DEF Running
  <2> QED
      BY <1>11, <1>12, <2>1, <2>2 DEF CallInv
<1>15. ResultInv'
  <2>1. CASE result' = result
      BY <1>2, <2>1 DEF ResultInv, IsBytes
  <2>2. CASE /\ ~(fileCurrentPosition' # UncompressedSize /\ Len(got) < request.want)
             /\ result' = [ok |-> TRUE, from |-> request.from, want |-> request.want,
                           got |-> got]
    <3>1. result'.got = got /\ result'.from = request.from /\ result'.want = request.want
        BY <2>2
    <3>2. Len(got) = Lesser(request.want, UncompressedSize - request.from)
      <4> DEFINE k == Len(got)
                 want == request.want
                 from == request.from
                 end == fileCurrentPosition'
      <4>1. /\ k \in Nat /\ want \in Nat /\ from \in Nat /\ k <= want
            /\ UncompressedSize \in Nat
          BY <1>6, <1>7a, <1>7b, InflateAssumption
      <4>2. from + k = end /\ end <= UncompressedSize
          BY <1>9, <1>12
      <4>3. end = UncompressedSize \/ ~(k < want)
          BY <2>2
      <4> HIDE DEF k, want, from, end
      <4>4. k = UncompressedSize - from \/ ~(k < want)
          BY <4>1, <4>2, <4>3
      <4>5. k <= UncompressedSize - from
          BY <4>1, <4>2
      <4>6. k = Lesser(want, UncompressedSize - from)
          BY <4>1, <4>4, <4>5 DEF Lesser
      <4> QED
          BY <4>6 DEF k, want, from
    <3> QED
        BY <1>11, <3>1, <3>2 DEF ResultInv, IsBytes
  <2> QED
      BY <1>13, <2>1, <2>2
<1>16. CallStep
  <2>1. CASE /\ request' = [from |-> request.from, want |-> request.want, got |-> got]
             /\ result' = result
    <3>1. request' \in ReadCall
        BY <1>1, <1>6, <1>7, <2>1 DEF ReadCall
    <3> QED
        BY <2>1, <3>1, NothingAssumption DEF CallStep, Pending
  <2>2. CASE /\ request' = Nothing
             /\ result' = [ok |-> TRUE, from |-> request.from, want |-> request.want,
                           got |-> got]
    <3>1. /\ result'.ok /\ result'.from = request.from
          /\ result'.want = request.want /\ result'.got = got
        BY <2>2
    <3> QED
        BY <1>12, <2>2, <3>1 DEF CallStep, Pending
  <2> QED
      BY <1>13, <2>1, <2>2
<1> QED
    BY <1>10, <1>14, <1>15, <1>16 DEF FrontInv

LEMMA FrontHandler == StreamInv /\ FrontInv /\ result.ok /\ Handler => FrontInv' /\ CallStep
<1> SUFFICES ASSUME StreamInv, FrontInv, result.ok, Handler
             PROVE  FrontInv' /\ CallStep
    OBVIOUS
<1> USE InflateAssumption
<1>1. Positions /\ CallInv /\ ResultInv /\ Pending
    BY DEF FrontInv, Handler, Uninitialized, ReadyToRead, ReadyToInflate, SkipWindow,
           FetchWindow, CopyWindow, Pending
<1>2. CASE UNCHANGED <<seekPosition, fileCurrentPosition, request, result>> /\ Positions' /\ Running'
    BY <1>1, <1>2 DEF FrontInv, CallInv, ResultInv, Pending, IsBytes, CallStep
<1>3. CASE Uninitialized
  <2>1. inflateState = "UNINITIALIZED" /\ fileCurrentPosition = 0
      BY <1>1, <1>3 DEF Uninitialized, CallInv, Running
  <2>2. Positions' /\ Running'
      BY <1>1, <1>3, <2>1 DEF Uninitialized, Positions, Running, Fetching, Copying
  <2> QED
      BY <1>2, <1>3, <2>1, <2>2 DEF Uninitialized
<1>4. CASE ReadyToRead
  <2>1. Positions' /\ Running'
      BY <1>1, <1>4 DEF ReadyToRead, Positions, Running, Fetching, Copying, windowVars
  <2> QED
      BY <1>2, <1>4, <2>1 DEF ReadyToRead
<1>5. CASE ReadyToInflate
  <2>1. Lesser(BufferSize, source) \in Nat
      BY DEF Lesser, StreamInv, StreamTypes
  <2>2. Positions' /\ Running'
      BY <1>1, <1>5, <2>1
         DEF ReadyToInflate, Positions, Running, Fetching, Copying, WindowStart,
             StreamInv, StreamTypes
  <2> QED
      BY <1>2, <1>5, <2>2 DEF ReadyToInflate
<1>6. CASE SkipWindow
  <2>1. FALSE
      BY <1>1, <1>6
         DEF SkipWindow, Positions, CallInv, Copying, WindowStart, StreamInv, StreamTypes
  <2> QED
      BY <2>1
<1>7. CASE FetchWindow
  <2>1. /\ seekPosition = fileCurrentPosition
        /\ fileCurrentPosition = WindowStart + inflateWindowPosition
        /\ inflateWindowPosition = windowLength
      BY <1>1, <1>7
         DEF FetchWindow, SkippedTo, Positions, CallInv, Copying, StreamInv, StreamTypes
  <2>2. fileCurrentPosition = fileCurrentWindowPositionEnd
      BY <2>1 DEF WindowStart, StreamInv, StreamTypes
  <2>3. NextFetch \in {"READY_TO_READ", "READY_TO_INFLATE"}
      BY DEF NextFetch
  <2>4. Positions' /\ Running'
      BY <1>1, <1>7, <2>2, <2>3
         DEF FetchWindow, Positions, Running, Fetching, Copying, zlibVars
  <2> QED
      BY <1>2, <1>7, <2>4 DEF FetchWindow
<1>8. CASE CopyWindow
    BY <1>8, FrontCopyWindow
<1> QED
    BY <1>3, <1>4, <1>5, <1>6, <1>7, <1>8 DEF Handler


-----------------------------------------------------------------------------
(***************************************************************************)
(* The invariant of the stream with the callers of InflateNext, who ask    *)
(* for at most MaxRead bytes.                                              *)
(***************************************************************************)
AskedInv ==
    /\ seekPosition <= UncompressedSize + MaxRead
    /\ Pending => request.want <= MaxRead

InflateInv ==
    /\ StreamInv
    /\ AskedInv
    /\ anyCaller \in Callers
    /\ ~anyCaller => FrontInv /\ (Pending => result.ok)

LEMMA AskedHandler ==
    StreamInv /\ AskedInv /\ Handler => AskedInv' /\ (Pending' => result' = result)
<1> SUFFICES ASSUME StreamInv, AskedInv, Handler
             PROVE  AskedInv' /\ (Pending' => result' = result)
    OBVIOUS
<1> USE InflateAssumption
<1>1. Pending /\ seekPosition <= UncompressedSize /\ request.want <= MaxRead
    BY DEF Handler, Uninitialized, ReadyToRead, ReadyToInflate, SkipWindow, FetchWindow,
           CopyWindow, Pending, StreamInv, PositionInv, AskedInv
<1>2. CASE UNCHANGED <<seekPosition, request, result>>
    BY <1>2 DEF AskedInv, Pending
<1>3. CASE CopyWindow
  <2>1. Copying
      BY <1>3 DEF CopyWindow, Copying
  <2>2. request \in ReadCall /\ request.want \in Nat /\ Len(request.got) \in Nat
      BY <1>1, LenProperties DEF StreamInv, StreamTypes, Pending, ReadCall
  <2>3. CopyCount \in Nat /\ CopyCount <= request.want /\ request.got \o Copied \in Seq(Byte)
    <3>1. /\ CopyCount \in Nat /\ CopyCount <= request.want - Len(request.got)
          /\ request.got \o Copied \in Seq(Byte)
        BY <1>1, <2>1, CopyFacts
    <3> QED
        BY <2>2, <3>1
  <2>4. seekPosition' \in {seekPosition, seekPosition + CopyCount}
      BY <1>3 DEF CopyWindow
  <2>5. seekPosition' <= UncompressedSize + MaxRead
      BY <1>1, <2>2, <2>3, <2>4 DEF StreamInv, StreamTypes
  <2>6. ReadFails \/ \E stay \in BOOLEAN : ReadGoesOn(request.got \o Copied, stay)
      BY <1>3 DEF CopyWindow, Copied
  <2>7. Pending' => request'.want = request.want /\ result' = result
    <3>1. CASE ReadFails
        BY <3>1 DEF ReadFails, Pending
    <3>2. ASSUME NEW stay \in BOOLEAN, ReadGoesOn(request.got \o Copied, stay)
          PROVE  Pending' => request'.want = request.want /\ result' = result
        BY <2>2, <3>2 DEF ReadGoesOn, Pending, ReadCall
    <3> QED
        BY <2>6, <3>1, <3>2
  <2> QED
      BY <1>1, <2>5, <2>7 DEF AskedInv
<1> QED
    BY <1>2, <1>3 DEF Handler, Uninitialized, ReadyToRead, ReadyToInflate, SkipWindow, FetchWindow

LEMMA InflateInvInit == InflateInit => InflateInv
<1> SUFFICES ASSUME InflateInit
             PROVE  InflateInv
    OBVIOUS
<1>1. AskedInv /\ anyCaller \in Callers /\ ~Pending
    BY InflateAssumption DEF InflateInit, AskedInv, Pending
<1> QED
    BY <1>1, StreamInit, FrontInit DEF InflateInv

LEMMA InflateInvNext == InflateInv /\ [InflateNext]_<<inflateVars, anyCaller>> => InflateInv'
<1> SUFFICES ASSUME InflateInv, [InflateNext]_<<inflateVars, anyCaller>>
             PROVE  InflateInv'
    OBVIOUS
<1> USE InflateAssumption
<1>1. anyCaller' = anyCaller /\ anyCaller \in Callers /\ StreamInv /\ AskedInv
    BY DEF InflateNext, InflateInv
<1>2. ~anyCaller => FrontInv /\ (Pending => result.ok)
    BY DEF InflateInv
<1>3. CASE Handler
  <2>1. Pending
      BY <1>3 DEF Handler, Uninitialized, ReadyToRead, ReadyToInflate, SkipWindow, FetchWindow,
                  CopyWindow, Pending
  <2>2. ~anyCaller => FrontInv'
      BY <1>1, <1>2, <1>3, <2>1, FrontHandler
  <2>3. StreamInv' /\ AskedInv' /\ (Pending' => result' = result)
      BY <1>1, <1>3, StreamHandler, AskedHandler
  <2> QED
      BY <1>1, <1>2, <2>1, <2>2, <2>3 DEF InflateInv
<1>4. CASE HandlerFails
  <2>1. ReadFails /\ Pending /\ seekPosition' = seekPosition
      BY <1>4 DEF HandlerFails, UninitializedFails, ReadyToReadFails, ReadyToInflateFails, Pending
  <2>2. ~Pending' /\ ~result'.ok
      BY <2>1 DEF ReadFails, Pending
  <2>3. StreamInv'
      BY <1>1, <1>4, StreamFails
  <2>4. AskedInv'
      BY <1>1, <2>1, <2>2 DEF AskedInv
  <2> QED
      BY <1>1, <2>2, <2>3, <2>4 DEF InflateInv, FrontInv
<1>5. CASE /\ anyCaller \/ result.ok
           /\ \E countBytes \in 1..MaxRead : BeginRead(countBytes)
  <2>1. PICK countBytes \in 1..MaxRead : BeginRead(countBytes)
      BY <1>5
  <2>2. countBytes \in Nat \ {0} /\ countBytes <= MaxRead
      OBVIOUS
  <2>3. StreamInv'
      BY <1>1, <2>1, <2>2, StreamBeginRead
  <2>4. ~anyCaller => FrontInv'
      BY <1>1, <1>2, <1>5, <2>1, <2>2, FrontBeginRead
  <2>5. /\ seekPosition' = seekPosition
        /\ Pending' => result' = result /\ request'.want = countBytes
      BY <2>1 DEF BeginRead, Pending
  <2>6. AskedInv'
      BY <1>1, <2>2, <2>5 DEF AskedInv
  <2> QED
      BY <1>1, <1>5, <2>3, <2>4, <2>5, <2>6 DEF InflateInv
<1>6. ASSUME NEW target \in 0..UncompressedSize, Seek(target),
             anyCaller \/ (result.ok /\ target \in {0, fileCurrentPosition, UncompressedSize})
      PROVE  InflateInv'
  <2>1. target \in Nat
      OBVIOUS
  <2>2. StreamInv'
      BY <1>1, <1>6, <2>1, StreamSeek
  <2>3. ~anyCaller => FrontInv'
      BY <1>1, <1>2, <1>6, <2>1, FrontSeek
  <2>4. ~Pending' /\ seekPosition' = Lesser(target, UncompressedSize)
      BY <1>6 DEF Seek, Pending
  <2>5. seekPosition' <= UncompressedSize + MaxRead
      BY <2>1, <2>4 DEF Lesser
  <2> QED
      BY <1>1, <2>2, <2>3, <2>4, <2>5 DEF InflateInv, AskedInv
<1>7. CASE UNCHANGED <<inflateVars, anyCaller>>
  <2>1. StreamInv'
      BY <1>1, <1>7 DEF inflateVars, StreamInv, StreamTypes, WindowInv, PositionInv, Running,
                        Copying, Fetching, Pending, WindowStart
  <2>2. ~anyCaller => FrontInv' /\ (Pending' => result'.ok)
      BY <1>2, <1>7 DEF inflateVars, FrontInv, Positions, CallInv, ResultInv, Running,
                        Copying, Fetching, Pending, WindowStart, IsBytes
  <2>3. AskedInv'
      BY <1>1, <1>7 DEF inflateVars, AskedInv, Pending
  <2> QED
      BY <1>1, <2>1, <2>2, <2>3 DEF InflateInv
<1> QED
    BY <1>3, <1>4, <1>5, <1>6, <1>7 DEF InflateNext

LEMMA InflateInvariant == InflateSpec => []InflateInv
    BY InflateInvInit, InflateInvNext, PTL DEF InflateSpec

(***************************************************************************)
(* The positions of the stream stay within the file and one read past it,  *)
(* and a window within the buffer, in every state.                         *)
(***************************************************************************)
THEOREM InflateTypes == InflateSpec => []InflateTypeOK
<1>1. InflateInv => InflateTypeOK
    BY InflateAssumption
       DEF InflateInv, InflateTypeOK, StreamInv, StreamTypes, PositionInv, AskedInv
<1> QED
    BY <1>1, InflateInvariant, PTL

(***************************************************************************)
(* READY_TO_COPY never runs at the end of the file, whoever calls and      *)
(* however the calls before it failed: "unexpected extra data" is never    *)
(* reported for a file whose data are all there.                           *)
(***************************************************************************)
THEOREM InflatePosition == InflateSpec => []PositionInside
<1>1. InflateInv => PositionInside
    BY DEF InflateInv, PositionInside, StreamInv, PositionInv, Pending, Running
<1> QED
    BY <1>1, InflateInvariant, PTL

(***************************************************************************)
(* A Read() that succeeds returns the bytes of the file, all that were     *)
(* asked for or are left, for the callers of the library.                  *)
(***************************************************************************)
THEOREM InflateReads == InflateSpec => []ReadReturnsBytes
<1>1. InflateInv => ReadReturnsBytes
    BY DEF InflateInv, ReadReturnsBytes, FrontInv, ResultInv, IsBytes
<1> QED
    BY <1>1, InflateInvariant, PTL
=============================================================================
