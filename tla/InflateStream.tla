--------------------------- MODULE InflateStream ---------------------------
(***************************************************************************)
(* The stream of a compressed file: a state machine that inflates the file *)
(* window by window.  Read() calls the handler of the current state until  *)
(* the request is filled; one handler call is one step here.               *)
(*                                                                         *)
(* A byte of the file is its offset.  zlib is abstracted to the number of  *)
(* bytes it can still produce from the input it was given (`source') and   *)
(* has produced since Initialize (`inflated'); where the chunks of the     *)
(* compressed stream end is a choice.  The compressed data are well formed *)
(* and m_uncompressedSize is right, or Inflate() reports an error.         *)
(*                                                                         *)
(* Under those conditions m_fileCurrentPosition < m_uncompressedSize holds *)
(* whenever the handler of READY_TO_COPY runs (PositionInside), so its     *)
(* first branch and the CLEANUP state it leads to have no step.            *)
(***************************************************************************)
EXTENDS Integers, Sequences

CONSTANTS
    UncompressedSize,  \* m_uncompressedSize
    BufferSize,        \* the size of the inflate window
    MaxRead,           \* bound on countBytes
    Callers,           \* the kinds of callers: the values of anyCaller
    Nothing            \* "no value"

ASSUME InflateAssumption ==
    /\ UncompressedSize \in Nat \ {0}
    /\ BufferSize \in Nat \ {0}
    /\ MaxRead \in Nat
    /\ Callers \subseteq BOOLEAN

\* What a window holds (a byte of the file or a zero), and the calls to Read().
Byte == Nat \cup {Nothing}
ReadCall == [from : Nat, want : Nat, got : Seq(Byte)]

ASSUME NothingAssumption == Nothing \notin ReadCall

VARIABLES
    inflateState,                   \* m_state
    seekPosition,                   \* m_seekPosition
    inflateWindowPosition,          \* m_inflateWindowPosition
    fileCurrentPosition,            \* m_fileCurrentPosition
    fileCurrentWindowPositionEnd,   \* m_fileCurrentWindowPositionEnd
    windowLength,                   \* BufferSize - GetAvailableDestinationSize()
    inflated, source,               \* zlib
    unread,                         \* is a part of the compressed stream not read yet?
    request,                        \* the Read() that runs: its arguments and results
    result,                         \* the last Read() that returned
    anyCaller                       \* may the caller seek anywhere and go on after a failure?

inflateVars == <<inflateState, seekPosition, inflateWindowPosition, fileCurrentPosition,
                 fileCurrentWindowPositionEnd, windowLength, inflated, source, unread,
                 request, result>>

zlibVars == <<windowLength, inflated, source, unread>>
windowVars == <<inflateWindowPosition, fileCurrentWindowPositionEnd>>

\* std::min
Lesser(a, b) == IF a < b THEN a ELSE b

InflateInit ==
    /\ inflateState = "UNINITIALIZED"
    /\ seekPosition = 0
    /\ inflateWindowPosition = 0
    /\ fileCurrentPosition = 0
    /\ fileCurrentWindowPositionEnd = 0
    /\ windowLength = 0
    /\ inflated = 0
    /\ source = 0
    /\ unread = TRUE
    /\ request = Nothing
    /\ result = [ok |-> TRUE, from |-> 0, want |-> 0, got |-> <<>>]
    /\ anyCaller \in Callers

-----------------------------------------------------------------------------
(* The calls.                                                              *)

\* Mutant: going back does not start again.
MutSeek(target) ==
    /\ request = Nothing
    /\ seekPosition' = Lesser(target, UncompressedSize)
    /\ UNCHANGED <<inflateState, fileCurrentPosition, windowVars, zlibVars, request, result>>

\* Seek, its target made absolute: going back starts again from the beginning.
Seek(target) ==
    LET position == Lesser(target, UncompressedSize)
    IN  /\ request = Nothing
        /\ seekPosition' = position
        /\ IF position # seekPosition /\ position < fileCurrentPosition
           THEN inflateState' = "UNINITIALIZED" /\ fileCurrentPosition' = 0
           ELSE UNCHANGED <<inflateState, fileCurrentPosition>>
        /\ UNCHANGED <<windowVars, zlibVars, request, result>>

\* Read, up to its loop; past the end of the file it returns no bytes.
BeginRead(countBytes) ==
    /\ request = Nothing
    /\ IF seekPosition < UncompressedSize
       THEN /\ request' = [from |-> seekPosition, want |-> countBytes, got |-> <<>>]
            /\ UNCHANGED result
       ELSE /\ result' = [ok |-> TRUE, from |-> seekPosition, want |-> countBytes, got |-> <<>>]
            /\ UNCHANGED request
    /\ UNCHANGED <<inflateState, seekPosition, fileCurrentPosition, windowVars, zlibVars>>

\* A handler throws: CATCH_RETURN.
ReadFails ==
    /\ request' = Nothing
    /\ result' = [ok |-> FALSE, from |-> request.from, want |-> request.want,
                  got |-> request.got]

\* The loop of Read goes on, or ends once the request is filled.
ReadGoesOn(got, stayInLoop) ==
    IF stayInLoop /\ Len(got) < request.want
    THEN /\ request' = [request EXCEPT !.got = got]
         /\ UNCHANGED result
    ELSE /\ request' = Nothing
         /\ result' = [ok |-> TRUE, from |-> request.from, want |-> request.want, got |-> got]

-----------------------------------------------------------------------------
(* The handlers.                                                           *)

\* Mutant: the end of the last window is kept.
MutUninitialized ==
    /\ request # Nothing
    /\ inflateState = "UNINITIALIZED"
    /\ inflateState' = "READY_TO_READ"
    /\ fileCurrentPosition' = 0
    /\ inflated' = 0
    /\ source' = 0
    /\ unread' = TRUE
    /\ UNCHANGED <<seekPosition, windowVars, windowLength, request, result>>

Uninitialized ==
    /\ request # Nothing
    /\ inflateState = "UNINITIALIZED"
    /\ inflateState' = "READY_TO_READ"
    /\ fileCurrentPosition' = 0
    /\ fileCurrentWindowPositionEnd' = 0
    /\ inflated' = 0
    /\ source' = 0
    /\ unread' = TRUE
    /\ UNCHANGED <<seekPosition, inflateWindowPosition, windowLength, request, result>>

\* The underlying seek fails, or zlib's initialisation does.
UninitializedFails ==
    /\ request # Nothing
    /\ inflateState = "UNINITIALIZED"
    /\ \/ UNCHANGED <<fileCurrentPosition, fileCurrentWindowPositionEnd>>
       \/ fileCurrentPosition' = 0 /\ fileCurrentWindowPositionEnd' = 0
    /\ ReadFails
    /\ UNCHANGED <<inflateState, seekPosition, inflateWindowPosition, zlibVars>>

\* A chunk of the compressed stream holds some bytes of the file; the last one
\* may hold the end of the deflate stream only.
ReadyToRead ==
    /\ request # Nothing
    /\ inflateState = "READY_TO_READ"
    /\ source = 0
    /\ unread
    /\ \E bytes \in 0..(UncompressedSize - inflated) :
          /\ bytes = 0 => inflated = UncompressedSize
          /\ source' = bytes
          /\ unread' \in IF inflated + bytes < UncompressedSize THEN {TRUE}
                         ELSE IF bytes = 0 THEN {FALSE} ELSE BOOLEAN
    /\ inflateState' = "READY_TO_INFLATE"
    /\ UNCHANGED <<seekPosition, fileCurrentPosition, windowVars, windowLength, inflated,
                   request, result>>

\* The underlying read fails or has nothing left to give.
ReadyToReadFails ==
    /\ request # Nothing
    /\ inflateState = "READY_TO_READ"
    /\ ReadFails
    /\ UNCHANGED <<inflateState, seekPosition, fileCurrentPosition, windowVars, zlibVars>>

ReadyToInflate ==
    /\ request # Nothing
    /\ inflateState = "READY_TO_INFLATE"
    /\ LET produced == Lesser(BufferSize, source)
       IN  /\ windowLength' = produced
           /\ inflated' = inflated + produced
           /\ source' = source - produced
           /\ fileCurrentWindowPositionEnd' = fileCurrentWindowPositionEnd + produced
    /\ inflateWindowPosition' = 0
    /\ inflateState' = "READY_TO_COPY"
    /\ UNCHANGED <<seekPosition, fileCurrentPosition, unread, request, result>>

\* CompressionStatus::Error: Cleanup() and an exception.
ReadyToInflateFails ==
    /\ request # Nothing
    /\ inflateState = "READY_TO_INFLATE"
    /\ inflateState' = "UNINITIALIZED"
    /\ inflateWindowPosition' = 0
    /\ ReadFails
    /\ UNCHANGED <<seekPosition, fileCurrentPosition, fileCurrentWindowPositionEnd, zlibVars>>

\* Mutant: an empty window is copied from again.
MutNextFetch == IF windowLength = BufferSize THEN "READY_TO_INFLATE" ELSE "READY_TO_COPY"

\* Where the next window comes from: more output of the same input while the
\* window was filled, else more input.
NextFetch == IF windowLength = BufferSize THEN "READY_TO_INFLATE" ELSE "READY_TO_READ"

\* The byte at an index of the window: what inflate put there, else a zero.
WindowByte(i) == IF i < windowLength THEN inflated - windowLength + i ELSE Nothing

\* The window ends before the seek position: it is skipped.
SkipWindow ==
    /\ request # Nothing
    /\ inflateState = "READY_TO_COPY"
    /\ fileCurrentWindowPositionEnd < seekPosition
    /\ fileCurrentPosition' = fileCurrentWindowPositionEnd
    /\ inflateState' = NextFetch
    /\ UNCHANGED <<seekPosition, windowVars, zlibVars, request, result>>

\* The position in the window after the bytes up to the seek position.
SkippedTo == inflateWindowPosition + (seekPosition - fileCurrentPosition)

\* Past the buffer all positions behave alike until the next window: a bound.
MaxWindowPosition == BufferSize + 1

\* Nothing is left in the window.  m_fileCurrentPosition is not moved.
FetchWindow ==
    /\ request # Nothing
    /\ inflateState = "READY_TO_COPY"
    /\ fileCurrentWindowPositionEnd >= seekPosition
    /\ SkippedTo = windowLength
    /\ inflateWindowPosition' = SkippedTo
    /\ inflateState' = NextFetch
    /\ UNCHANGED <<seekPosition, fileCurrentPosition, fileCurrentWindowPositionEnd, zlibVars,
                   request, result>>

\* The bytes one handler call copies.  Past the window's bytes the unsigned
\* difference is huge and the whole request is copied.
CopyCount ==
    LET wanted == request.want - Len(request.got)
    IN  IF SkippedTo < windowLength THEN Lesser(wanted, windowLength - SkippedTo) ELSE wanted

\* Mutant: the end of the file is not noticed.
MutCopyWindow ==
    /\ request # Nothing
    /\ inflateState = "READY_TO_COPY"
    /\ fileCurrentWindowPositionEnd >= seekPosition
    /\ SkippedTo # windowLength
    /\ seekPosition' = seekPosition + CopyCount
    /\ inflateWindowPosition' = SkippedTo + CopyCount
    /\ fileCurrentPosition' = fileCurrentPosition + CopyCount
    /\ ReadGoesOn(request.got \o [i \in 1..CopyCount |-> WindowByte(SkippedTo + i - 1)], TRUE)
    /\ UNCHANGED <<inflateState, fileCurrentWindowPositionEnd, zlibVars>>

\* Copy from the window; m_fileCurrentPosition moves by the bytes copied, not by
\* the bytes skipped.  At the end of the file the stream is cleaned up.  Outside
\* the buffer vector::at throws.
CopyWindow ==
    /\ request # Nothing
    /\ inflateState = "READY_TO_COPY"
    /\ fileCurrentWindowPositionEnd >= seekPosition
    /\ SkippedTo # windowLength
    /\ IF SkippedTo >= BufferSize
       THEN /\ inflateWindowPosition' = Lesser(SkippedTo, MaxWindowPosition)
            /\ ReadFails
            /\ UNCHANGED <<inflateState, seekPosition, fileCurrentPosition>>
       ELSE /\ seekPosition' = seekPosition + CopyCount
            /\ inflateWindowPosition' = SkippedTo + CopyCount
            /\ fileCurrentPosition' = fileCurrentPosition + CopyCount
            /\ inflateState' = IF fileCurrentPosition' = UncompressedSize
                               THEN "UNINITIALIZED" ELSE "READY_TO_COPY"
            /\ ReadGoesOn(request.got \o [i \in 1..CopyCount |-> WindowByte(SkippedTo + i - 1)],
                          fileCurrentPosition' # UncompressedSize)
    /\ UNCHANGED <<fileCurrentWindowPositionEnd, zlibVars>>

-----------------------------------------------------------------------------
Handler ==
    \/ Uninitialized \/ ReadyToRead \/ ReadyToInflate
    \/ SkipWindow \/ FetchWindow \/ CopyWindow

HandlerFails == UninitializedFails \/ ReadyToReadFails \/ ReadyToInflateFails

\* The callers of the library read a file front to back, look for its size with
\* a seek to the end, start again from the beginning and stop at a failure.
InflateNext ==
    /\ \/ Handler
       \/ HandlerFails
       \/ /\ anyCaller \/ result.ok
          /\ \E countBytes \in 1..MaxRead : BeginRead(countBytes)
       \/ \E target \in 0..UncompressedSize :
             /\ anyCaller \/ (result.ok /\ target \in {0, fileCurrentPosition, UncompressedSize})
             /\ Seek(target)
    /\ UNCHANGED anyCaller

\* Fairness: Read() is a loop of one thread, which runs until it returns.
InflateSpec ==
    InflateInit /\ [][InflateNext]_<<inflateVars, anyCaller>> /\ WF_inflateVars(Handler \/ HandlerFails)

-----------------------------------------------------------------------------
(* Properties.                                                             *)

\* The types of the stream's variables.
InflateTypeOK ==
    /\ inflateState \in {"UNINITIALIZED", "READY_TO_READ", "READY_TO_INFLATE", "READY_TO_COPY"}
    /\ seekPosition \in 0..(UncompressedSize + MaxRead)
    /\ inflateWindowPosition \in Nat
    /\ fileCurrentPosition \in 0..(UncompressedSize + MaxRead)
    /\ fileCurrentWindowPositionEnd \in 0..UncompressedSize
    /\ windowLength \in 0..BufferSize
    /\ inflated \in 0..UncompressedSize
    /\ source \in 0..UncompressedSize
    /\ unread \in BOOLEAN
    /\ anyCaller \in Callers

\* The handler of READY_TO_COPY is never called at the end of the file: "unexpected extra
\* data" is not reported for a file whose data are all there.
PositionInside ==
    request # Nothing /\ inflateState = "READY_TO_COPY" => fileCurrentPosition < UncompressedSize

\* A Read that succeeds returns the bytes of the file at the seek position, as
\* many as asked for or are left, however windows, chunks and requests fall, for
\* a caller that reads front to back, starts again or looks for the size.
ReadReturnsBytes ==
    ~anyCaller /\ result.ok =>
        /\ Len(result.got) = Lesser(result.want, UncompressedSize - result.from)
        /\ \A i \in 1..Len(result.got) : result.got[i] = result.from + i - 1

\* Read() returns: its loop over the handlers comes to an end.
ReadReturns == request # Nothing ~> request = Nothing
=============================================================================
