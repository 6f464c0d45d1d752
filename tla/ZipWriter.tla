----------------------------- MODULE ZipWriter -----------------------------
(***************************************************************************)
(* The zip64 archive writer: ZipObjectWriter, the header records of        *)
(* ZipObject it writes and the ZipFileStream it hands out for the bytes of *)
(* one file.                                                               *)
(*                                                                         *)
(* The output stream is `out', a function from the offset at which a record*)
(* starts to that record, and `pos', the current position (always the end  *)
(* of the stream: only EndFile moves back, and it restores the position).  *)
(* Lengths and offsets are kept; the bytes of a file and its CRC are not,  *)
(* because nothing that reads the archive looks at the CRC.                *)
(*                                                                         *)
(* Close() writes one central directory header per iteration; each         *)
(* iteration is a step of its own here, so that a write can fail between   *)
(* any two of them.                                                        *)
(***************************************************************************)
EXTENDS ZipFormat

VARIABLES
    zipState,           \* m_state
    fileNameSequence,   \* m_fileNameSequence
    centralDirectories, \* m_centralDirectories
    lastLFH,            \* m_lastLFH
    zipFile,            \* the ZipFileStream of the file being added
    out, pos,           \* m_stream: its records and its position
    closing,            \* the local variables of Close() while it runs
    abandoned           \* an exception has left a call: the callers never call again

zipVars == <<zipState, fileNameSequence, centralDirectories, lastLFH, zipFile,
             out, pos, closing, abandoned>>

-----------------------------------------------------------------------------
ZipInit ==
    /\ zipState = "ReadyForLfhOrClose"
    /\ fileNameSequence = <<>>
    /\ centralDirectories = [n \in {} |-> Null]
    /\ lastLFH = Null
    /\ zipFile = Null
    /\ out = [a \in {} |-> Null]
    /\ pos = 0
    /\ closing = Null
    /\ abandoned = FALSE

\* Mutant: a name may be added twice.
MutCanPrepare(n) == zipState = "ReadyForLfhOrClose" /\ closing = Null

\* The checks of PrepareToAddFile.
CanPrepare(n) ==
    /\ zipState = "ReadyForLfhOrClose"
    /\ closing = Null
    /\ n \notin DOMAIN centralDirectories

\* PrepareToAddFile, up to the end.
PrepareToAddFile(n, deflate) ==
    /\ CanPrepare(n)
    /\ fileNameSequence' = Append(fileNameSequence, n)
    /\ out' = Put(out, pos, LocalFileHeader(n, deflate))
    /\ pos' = pos + LfhSize(n)
    /\ lastLFH' = [at |-> pos, name |-> n, deflate |-> deflate]
    /\ zipFile' = [at |-> pos + LfhSize(n), size |-> 0]
    /\ zipState' = "ReadyForFile"
    /\ UNCHANGED <<centralDirectories, closing, abandoned>>

\* PrepareToAddFile, name already added: DuplicateFile is thrown.
PrepareDuplicate(n) ==
    /\ zipState = "ReadyForLfhOrClose"
    /\ closing = Null
    /\ n \in DOMAIN centralDirectories
    /\ abandoned' = TRUE
    /\ UNCHANGED <<zipState, fileNameSequence, centralDirectories, lastLFH,
                   zipFile, out, pos, closing>>

\* PrepareToAddFile, the write of the header fails: the name is already in the
\* sequence, the state is not changed and part of the header may be written.
PrepareWriteFails(n) ==
    /\ CanPrepare(n)
    /\ fileNameSequence' = Append(fileNameSequence, n)
    /\ pos' \in {pos, pos + 1}
    /\ abandoned' = TRUE
    /\ UNCHANGED <<zipState, centralDirectories, lastLFH, zipFile, out, closing>>

\* ZipFileStream::Write of k bytes: it seeks to its own end and appends.
WriteFileBytes(k) ==
    /\ zipState = "ReadyForFile"
    /\ LET size == zipFile.size + k
       IN  /\ zipFile' = [zipFile EXCEPT !.size = size]
           /\ out' = IF size = 0 THEN out
                     ELSE Put(out, zipFile.at,
                              [kind |-> "data", len |-> size, name |-> lastLFH.name])
           /\ pos' = zipFile.at + size
    /\ UNCHANGED <<zipState, fileNameSequence, centralDirectories, lastLFH,
                   closing, abandoned>>

\* A write fails, or the caller's own work on the file throws.
FileFails ==
    /\ zipState = "ReadyForFile"
    /\ pos' \in {pos, pos + 1}
    /\ abandoned' = TRUE
    /\ UNCHANGED <<zipState, fileNameSequence, centralDirectories, lastLFH,
                   zipFile, out, closing>>

\* Mutant: the position is not restored after the header is written again.
MutEndFile(csize, usize, force) ==
    /\ zipState = "ReadyForFile"
    /\ IF UsesDataDescriptor(csize, usize, force)
       THEN /\ out' = Put(out, pos, [kind |-> "dd", len |-> DataDescriptorSize,
                                     name |-> lastLFH.name])
            /\ pos' = pos + DataDescriptorSize
       ELSE /\ out' = Put(out, lastLFH.at,
                          FilledLocalFileHeader(lastLFH.name, lastLFH.deflate,
                                                csize, usize))
            /\ pos' = lastLFH.at + LfhSize(lastLFH.name)
    /\ centralDirectories' =
          Put(centralDirectories, lastLFH.name,
              CentralDirectoryHeader(lastLFH.name, csize, usize, lastLFH.at,
                                     lastLFH.deflate, force))
    /\ zipState' = "ReadyForLfhOrClose"
    /\ UNCHANGED <<fileNameSequence, lastLFH, zipFile, closing, abandoned>>

\* EndFile: a data descriptor after the bytes, or the sizes into the header,
\* which must keep its length (ThrowErrorIf(currentSize != Size()): there is no
\* step for the throw, as no header of LocalFileHeader::SetData meets it).
EndFile(csize, usize, force) ==
    /\ zipState = "ReadyForFile"
    /\ IF UsesDataDescriptor(csize, usize, force)
       THEN /\ out' = Put(out, pos, [kind |-> "dd", len |-> DataDescriptorSize,
                                     name |-> lastLFH.name])
            /\ pos' = pos + DataDescriptorSize
       ELSE LET filled == FilledLocalFileHeader(lastLFH.name, lastLFH.deflate,
                                                csize, usize)
            IN  /\ filled.len = LfhSize(lastLFH.name)
                /\ out' = Put(out, lastLFH.at, filled)
                /\ pos' = pos
    /\ centralDirectories' =
          Put(centralDirectories, lastLFH.name,
              CentralDirectoryHeader(lastLFH.name, csize, usize, lastLFH.at,
                                     lastLFH.deflate, force))
    /\ zipState' = "ReadyForLfhOrClose"
    /\ UNCHANGED <<fileNameSequence, lastLFH, zipFile, closing, abandoned>>

\* Close: the position of the first central directory header is taken.
CloseBegin ==
    /\ zipState = "ReadyForLfhOrClose"
    /\ closing = Null
    /\ closing' = [next |-> 1, start |-> pos, size |-> 0]
    /\ UNCHANGED <<zipState, fileNameSequence, centralDirectories, lastLFH,
                   zipFile, out, pos, abandoned>>

\* One iteration of Close's loop over m_fileNameSequence.
CloseHeader ==
    /\ closing # Null
    /\ closing.next <= Len(fileNameSequence)
    /\ LET n == fileNameSequence[closing.next]
       IN  IF n \in DOMAIN centralDirectories
           THEN LET h == centralDirectories[n]
                IN  /\ out' = Put(out, pos, [kind |-> "cdh", len |-> CdhSize(h),
                                             header |-> h])
                    /\ pos' = pos + CdhSize(h)
                    /\ closing' = [closing EXCEPT !.next = @ + 1,
                                                  !.size = @ + CdhSize(h)]
           ELSE /\ closing' = [closing EXCEPT !.next = @ + 1]
                /\ UNCHANGED <<out, pos>>
    /\ UNCHANGED <<zipState, fileNameSequence, centralDirectories, lastLFH,
                   zipFile, abandoned>>

\* The rest of Close: the zip64 end records and the end of central directory.
\* The number of entries is the size of the map, not the number of headers
\* the loop has written.
CloseEnd ==
    /\ closing # Null
    /\ closing.next > Len(fileNameSequence)
    /\ LET eocd64 == [kind |-> "eocd64", len |-> Zip64EocdSize,
                      count |-> Cardinality(DOMAIN centralDirectories),
                      cdSize |-> closing.size, cdAt |-> closing.start]
           locator == [kind |-> "locator", len |-> Zip64LocatorSize, at |-> pos]
           eocd == [kind |-> "eocd", len |-> EocdSize]
           at2 == pos + Zip64EocdSize
           at3 == at2 + Zip64LocatorSize
       IN  /\ out' = Put(Put(Put(out, pos, eocd64), at2, locator), at3, eocd)
           /\ pos' = at3 + EocdSize
    /\ fileNameSequence' = <<>>
    /\ zipState' = "Closed"
    /\ closing' = Null
    /\ UNCHANGED <<centralDirectories, lastLFH, zipFile, abandoned>>

\* A write of Close fails; the name sequence is cleared once the loop is over.
CloseFails ==
    /\ closing # Null
    /\ fileNameSequence' \in IF closing.next > Len(fileNameSequence)
                             THEN {fileNameSequence, <<>>} ELSE {fileNameSequence}
    /\ pos' \in {pos, pos + 1}
    /\ closing' = Null
    /\ abandoned' = TRUE
    /\ UNCHANGED <<zipState, centralDirectories, lastLFH, zipFile, out>>

-----------------------------------------------------------------------------
(* The protocol a caller of IZipWriter follows: no call after an exception.*)

ZipNext ==
    /\ ~abandoned
    /\ \/ \E n \in Name :
             \/ \E deflate \in BOOLEAN : PrepareToAddFile(n, deflate)
             \/ PrepareDuplicate(n)
             \/ PrepareWriteFails(n)
       \/ \E k \in Size : WriteFileBytes(k)
       \/ FileFails
       \/ \E usize \in Size, force \in BOOLEAN : EndFile(zipFile.size, usize, force)
       \/ CloseBegin
       \/ CloseHeader
       \/ CloseEnd
       \/ CloseFails

ZipSpec == ZipInit /\ [][ZipNext]_zipVars

-----------------------------------------------------------------------------
(* Types.                                                                  *)

\* The types of the writer's variables and of the records it writes.
ZipTypeOK ==
    /\ zipState \in {"ReadyForLfhOrClose", "ReadyForFile", "Closed"}
    /\ fileNameSequence \in Seq(Name)
    /\ DOMAIN centralDirectories \subseteq Name
    /\ \A n \in DOMAIN centralDirectories : centralDirectories[n] \in Header
    /\ lastLFH \in [at : Nat, name : Name, deflate : BOOLEAN] \cup {Null}
    /\ zipFile \in [at : Nat, size : Nat] \cup {Null}
    /\ DOMAIN out \subseteq Nat
    /\ \A a \in DOMAIN out : out[a] \in Record
    /\ pos \in Nat
    /\ closing \in [next : Nat \ {0}, start : Nat, size : Nat] \cup {Null}
    /\ abandoned \in BOOLEAN

-----------------------------------------------------------------------------
(* Properties.                                                             *)

\* No record of the stream overlaps another: whatever PrepareToAddFile, the
\* file's writes, EndFile's rewrite of the local header and Close put in the
\* stream, a later record starts at or after the end of an earlier one.
RecordsDisjoint ==
    ~abandoned =>
        /\ \A a, b \in DOMAIN out : a < b => a + out[a].len <= b
        /\ \A a \in DOMAIN out : a + out[a].len <= pos

\* Every central directory header the writer holds leads back to the local
\* header of the same file, and the two agree on what LocalFileHeader::Read
\* compares: the compression and the data descriptor bit, with a zero
\* compressed size under that bit.
HeadersAgree ==
    ~abandoned =>
        \A n \in DOMAIN centralDirectories :
            LET h == centralDirectories[n]
                a == WideValue(h.at)
            IN  /\ h.name = n
                /\ a \in DOMAIN out
                /\ out[a].kind = "lfh"
                /\ out[a].name = n
                /\ out[a].deflate = h.deflate
                /\ out[a].dd = h.dd
                /\ h.dd => out[a].csize = 0

\* m_fileNameSequence, which Close walks, lists every file of the central
\* directory map once, and nothing else once the file being added is ended:
\* the entry count Close records is then the number of headers it writes.
SequenceListsMap ==
    (~abandoned /\ zipState # "Closed") =>
        /\ \A i, j \in 1..Len(fileNameSequence) :
              i # j => fileNameSequence[i] # fileNameSequence[j]
        /\ {fileNameSequence[i] : i \in 1..Len(fileNameSequence)} =
              DOMAIN centralDirectories
                \cup (IF zipState = "ReadyForFile" THEN {lastLFH.name} ELSE {})

FilesStay ==
    \A a \in DOMAIN out :
        out[a].kind \in {"lfh", "data", "dd"} /\ out[a].name \in DOMAIN centralDirectories =>
            a \in DOMAIN out' /\ out'[a] = out[a]

\* The bytes of a file that EndFile has ended are final: no later write, and
\* not EndFile's rewrite of the current local header, touches a record of it.
FinishedFilesStay == [][FilesStay]_zipVars
=============================================================================
