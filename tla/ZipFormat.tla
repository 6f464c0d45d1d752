----------------------------- MODULE ZipFormat -----------------------------
(***************************************************************************)
(* The records of a zip64 archive as ZipObject lays them out, shared by    *)
(* the writer and the reader.  A stream is a function from the offset at   *)
(* which a record starts to that record.                                   *)
(***************************************************************************)
EXTENDS Integers, Sequences, FiniteSets

CONSTANTS
    Name,        \* the (encoded) part names of the archive
    NameSize,    \* NameSize[n]: the length in bytes of name n
    Size,        \* the sizes a file, and a write to it, may have
    MaxField32,  \* the largest value of a 32-bit field; 2^32 - 1 in the code
    Null         \* "no value"

ASSUME ZipAssumption ==
    /\ NameSize \in [Name -> Nat \ {0}]
    /\ Size \subseteq Nat
    /\ MaxField32 \in Nat \ {0}

-----------------------------------------------------------------------------
(* Header fields.                                                          *)

\* MaxSizeToNotUseDataDescriptor
MaxSizeToNotUseDataDescriptor == MaxField32 - 1

\* Mutant: the limit itself is still taken for a 32-bit value.
MutInExtendedInfo(v) == v > MaxField32

\* Does a value need the zip64 extended information?
InExtendedInfo(v) == v > MaxSizeToNotUseDataDescriptor

\* Mutant: the 32-bit field takes every value.
MutWide(v) == [f32 |-> v, f64 |-> 0]

\* SetCompressedSize, SetUncompressedSize, SetRelativeOffsetOfLocalHeader: the
\* 32-bit field and the optional 64-bit field of the extended information.
Wide(v) == IF InExtendedInfo(v) THEN [f32 |-> MaxField32, f64 |-> v]
                                ELSE [f32 |-> v, f64 |-> 0]

\* GetCompressedSize, GetUncompressedSize, GetRelativeOffsetOfLocalHeader.
WideValue(w) == IF w.f32 = MaxField32 THEN w.f64 ELSE w.f32

LfhSize(n) == 30 + NameSize[n]

\* LocalFileHeader() and SetData(name, isCompressed)
LocalFileHeader(n, deflate) ==
    [kind |-> "lfh", len |-> LfhSize(n), name |-> n, deflate |-> deflate,
     dd |-> TRUE, csize |-> 0, usize |-> 0]

\* Mutant: the data descriptor bit is not cleared.
MutFilledKeepsBit(n, deflate, csize, usize) ==
    [LocalFileHeader(n, deflate) EXCEPT !.csize = csize, !.usize = usize]

\* LocalFileHeader::SetData(crc, compressedSize, uncompressedSize)
FilledLocalFileHeader(n, deflate, csize, usize) ==
    [LocalFileHeader(n, deflate) EXCEPT !.dd = FALSE,
        !.csize = csize % (MaxField32 + 1), !.usize = usize % (MaxField32 + 1)]

\* Is a data descriptor written after the file's bytes?
UsesDataDescriptor(csize, usize, force) ==
    force \/ InExtendedInfo(csize) \/ InExtendedInfo(usize)

\* CentralDirectoryFileHeader::SetData
CentralDirectoryHeader(n, csize, usize, at, deflate, force) ==
    [name |-> n, csize |-> Wide(csize), usize |-> Wide(usize), at |-> Wide(at),
     deflate |-> deflate, dd |-> UsesDataDescriptor(csize, usize, force)]

\* The size of the zip64 extended information, present when any field needs it.
ExtraFieldSize(h) ==
    LET n(w) == IF w.f32 = MaxField32 THEN 8 ELSE 0
        size == n(h.csize) + n(h.usize) + n(h.at)
    IN  IF size = 0 THEN 0 ELSE 4 + size

CdhSize(h) == 46 + NameSize[h.name] + ExtraFieldSize(h)

DataDescriptorSize == 24
Zip64EocdSize == 56
Zip64LocatorSize == 20
EocdSize == 22

\* m_stream->Write at offset `at': a record replaces the one that started there.
Put(stream, at, record) ==
    [a \in DOMAIN stream \cup {at} |-> IF a = at THEN record ELSE stream[a]]

-----------------------------------------------------------------------------
(* Types of the fields and the records.                                    *)

WideField == [f32 : 0..MaxField32, f64 : Nat]

Header == [name : Name, csize : WideField, usize : WideField, at : WideField,
           deflate : BOOLEAN, dd : BOOLEAN]

Record ==
    [kind : {"lfh"}, len : Nat \ {0}, name : Name, deflate : BOOLEAN,
     dd : BOOLEAN, csize : Nat, usize : Nat]
    \cup [kind : {"data", "dd"}, len : Nat \ {0}, name : Name]
    \cup [kind : {"cdh"}, len : Nat \ {0}, header : Header]
    \cup [kind : {"eocd64"}, len : Nat \ {0}, count : Nat, cdSize : Nat, cdAt : Nat]
    \cup [kind : {"locator"}, len : Nat \ {0}, at : Nat]
    \cup [kind : {"eocd"}, len : Nat \ {0}]
=============================================================================
