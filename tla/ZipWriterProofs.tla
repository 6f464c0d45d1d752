-------------------------- MODULE ZipWriterProofs --------------------------
(***************************************************************************)
(* Proofs about the zip writer, for every set of names, every name length, *)
(* every file size and every width of the 32-bit fields.                   *)
(***************************************************************************)
EXTENDS ZipWriter, FiniteSetTheorems, TLAPS

(***************************************************************************)
(* The inductive invariant: what is known while a file is being added.  A  *)
(* file's own records are the last of the stream, which is what keeps the  *)
(* growing data record, the descriptor and a rewritten local header from   *)
(* running into the records of another file.                               *)
(***************************************************************************)
LfhRef == [at : Nat, name : Name, deflate : BOOLEAN]
FileRange == [at : Nat, size : Nat]

CurrentFile ==
    zipState = "ReadyForFile" =>
        /\ lastLFH \in LfhRef
        /\ zipFile \in FileRange
        /\ closing = Null
        /\ lastLFH.name \notin DOMAIN centralDirectories
        /\ lastLFH.at \in DOMAIN out
        /\ out[lastLFH.at] = LocalFileHeader(lastLFH.name, lastLFH.deflate)
        /\ zipFile.at = lastLFH.at + LfhSize(lastLFH.name)
        /\ pos = zipFile.at + zipFile.size
        /\ \A a \in DOMAIN out : a <= lastLFH.at \/ a = zipFile.at
        /\ zipFile.at \in DOMAIN out =>
              out[zipFile.at] = [kind |-> "data", len |-> zipFile.size, name |-> lastLFH.name]

ZipInv ==
    /\ ZipTypeOK
    /\ ~abandoned => CurrentFile
    /\ RecordsDisjoint
    /\ HeadersAgree
    /\ SequenceListsMap

-----------------------------------------------------------------------------
(* Operators.                                                              *)

(* What the reader decodes from a size or offset is what the writer encoded,
   on both sides of the limit of the 32-bit field and at the limit itself. *)
THEOREM WideRoundTrip ==
    ASSUME NEW v \in Nat
    PROVE  /\ Wide(v) \in WideField
           /\ WideValue(Wide(v)) = v
  BY ZipAssumption DEF Wide, WideValue, WideField, InExtendedInfo,
                       MaxSizeToNotUseDataDescriptor

LEMMA SizesType ==
    /\ \A n \in Name : LfhSize(n) \in Nat \ {0}
    /\ \A h \in Header : CdhSize(h) \in Nat \ {0}
  <1>1. \A n \in Name : NameSize[n] \in Nat
    BY ZipAssumption
  <1>2. \A n \in Name : LfhSize(n) \in Nat \ {0}
    BY <1>1 DEF LfhSize
  <1>3. ASSUME NEW h \in Header PROVE CdhSize(h) \in Nat \ {0}
    <2>1. ExtraFieldSize(h) \in Nat
      BY DEF ExtraFieldSize
    <2>2. h.name \in Name
      BY DEF Header
    <2> QED BY <1>1, <2>1, <2>2 DEF CdhSize
  <1> QED BY <1>2, <1>3

LEMMA HeaderType ==
    ASSUME NEW n \in Name, NEW csize \in Nat, NEW usize \in Nat, NEW at \in Nat,
           NEW deflate \in BOOLEAN, NEW force \in BOOLEAN
    PROVE  CentralDirectoryHeader(n, csize, usize, at, deflate, force) \in Header
  <1>1. UsesDataDescriptor(csize, usize, force) \in BOOLEAN
    BY DEF UsesDataDescriptor, InExtendedInfo
  <1> QED BY <1>1, WideRoundTrip DEF CentralDirectoryHeader, Header

LEMMA RecordTypes ==
    /\ \A n \in Name, d \in BOOLEAN : LocalFileHeader(n, d) \in Record
    /\ \A n \in Name, d \in BOOLEAN, c \in Nat, u \in Nat :
          FilledLocalFileHeader(n, d, c, u) \in Record
    /\ \A n \in Name, k \in Nat \ {0} : [kind |-> "data", len |-> k, name |-> n] \in Record
    /\ \A n \in Name : [kind |-> "dd", len |-> DataDescriptorSize, name |-> n] \in Record
    /\ \A h \in Header : [kind |-> "cdh", len |-> CdhSize(h), header |-> h] \in Record
    /\ \A c, s, a \in Nat : [kind |-> "eocd64", len |-> Zip64EocdSize, count |-> c,
                             cdSize |-> s, cdAt |-> a] \in Record
    /\ \A a \in Nat : [kind |-> "locator", len |-> Zip64LocatorSize, at |-> a] \in Record
    /\ [kind |-> "eocd", len |-> EocdSize] \in Record
  <1>1. \A n \in Name, d \in BOOLEAN : LocalFileHeader(n, d) \in Record
    BY SizesType DEF LocalFileHeader, Record
  <1>2. ASSUME NEW n \in Name, NEW d \in BOOLEAN, NEW c \in Nat, NEW u \in Nat
        PROVE  FilledLocalFileHeader(n, d, c, u) \in Record
    <2>1. c % (MaxField32 + 1) \in Nat /\ u % (MaxField32 + 1) \in Nat
      BY ZipAssumption
    <2> QED BY <2>1, SizesType DEF FilledLocalFileHeader, LocalFileHeader, Record
  <1>3. \A n \in Name, k \in Nat \ {0} : [kind |-> "data", len |-> k, name |-> n] \in Record
    BY DEF Record
  <1>4. \A n \in Name : [kind |-> "dd", len |-> DataDescriptorSize, name |-> n] \in Record
    BY DEF Record, DataDescriptorSize
  <1>5. \A h \in Header : [kind |-> "cdh", len |-> CdhSize(h), header |-> h] \in Record
    BY SizesType DEF Record
  <1>6. /\ \A c, s, a \in Nat : [kind |-> "eocd64", len |-> Zip64EocdSize, count |-> c,
                             cdSize |-> s, cdAt |-> a] \in Record
        /\ \A a \in Nat : [kind |-> "locator", len |-> Zip64LocatorSize, at |-> a] \in Record
        /\ [kind |-> "eocd", len |-> EocdSize] \in Record
    BY DEF Record, Zip64EocdSize, Zip64LocatorSize, EocdSize
  <1> QED BY <1>1, <1>2, <1>3, <1>4, <1>5, <1>6

LEMMA RecordLen == \A r \in Record : r.len \in Nat \ {0}
  BY DEF Record

(* A stream f of records that ends at p. *)
Stream(f, p) ==
    /\ DOMAIN f \subseteq Nat
    /\ p \in Nat
    /\ \A a \in DOMAIN f : f[a] \in Record /\ a + f[a].len <= p
    /\ \A a, b \in DOMAIN f : a < b => a + f[a].len <= b

(* Appending a record gives a stream again, and leaves the other records. *)
LEMMA AppendRecord ==
    ASSUME NEW f, NEW p, Stream(f, p), NEW r \in Record
    PROVE  /\ Stream(Put(f, p, r), p + r.len)
           /\ \A a \in DOMAIN f : a < p
  <1> DEFINE g == Put(f, p, r)
  <1>1. /\ DOMAIN g = DOMAIN f \cup {p}
        /\ g[p] = r
        /\ \A a \in DOMAIN f : a # p => g[a] = f[a]
    BY DEF Put
  <1>2. \A a \in DOMAIN f : f[a].len \in Nat \ {0}
    BY RecordLen DEF Stream
  <1>3. r.len \in Nat \ {0}
    BY RecordLen
  <1>4. \A a \in DOMAIN f : a < p /\ g[a] = f[a]
    BY <1>1, <1>2 DEF Stream
  <1>5. Stream(g, p + r.len)
    <2> HIDE DEF g
    <2>1. DOMAIN g \subseteq Nat /\ p + r.len \in Nat
      BY <1>1, <1>3 DEF Stream
    <2>2. \A a \in DOMAIN g : g[a] \in Record /\ a + g[a].len <= p + r.len
      BY <1>1, <1>2, <1>3, <1>4 DEF Stream
    <2>3. \A a, b \in DOMAIN g : a < b => a + g[a].len <= b
      BY <1>1, <1>2, <1>3, <1>4 DEF Stream
    <2> QED BY <2>1, <2>2, <2>3 DEF Stream
  <1> QED BY <1>1, <1>4, <1>5

(* Replacing a record by one of the same length. *)
LEMMA ReplaceRecord ==
    ASSUME NEW f, NEW p, Stream(f, p), NEW at \in DOMAIN f, NEW r \in Record,
           r.len = f[at].len
    PROVE  Stream(Put(f, at, r), p)
  <1> DEFINE g == Put(f, at, r)
  <1>1. /\ DOMAIN g = DOMAIN f
        /\ g[at] = r
        /\ \A a \in DOMAIN f : a # at => g[a] = f[a]
    BY DEF Put
  <1> HIDE DEF g
  <1>2. Stream(g, p)
    <2>1. \A a \in DOMAIN f : g[a] \in Record /\ g[a].len = f[a].len
      BY <1>1 DEF Stream
    <2> QED BY <1>1, <2>1 DEF Stream
  <1> QED BY <1>1, <1>2 DEF g

(* The data record of the current file is the last of the stream: it grows. *)
LEMMA GrowLast ==
    ASSUME NEW f, NEW p, Stream(f, p), NEW at \in Nat, NEW r \in Record,
           at <= p, \A a \in DOMAIN f : a # at => a + f[a].len <= at
    PROVE  Stream(Put(f, at, r), at + r.len)
  <1> DEFINE g == Put(f, at, r)
  <1>1. /\ DOMAIN g = DOMAIN f \cup {at}
        /\ g[at] = r
        /\ \A a \in DOMAIN f : a # at => g[a] = f[a]
    BY DEF Put
  <1>2. \A a \in DOMAIN f : f[a].len \in Nat \ {0}
    BY RecordLen DEF Stream
  <1>3. r.len \in Nat \ {0}
    BY RecordLen
  <1> HIDE DEF g
  <1>4. Stream(g, at + r.len)
    <2>1. DOMAIN g \subseteq Nat /\ at + r.len \in Nat
      BY <1>1, <1>3 DEF Stream
    <2>2. \A a \in DOMAIN g : g[a] \in Record /\ a + g[a].len <= at + r.len
      BY <1>1, <1>2, <1>3 DEF Stream
    <2>3. \A a, b \in DOMAIN g : a < b => a + g[a].len <= b
      BY <1>1, <1>2, <1>3 DEF Stream
    <2> QED BY <2>1, <2>2, <2>3 DEF Stream
  <1> QED BY <1>1, <1>4 DEF g

(* The parts of the invariant that speak of the stream, in one formula. *)
LEMMA StreamInv == ZipInv /\ ~abandoned => Stream(out, pos)
  BY DEF ZipInv, ZipTypeOK, RecordsDisjoint, Stream

-----------------------------------------------------------------------------
(* The steps.                                                              *)

(* A step that throws leaves the types; the rest is about ~abandoned. *)
LEMMA ThrowStep ==
    ASSUME ZipInv,
           \/ \E n \in Name : PrepareDuplicate(n) \/ PrepareWriteFails(n)
           \/ FileFails
           \/ CloseFails
    PROVE  ZipInv'
  <1>1. abandoned' = TRUE
    BY DEF PrepareDuplicate, PrepareWriteFails, FileFails, CloseFails
  <1>2. ASSUME NEW n \in Name, PrepareDuplicate(n) PROVE ZipTypeOK'
    BY <1>1, <1>2 DEF ZipInv, ZipTypeOK, PrepareDuplicate
  <1>3. ASSUME NEW n \in Name, PrepareWriteFails(n) PROVE ZipTypeOK'
    <2>1. fileNameSequence' \in Seq(Name)
      BY <1>3 DEF ZipInv, ZipTypeOK, PrepareWriteFails
    <2>2. pos' \in Nat
      BY <1>3 DEF ZipInv, ZipTypeOK, PrepareWriteFails
    <2>3. UNCHANGED <<zipState, centralDirectories, lastLFH, zipFile, out, closing>>
      BY <1>3 DEF PrepareWriteFails
    <2> QED BY <1>1, <2>1, <2>2, <2>3 DEF ZipInv, ZipTypeOK
  <1>4. ASSUME FileFails PROVE ZipTypeOK'
    BY <1>1, <1>4 DEF ZipInv, ZipTypeOK, FileFails
  <1>5. ASSUME CloseFails PROVE ZipTypeOK'
    <2>1. fileNameSequence' \in Seq(Name)
      <3>1. fileNameSequence' = fileNameSequence \/ fileNameSequence' = <<>>
        BY <1>5 DEF CloseFails
      <3>2. fileNameSequence \in Seq(Name)
        BY DEF ZipInv, ZipTypeOK
      <3>3. CASE fileNameSequence' = <<>>
        BY <3>3
      <3> QED BY <3>1, <3>2, <3>3
    <2>2. pos' \in Nat
      BY <1>5 DEF ZipInv, ZipTypeOK, CloseFails
    <2>3. closing' \in [next : Nat \ {0}, start : Nat, size : Nat] \cup {Null}
      BY <1>5 DEF CloseFails
    <2>4. UNCHANGED <<zipState, centralDirectories, lastLFH, zipFile, out>>
      BY <1>5 DEF CloseFails
    <2> QED BY <1>1, <2>1, <2>2, <2>3, <2>4 DEF ZipInv, ZipTypeOK
  <1> QED BY <1>1, <1>2, <1>3, <1>4, <1>5
       DEF ZipInv, RecordsDisjoint, HeadersAgree, SequenceListsMap

LEMMA PrepareStep ==
    ASSUME ZipInv, ~abandoned, NEW n \in Name, NEW d \in BOOLEAN, PrepareToAddFile(n, d)
    PROVE  ZipInv'
  <1> DEFINE r == LocalFileHeader(n, d)
  <1> USE DEF PrepareToAddFile, CanPrepare
  <1>1. Stream(out, pos) /\ LfhSize(n) \in Nat \ {0}
    BY StreamInv, SizesType
  <1>2. r \in Record /\ r.len = LfhSize(n)
    BY RecordTypes DEF LocalFileHeader
  <1>3. out' = Put(out, pos, r) /\ pos' = pos + r.len
    BY <1>2
  <1>4. /\ Stream(out', pos')
        /\ DOMAIN out' = DOMAIN out \cup {pos}
        /\ out'[pos] = r
        /\ \A a \in DOMAIN out : a < pos /\ out'[a] = out[a]
    <2> HIDE DEF r, PrepareToAddFile
    <2>1. Stream(Put(out, pos, r), pos + r.len) /\ \A a \in DOMAIN out : a < pos
      BY <1>1, <1>2, AppendRecord
    <2>2. /\ DOMAIN out' = DOMAIN out \cup {pos}
          /\ out'[pos] = r
          /\ \A a \in DOMAIN out : a # pos => out'[a] = out[a]
      BY <1>3 DEF Put
    <2>3. \A a \in DOMAIN out : a # pos
      BY <1>1, <2>1 DEF Stream
    <2> QED BY <1>3, <2>1, <2>2, <2>3
  <1>5. ZipTypeOK'
    <2>1. fileNameSequence' \in Seq(Name)
      BY DEF ZipInv, ZipTypeOK
    <2>2. DOMAIN out' \subseteq Nat /\ pos' \in Nat /\ \A a \in DOMAIN out' : out'[a] \in Record
      BY <1>4 DEF Stream
    <2>3. /\ lastLFH' \in [at : Nat, name : Name, deflate : BOOLEAN]
          /\ zipFile' \in [at : Nat, size : Nat]
      BY <1>1 DEF Stream
    <2>4. zipState' = "ReadyForFile" /\ UNCHANGED <<centralDirectories, closing, abandoned>>
      OBVIOUS
    <2> HIDE DEF PrepareToAddFile
    <2> QED BY <2>1, <2>2, <2>3, <2>4 DEF ZipInv, ZipTypeOK
  <1>6. CurrentFile'
    <2>1. lastLFH' = [at |-> pos, name |-> n, deflate |-> d]
          /\ zipFile' = [at |-> pos + LfhSize(n), size |-> 0]
          /\ closing' = Null
          /\ pos \in Nat
      BY <1>1 DEF Stream
    <2> HIDE DEF r
    <2>2. lastLFH' \in LfhRef /\ zipFile' \in FileRange
      BY <1>1, <2>1 DEF LfhRef, FileRange
    <2>3. lastLFH'.name \notin DOMAIN centralDirectories'
      BY <2>1
    <2>4. \A a \in DOMAIN out' : a <= pos
      BY <1>1, <1>4 DEF Stream
    <2>5. zipFile'.at \notin DOMAIN out'
      BY <1>1, <2>1, <2>4
    <2> QED BY <1>1, <1>4, <2>1, <2>2, <2>3, <2>4, <2>5 DEF CurrentFile, r
  <1>7. RecordsDisjoint'
    BY <1>4 DEF RecordsDisjoint, Stream
  <1>8. HeadersAgree'
    BY <1>4 DEF ZipInv, HeadersAgree
  <1>9. SequenceListsMap'
    <2>1. /\ fileNameSequence \in Seq(Name)
          /\ Len(fileNameSequence) \in Nat
          /\ Len(fileNameSequence') = Len(fileNameSequence) + 1
          /\ fileNameSequence'[Len(fileNameSequence) + 1] = n
          /\ \A i \in 1..Len(fileNameSequence) : fileNameSequence'[i] = fileNameSequence[i]
      BY DEF ZipInv, ZipTypeOK
    <2>2. {fileNameSequence[i] : i \in 1..Len(fileNameSequence)} = DOMAIN centralDirectories
      BY DEF ZipInv, SequenceListsMap
    <2>3. \A i \in 1..Len(fileNameSequence) : fileNameSequence[i] # n
      BY <2>2
    <2>4. ASSUME NEW i \in 1..Len(fileNameSequence'), NEW j \in 1..Len(fileNameSequence'), i # j
          PROVE  fileNameSequence'[i] # fileNameSequence'[j]
      BY <2>1, <2>3, <2>4 DEF ZipInv, SequenceListsMap
    <2>5. {fileNameSequence'[i] : i \in 1..Len(fileNameSequence')} =
             DOMAIN centralDirectories' \cup {lastLFH'.name}
      <3>1. ASSUME NEW i \in 1..Len(fileNameSequence')
            PROVE  fileNameSequence'[i] \in DOMAIN centralDirectories \cup {n}
        BY <2>1, <2>2
      <3>2. ASSUME NEW m \in DOMAIN centralDirectories \cup {n}
            PROVE  \E i \in 1..Len(fileNameSequence') : fileNameSequence'[i] = m
        <4>1. CASE m = n
          BY <2>1, <4>1
        <4>2. CASE m # n
          <5>1. PICK i \in 1..Len(fileNameSequence) : fileNameSequence[i] = m
            BY <2>2, <4>2
          <5>2. i \in 1..Len(fileNameSequence') /\ fileNameSequence'[i] = m
            BY <2>1, <5>1
          <5> QED BY <5>2
        <4> QED BY <4>1, <4>2
      <3> QED BY <3>1, <3>2
    <2> QED BY <2>4, <2>5 DEF SequenceListsMap
  <1> QED BY <1>5, <1>6, <1>7, <1>8, <1>9 DEF ZipInv

LEMMA WriteStep ==
    ASSUME ZipInv, ~abandoned, NEW k \in Size, WriteFileBytes(k)
    PROVE  ZipInv'
  <1> DEFINE size == zipFile.size + k
             r == [kind |-> "data", len |-> size, name |-> lastLFH.name]
  <1>1. CurrentFile /\ zipState = "ReadyForFile"
    BY DEF ZipInv, WriteFileBytes
  <1>2. /\ lastLFH \in LfhRef /\ zipFile \in FileRange /\ size \in Nat
        /\ LfhSize(lastLFH.name) \in Nat \ {0}
        /\ Stream(out, pos)
    BY <1>1, ZipAssumption, SizesType, StreamInv DEF CurrentFile, LfhRef, FileRange
  <1>3. /\ zipFile' = [at |-> zipFile.at, size |-> size]
        /\ pos' = zipFile.at + size
        /\ out' = IF size = 0 THEN out ELSE Put(out, zipFile.at, r)
        /\ UNCHANGED <<zipState, fileNameSequence, centralDirectories, lastLFH,
                       closing, abandoned>>
    BY <1>2 DEF WriteFileBytes, FileRange
  <1> HIDE DEF size
  <1>4. \A a \in DOMAIN out : a # zipFile.at => a + out[a].len <= zipFile.at
    <2>1. out[lastLFH.at].len = LfhSize(lastLFH.name)
      BY <1>1 DEF CurrentFile, LocalFileHeader
    <2>2. \A a \in DOMAIN out : a < lastLFH.at => a + out[a].len <= lastLFH.at
      BY <1>1, <1>2 DEF CurrentFile, Stream
    <2>3. lastLFH.at \in Nat /\ zipFile.at = lastLFH.at + LfhSize(lastLFH.name)
      BY <1>1, <1>2 DEF CurrentFile, LfhRef
    <2>4. \A a \in DOMAIN out : a \in Nat /\ out[a].len \in Nat
      BY <1>2, RecordLen DEF Stream
    <2>5. \A a \in DOMAIN out : a <= lastLFH.at \/ a = zipFile.at
      BY <1>1 DEF CurrentFile
    <2> QED BY <1>2, <2>1, <2>2, <2>3, <2>4, <2>5
  <1>5. /\ Stream(out', pos')
        /\ DOMAIN out' \subseteq DOMAIN out \cup {zipFile.at}
        /\ DOMAIN out \subseteq DOMAIN out'
        /\ zipFile.at \in DOMAIN out' => out'[zipFile.at] = r
        /\ \A a \in DOMAIN out : a # zipFile.at => out'[a] = out[a]
    <2>1. CASE size = 0
      <3>1. zipFile.size = 0
        BY <1>2, <2>1, ZipAssumption DEF FileRange, size
      <3>2. out' = out /\ pos' = pos
        BY <1>1, <1>2, <1>3, <2>1, <3>1 DEF CurrentFile, FileRange
      <3>3. zipFile.at \in DOMAIN out => out[zipFile.at] = r
        BY <1>1, <2>1, <3>1 DEF CurrentFile
      <3> HIDE DEF r
      <3> QED BY <1>2, <3>2, <3>3
    <2>2. CASE size # 0
      <3>1. r \in Record /\ r.len = size
        BY <1>2, <2>2, RecordTypes DEF LfhRef
      <3>2. zipFile.at \in Nat /\ zipFile.at <= pos
        BY <1>1, <1>2 DEF CurrentFile, FileRange
      <3>3. out' = Put(out, zipFile.at, r) /\ pos' = zipFile.at + r.len
        BY <1>3, <2>2
      <3> HIDE DEF r
      <3>4. Stream(Put(out, zipFile.at, r), zipFile.at + r.len)
        BY <1>2, <1>4, <3>1, <3>2, GrowLast
      <3>5. /\ DOMAIN out' = DOMAIN out \cup {zipFile.at}
            /\ out'[zipFile.at] = r
            /\ \A a \in DOMAIN out : a # zipFile.at => out'[a] = out[a]
        BY <3>3 DEF Put
      <3> QED BY <3>3, <3>4, <3>5
    <2> QED BY <2>1, <2>2
  <1>6. ZipTypeOK'
    <2>1. DOMAIN out' \subseteq Nat /\ pos' \in Nat /\ \A a \in DOMAIN out' : out'[a] \in Record
      BY <1>5 DEF Stream
    <2>2. zipFile' \in [at : Nat, size : Nat]
      BY <1>2, <1>3 DEF FileRange
    <2> QED BY <1>3, <2>1, <2>2 DEF ZipInv, ZipTypeOK
  <1>7. CurrentFile'
    <2>1. zipFile' \in FileRange /\ zipFile'.at = zipFile.at /\ zipFile'.size = size
      BY <1>2, <1>3 DEF FileRange
    <2>2. lastLFH.at # zipFile.at /\ lastLFH.at \in DOMAIN out
      BY <1>1, <1>2 DEF CurrentFile, LfhRef
    <2>3. out'[lastLFH.at] = LocalFileHeader(lastLFH.name, lastLFH.deflate)
      BY <1>1, <1>5, <2>2 DEF CurrentFile
    <2>4. \A a \in DOMAIN out' : a <= lastLFH.at \/ a = zipFile.at
      BY <1>1, <1>5 DEF CurrentFile
    <2> QED BY <1>1, <1>3, <1>5, <2>1, <2>2, <2>3, <2>4 DEF CurrentFile
  <1>8. RecordsDisjoint'
    BY <1>5 DEF RecordsDisjoint, Stream
  <1>9. HeadersAgree'
    <2>1. zipFile.at \in DOMAIN out => out[zipFile.at].kind = "data"
      BY <1>1 DEF CurrentFile
    <2> HIDE DEF r
    <2> QED BY <1>3, <1>5, <2>1 DEF ZipInv, HeadersAgree
  <1>10. SequenceListsMap'
    BY <1>3 DEF ZipInv, SequenceListsMap
  <1> QED BY <1>6, <1>7, <1>8, <1>9, <1>10 DEF ZipInv

LEMMA EndStep ==
    ASSUME ZipInv, ~abandoned, NEW usize \in Size, NEW force \in BOOLEAN,
           EndFile(zipFile.size, usize, force)
    PROVE  ZipInv'
  <1> DEFINE csize == zipFile.size
             n == lastLFH.name
             uses == UsesDataDescriptor(csize, usize, force)
             h == CentralDirectoryHeader(n, csize, usize, lastLFH.at, lastLFH.deflate, force)
             dd == [kind |-> "dd", len |-> DataDescriptorSize, name |-> n]
             filled == FilledLocalFileHeader(n, lastLFH.deflate, csize, usize)
  <1>1. CurrentFile /\ zipState = "ReadyForFile"
    BY DEF ZipInv, EndFile
  <1>2. /\ lastLFH \in LfhRef /\ zipFile \in FileRange
        /\ n \in Name /\ csize \in Nat /\ usize \in Nat
        /\ lastLFH.at \in Nat /\ lastLFH.deflate \in BOOLEAN
        /\ Stream(out, pos)
    BY <1>1, ZipAssumption, StreamInv DEF CurrentFile, LfhRef, FileRange
  <1>3. /\ lastLFH.at \in DOMAIN out
        /\ out[lastLFH.at] = LocalFileHeader(n, lastLFH.deflate)
        /\ n \notin DOMAIN centralDirectories
        /\ closing = Null
    BY <1>1 DEF CurrentFile
  <1>4. /\ h \in Header
        /\ h.name = n
        /\ h.deflate = lastLFH.deflate
        /\ h.dd = uses
        /\ WideValue(h.at) = lastLFH.at
    <2>1. h \in Header
      BY <1>2, HeaderType
    <2>2. WideValue(Wide(lastLFH.at)) = lastLFH.at
      BY <1>2, WideRoundTrip
    <2> QED BY <2>1, <2>2 DEF CentralDirectoryHeader
  <1>5. /\ DOMAIN centralDirectories' = DOMAIN centralDirectories \cup {n}
        /\ centralDirectories'[n] = h
        /\ \A m \in DOMAIN centralDirectories :
              centralDirectories'[m] = centralDirectories[m]
    <2> HIDE DEF h
    <2>1. centralDirectories' = Put(centralDirectories, n, h)
      BY DEF EndFile, h
    <2> QED BY <1>3, <2>1 DEF Put
  <1>6. /\ zipState' = "ReadyForLfhOrClose"
        /\ UNCHANGED <<fileNameSequence, lastLFH, zipFile, closing, abandoned>>
    BY DEF EndFile
  <1>7. /\ Stream(out', pos')
        /\ DOMAIN out \subseteq DOMAIN out'
        /\ \A a \in DOMAIN out : a # lastLFH.at => out'[a] = out[a]
        /\ out'[lastLFH.at].kind = "lfh"
        /\ out'[lastLFH.at].name = n
        /\ out'[lastLFH.at].deflate = lastLFH.deflate
        /\ out'[lastLFH.at].dd = uses
        /\ uses => out'[lastLFH.at].csize = 0
    <2>1. CASE uses
      <3>1. out' = Put(out, pos, dd) /\ pos' = pos + dd.len
        BY <2>1 DEF EndFile
      <3>2. dd \in Record
        BY <1>2, RecordTypes
      <3> HIDE DEF dd
      <3>3. Stream(Put(out, pos, dd), pos + dd.len) /\ \A a \in DOMAIN out : a < pos
        BY <1>2, <3>2, AppendRecord
      <3>4. \A a \in DOMAIN out : a # pos
        BY <1>2, <3>3 DEF Stream
      <3>5. DOMAIN out \subseteq DOMAIN out' /\ \A a \in DOMAIN out : out'[a] = out[a]
        BY <3>1, <3>4 DEF Put
      <3>6. out'[lastLFH.at] = LocalFileHeader(n, lastLFH.deflate)
        BY <1>3, <3>5
      <3> QED BY <2>1, <3>1, <3>3, <3>5, <3>6 DEF LocalFileHeader
    <2>2. CASE ~uses
      <3>1. out' = Put(out, lastLFH.at, filled) /\ pos' = pos
        BY <2>2 DEF EndFile
      <3>2. filled \in Record
        BY <1>2, RecordTypes
      <3>3. filled.len = out[lastLFH.at].len
        BY <1>3 DEF FilledLocalFileHeader, LocalFileHeader
      <3>4. Stream(Put(out, lastLFH.at, filled), pos)
        BY <1>2, <1>3, <3>2, <3>3, ReplaceRecord
      <3>5. /\ filled.kind = "lfh" /\ filled.name = n
            /\ filled.deflate = lastLFH.deflate /\ filled.dd = FALSE
        BY DEF FilledLocalFileHeader, LocalFileHeader
      <3> HIDE DEF filled
      <3>6. /\ DOMAIN out \subseteq DOMAIN out'
            /\ out'[lastLFH.at] = filled
            /\ \A a \in DOMAIN out : a # lastLFH.at => out'[a] = out[a]
        BY <3>1 DEF Put
      <3>7. uses = FALSE
        BY <2>2 DEF UsesDataDescriptor, InExtendedInfo
      <3> QED BY <3>1, <3>4, <3>5, <3>6, <3>7
    <2> QED BY <2>1, <2>2
  <1> HIDE DEF h, uses
  <1>8. ZipTypeOK'
    <2>1. DOMAIN out' \subseteq Nat /\ pos' \in Nat /\ \A a \in DOMAIN out' : out'[a] \in Record
      BY <1>7 DEF Stream
    <2>2. /\ DOMAIN centralDirectories' \subseteq Name
          /\ \A m \in DOMAIN centralDirectories' : centralDirectories'[m] \in Header
      BY <1>2, <1>4, <1>5 DEF ZipInv, ZipTypeOK
    <2> QED BY <1>6, <2>1, <2>2 DEF ZipInv, ZipTypeOK
  <1>9. CurrentFile'
    BY <1>6 DEF CurrentFile
  <1>10. RecordsDisjoint'
    BY <1>7 DEF RecordsDisjoint, Stream
  <1>11. HeadersAgree'
    <2> SUFFICES ASSUME NEW m \in DOMAIN centralDirectories'
                 PROVE  LET g == centralDirectories'[m]
                            a == WideValue(g.at)
                        IN  /\ g.name = m
                            /\ a \in DOMAIN out'
                            /\ out'[a].kind = "lfh"
                            /\ out'[a].name = m
                            /\ out'[a].deflate = g.deflate
                            /\ out'[a].dd = g.dd
                            /\ g.dd => out'[a].csize = 0
      BY DEF HeadersAgree
    <2>1. CASE m = n
      BY <1>3, <1>4, <1>5, <1>7, <2>1
    <2>2. CASE m # n
      <3> DEFINE a == WideValue(centralDirectories[m].at)
      <3>1. m \in DOMAIN centralDirectories
        BY <1>5, <2>2
      <3>2. a \in DOMAIN out /\ out[a].name = m
        BY <3>1 DEF ZipInv, HeadersAgree
      <3>3. out[lastLFH.at].name = n
        BY <1>3 DEF LocalFileHeader
      <3>4. a # lastLFH.at
        BY <2>2, <3>2, <3>3
      <3>5. a \in DOMAIN out' /\ out'[a] = out[a] /\ centralDirectories'[m] = centralDirectories[m]
        BY <1>5, <1>7, <3>1, <3>2, <3>4
      <3> QED BY <3>1, <3>5 DEF ZipInv, HeadersAgree
    <2> QED BY <2>1, <2>2
  <1>12. SequenceListsMap'
    BY <1>1, <1>5, <1>6 DEF ZipInv, SequenceListsMap
  <1> QED BY <1>8, <1>9, <1>10, <1>11, <1>12 DEF ZipInv

LEMMA CloseBeginStep ==
    ASSUME ZipInv, ~abandoned, CloseBegin
    PROVE  ZipInv'
  <1>1. ZipTypeOK'
    <2>1. closing' \in [next : Nat \ {0}, start : Nat, size : Nat] \cup {Null}
      BY DEF ZipInv, ZipTypeOK, CloseBegin
    <2>2. UNCHANGED <<zipState, fileNameSequence, centralDirectories, lastLFH,
                      zipFile, out, pos, abandoned>>
      BY DEF CloseBegin
    <2> QED BY <2>1, <2>2 DEF ZipInv, ZipTypeOK
  <1>2. CurrentFile'
    BY DEF CurrentFile, CloseBegin
  <1>3. RecordsDisjoint' /\ HeadersAgree' /\ SequenceListsMap'
    BY DEF ZipInv, RecordsDisjoint, HeadersAgree, SequenceListsMap, CloseBegin
  <1> QED BY <1>1, <1>2, <1>3 DEF ZipInv

LEMMA CloseHeaderStep ==
    ASSUME ZipInv, ~abandoned, CloseHeader
    PROVE  ZipInv'
  <1> DEFINE n == fileNameSequence[closing.next]
             h == centralDirectories[n]
             r == [kind |-> "cdh", len |-> CdhSize(h), header |-> h]
  <1>1. /\ closing # Null
        /\ zipState # "ReadyForFile"
        /\ closing \in [next : Nat \ {0}, start : Nat, size : Nat]
        /\ UNCHANGED <<zipState, fileNameSequence, centralDirectories, lastLFH,
                       zipFile, abandoned>>
    BY DEF ZipInv, ZipTypeOK, CurrentFile, CloseHeader
  <1>2. Stream(out, pos)
    BY StreamInv
  <1>3. /\ Stream(out', pos')
        /\ DOMAIN out \subseteq DOMAIN out'
        /\ \A a \in DOMAIN out : out'[a] = out[a]
        /\ closing' \in [next : Nat \ {0}, start : Nat, size : Nat]
    <2>1. CASE n \in DOMAIN centralDirectories
      <3>1. h \in Header /\ CdhSize(h) \in Nat \ {0}
        BY <2>1, SizesType DEF ZipInv, ZipTypeOK
      <3>2. r \in Record /\ r.len = CdhSize(h)
        BY <3>1, RecordTypes
      <3>3. /\ out' = Put(out, pos, r)
            /\ pos' = pos + r.len
            /\ closing' = [closing EXCEPT !.next = @ + 1, !.size = @ + CdhSize(h)]
        BY <2>1 DEF CloseHeader
      <3>4. closing' \in [next : Nat \ {0}, start : Nat, size : Nat]
        <4> DEFINE k == CdhSize(h)
        <4>1. k \in Nat
          BY <3>1
        <4> HIDE DEF k
        <4>2. closing' = [closing EXCEPT !.next = @ + 1, !.size = @ + k]
          BY <3>3 DEF k
        <4>3. closing.next \in Nat /\ closing.start \in Nat /\ closing.size \in Nat
          BY <1>1
        <4>4. closing' = [next |-> closing.next + 1, start |-> closing.start,
                          size |-> closing.size + k]
          BY <1>1, <4>2
        <4> QED BY <4>1, <4>3, <4>4
      <3> HIDE DEF r
      <3>5. Stream(Put(out, pos, r), pos + r.len) /\ \A a \in DOMAIN out : a < pos
        BY <1>2, <3>2, AppendRecord
      <3>6. \A a \in DOMAIN out : a # pos
        BY <1>2, <3>5 DEF Stream
      <3>7. DOMAIN out \subseteq DOMAIN out' /\ \A a \in DOMAIN out : out'[a] = out[a]
        BY <3>3, <3>6 DEF Put
      <3> QED BY <3>3, <3>4, <3>5, <3>7
    <2>2. CASE n \notin DOMAIN centralDirectories
      <3>1. out' = out /\ pos' = pos /\ closing' = [closing EXCEPT !.next = @ + 1]
        BY <2>2 DEF CloseHeader
      <3> QED BY <1>1, <1>2, <3>1
    <2> QED BY <2>1, <2>2
  <1>4. ZipTypeOK'
    <2>1. DOMAIN out' \subseteq Nat /\ pos' \in Nat /\ \A a \in DOMAIN out' : out'[a] \in Record
      BY <1>3 DEF Stream
    <2> QED BY <1>1, <1>3, <2>1 DEF ZipInv, ZipTypeOK
  <1>5. CurrentFile'
    BY <1>1 DEF CurrentFile
  <1>6. RecordsDisjoint'
    BY <1>3 DEF RecordsDisjoint, Stream
  <1>7. HeadersAgree'
    BY <1>1, <1>3 DEF ZipInv, HeadersAgree
  <1>8. SequenceListsMap'
    BY <1>1 DEF ZipInv, SequenceListsMap
  <1> QED BY <1>4, <1>5, <1>6, <1>7, <1>8 DEF ZipInv

LEMMA CloseEndStep ==
    ASSUME ZipInv, ~abandoned, CloseEnd, IsFiniteSet(DOMAIN centralDirectories)
    PROVE  ZipInv'
  <1> DEFINE eocd64 == [kind |-> "eocd64", len |-> Zip64EocdSize,
                        count |-> Cardinality(DOMAIN centralDirectories),
                        cdSize |-> closing.size, cdAt |-> closing.start]
             locator == [kind |-> "locator", len |-> Zip64LocatorSize, at |-> pos]
             eocd == [kind |-> "eocd", len |-> EocdSize]
             out1 == Put(out, pos, eocd64)
             pos1 == pos + Zip64EocdSize
             out2 == Put(out1, pos1, locator)
             pos2 == pos1 + Zip64LocatorSize
             out3 == Put(out2, pos2, eocd)
  <1>1. /\ closing \in [next : Nat \ {0}, start : Nat, size : Nat]
        /\ zipState' = "Closed" /\ closing' = Null /\ fileNameSequence' = <<>>
        /\ UNCHANGED <<centralDirectories, lastLFH, zipFile, abandoned>>
        /\ out' = out3 /\ pos' = pos2 + EocdSize
    BY DEF ZipInv, ZipTypeOK, CloseEnd
  <1>2. Stream(out, pos) /\ pos \in Nat
    BY StreamInv DEF Stream
  <1>3. Cardinality(DOMAIN centralDirectories) \in Nat
    BY FS_CardinalityType
  <1>4. /\ eocd64 \in Record /\ eocd64.len = Zip64EocdSize
        /\ locator \in Record /\ locator.len = Zip64LocatorSize
        /\ eocd \in Record /\ eocd.len = EocdSize
    BY <1>1, <1>2, <1>3, RecordTypes
  <1> HIDE DEF eocd64, locator, eocd, out1, pos1, out2, pos2, out3
  <1>5. /\ Stream(out1, pos1)
        /\ DOMAIN out \subseteq DOMAIN out1
        /\ \A a \in DOMAIN out : out1[a] = out[a]
    <2>1. Stream(Put(out, pos, eocd64), pos + eocd64.len) /\ \A a \in DOMAIN out : a < pos
      BY <1>2, <1>4, AppendRecord
    <2>2. \A a \in DOMAIN out : a # pos
      BY <1>2, <2>1 DEF Stream
    <2>3. DOMAIN out \subseteq DOMAIN out1 /\ \A a \in DOMAIN out : out1[a] = out[a]
      BY <2>2 DEF Put, out1
    <2> QED BY <1>4, <2>1, <2>3 DEF out1, pos1
  <1>6. /\ Stream(out2, pos2)
        /\ DOMAIN out1 \subseteq DOMAIN out2
        /\ \A a \in DOMAIN out1 : out2[a] = out1[a]
    <2>1. Stream(Put(out1, pos1, locator), pos1 + locator.len) /\ \A a \in DOMAIN out1 : a < pos1
      BY <1>4, <1>5, AppendRecord
    <2>2. \A a \in DOMAIN out1 : a # pos1
      BY <1>5, <2>1 DEF Stream
    <2>3. DOMAIN out1 \subseteq DOMAIN out2 /\ \A a \in DOMAIN out1 : out2[a] = out1[a]
      BY <2>2 DEF Put, out2
    <2> QED BY <1>4, <2>1, <2>3 DEF out2, pos2
  <1>7. /\ Stream(out', pos')
        /\ DOMAIN out2 \subseteq DOMAIN out'
        /\ \A a \in DOMAIN out2 : out'[a] = out2[a]
    <2>1. Stream(Put(out2, pos2, eocd), pos2 + eocd.len) /\ \A a \in DOMAIN out2 : a < pos2
      BY <1>4, <1>6, AppendRecord
    <2>2. \A a \in DOMAIN out2 : a # pos2
      BY <1>6, <2>1 DEF Stream
    <2>3. DOMAIN out2 \subseteq DOMAIN out3 /\ \A a \in DOMAIN out2 : out3[a] = out2[a]
      BY <2>2 DEF Put, out3
    <2> QED BY <1>1, <1>4, <2>1, <2>3 DEF out3
  <1>8. DOMAIN out \subseteq DOMAIN out' /\ \A a \in DOMAIN out : out'[a] = out[a]
    BY <1>5, <1>6, <1>7
  <1>9. ZipTypeOK'
    <2>1. DOMAIN out' \subseteq Nat /\ pos' \in Nat /\ \A a \in DOMAIN out' : out'[a] \in Record
      BY <1>7 DEF Stream
    <2>2. fileNameSequence' \in Seq(Name)
      BY <1>1
    <2>3. zipState' = "Closed" /\ closing' = Null
          /\ UNCHANGED <<centralDirectories, lastLFH, zipFile, abandoned>>
      BY <1>1
    <2> QED BY <2>1, <2>2, <2>3 DEF ZipInv, ZipTypeOK
  <1>10. CurrentFile' /\ SequenceListsMap'
    BY <1>1 DEF CurrentFile, SequenceListsMap
  <1>11. RecordsDisjoint'
    BY <1>7 DEF RecordsDisjoint, Stream
  <1>12. HeadersAgree'
    BY <1>1, <1>8 DEF ZipInv, HeadersAgree
  <1> QED BY <1>9, <1>10, <1>11, <1>12 DEF ZipInv

-----------------------------------------------------------------------------
(* The theorems.                                                           *)

(* The central directory holds finitely many headers, so its size is a     *)
(* number: the entry count Close records.                                  *)
DirectoryFinite == IsFiniteSet(DOMAIN centralDirectories)

LEMMA FiniteStep == DirectoryFinite /\ [ZipNext]_zipVars => DirectoryFinite'
  <1> SUFFICES ASSUME DirectoryFinite, [ZipNext]_zipVars PROVE DirectoryFinite'
    OBVIOUS
  <1>1. CASE UNCHANGED centralDirectories
    BY <1>1 DEF DirectoryFinite
  <1>2. ASSUME NEW usize \in Size, NEW force \in BOOLEAN,
               EndFile(zipFile.size, usize, force)
        PROVE  DirectoryFinite'
    <2>1. DOMAIN centralDirectories' = DOMAIN centralDirectories \cup {lastLFH.name}
      BY <1>2 DEF EndFile, Put
    <2> QED BY <2>1, FS_AddElement DEF DirectoryFinite
  <1>3. CASE \E usize \in Size, force \in BOOLEAN : EndFile(zipFile.size, usize, force)
    BY <1>2, <1>3
  <1> QED BY <1>1, <1>3 DEF ZipNext, zipVars, PrepareToAddFile, PrepareDuplicate,
             PrepareWriteFails, WriteFileBytes, FileFails, CloseBegin, CloseHeader,
             CloseEnd, CloseFails

(* ZipInv is an invariant of the zip writer: no sequence of PrepareToAddFile,
   writes, EndFile and Close, failing anywhere, breaks a part of it. *)
THEOREM ZipInvariant == ZipSpec => []ZipInv
  <1>1. ZipInit => ZipInv /\ DirectoryFinite
    <2> SUFFICES ASSUME ZipInit PROVE ZipInv /\ DirectoryFinite
      OBVIOUS
    <2>1. ZipTypeOK
      <3>1. fileNameSequence \in Seq(Name)
        BY DEF ZipInit
      <3> QED BY <3>1 DEF ZipInit, ZipTypeOK
    <2>2. CurrentFile /\ RecordsDisjoint /\ HeadersAgree
      BY DEF ZipInit, CurrentFile, RecordsDisjoint, HeadersAgree
    <2>3. SequenceListsMap
      <3>1. Len(fileNameSequence) = 0 /\ DOMAIN centralDirectories = {}
        BY DEF ZipInit
      <3> QED BY <3>1 DEF ZipInit, SequenceListsMap
    <2>4. DirectoryFinite
      BY FS_EmptySet DEF ZipInit, DirectoryFinite
    <2> QED BY <2>1, <2>2, <2>3, <2>4 DEF ZipInv
  <1>2. ZipInv /\ DirectoryFinite /\ [ZipNext]_zipVars => (ZipInv /\ DirectoryFinite)'
    <2> SUFFICES ASSUME ZipInv, DirectoryFinite, [ZipNext]_zipVars PROVE ZipInv'
      BY FiniteStep
    <2>1. CASE UNCHANGED zipVars
      BY <2>1 DEF ZipInv, zipVars, ZipTypeOK, CurrentFile, RecordsDisjoint,
                  HeadersAgree, SequenceListsMap
    <2>2. CASE ZipNext
      <3>1. ~abandoned
        BY <2>2 DEF ZipNext
      <3>2. ASSUME NEW n \in Name, NEW d \in BOOLEAN, PrepareToAddFile(n, d) PROVE ZipInv'
        BY <3>1, <3>2, PrepareStep
      <3>3. ASSUME \/ \E n \in Name : PrepareDuplicate(n) \/ PrepareWriteFails(n)
                   \/ FileFails
                   \/ CloseFails
            PROVE  ZipInv'
        BY <3>3, ThrowStep
      <3>4. ASSUME NEW k \in Size, WriteFileBytes(k) PROVE ZipInv'
        BY <3>1, <3>4, WriteStep
      <3>5. ASSUME NEW usize \in Size, NEW force \in BOOLEAN,
                   EndFile(zipFile.size, usize, force)
            PROVE  ZipInv'
        BY <3>1, <3>5, EndStep
      <3>6. CASE CloseBegin
        BY <3>1, <3>6, CloseBeginStep
      <3>7. CASE CloseHeader
        BY <3>1, <3>7, CloseHeaderStep
      <3>8. CASE CloseEnd
        BY <3>1, <3>8, CloseEndStep DEF DirectoryFinite
      <3> QED BY <2>2, <3>2, <3>3, <3>4, <3>5, <3>6, <3>7, <3>8 DEF ZipNext
    <2> QED BY <2>1, <2>2
  <1> QED BY <1>1, <1>2, PTL DEF ZipSpec

(* The variables and every record written keep their types. *)
THEOREM ZipTypes == ZipSpec => []ZipTypeOK
  <1>1. ZipInv => ZipTypeOK
    BY DEF ZipInv
  <1> QED BY <1>1, ZipInvariant, PTL

(* No record of the archive overlaps another. *)
THEOREM ZipDisjoint == ZipSpec => []RecordsDisjoint
  <1>1. ZipInv => RecordsDisjoint
    BY DEF ZipInv
  <1> QED BY <1>1, ZipInvariant, PTL

(* Central directory headers and local headers agree, for every file, size
   and offset, on both sides of the 32-bit limit. *)
THEOREM ZipHeaders == ZipSpec => []HeadersAgree
  <1>1. ZipInv => HeadersAgree
    BY DEF ZipInv
  <1> QED BY <1>1, ZipInvariant, PTL

(* The sequence Close walks and the map whose size it records list the same
   files. *)
THEOREM ZipSequence == ZipSpec => []SequenceListsMap
  <1>1. ZipInv => SequenceListsMap
    BY DEF ZipInv
  <1> QED BY <1>1, ZipInvariant, PTL

LEMMA StayStep == ZipInv /\ ZipNext => FilesStay
  <1> SUFFICES ASSUME ZipInv, ZipNext PROVE FilesStay
    OBVIOUS
  <1>1. ~abandoned /\ Stream(out, pos) /\ CurrentFile
    BY StreamInv DEF ZipNext, ZipInv
  <1>2. \A a \in DOMAIN out : a # pos
    <2>1. \A a \in DOMAIN out : a \in Nat /\ out[a].len \in Nat \ {0} /\ a + out[a].len <= pos
      BY <1>1, RecordLen DEF Stream
    <2> QED BY <1>1, <2>1 DEF Stream
  <1>3. CASE UNCHANGED out
    BY <1>3 DEF FilesStay
  <1>4. ASSUME NEW r, out' = Put(out, pos, r) PROVE FilesStay
    <2>1. DOMAIN out \subseteq DOMAIN out' /\ \A a \in DOMAIN out : out'[a] = out[a]
      BY <1>2, <1>4 DEF Put
    <2> QED BY <2>1 DEF FilesStay
  <1>5. ASSUME zipState = "ReadyForFile", NEW at, NEW r, out' = Put(out, at, r),
               at \in DOMAIN out => out[at].name = lastLFH.name
        PROVE  FilesStay
    <2>1. /\ DOMAIN out \subseteq DOMAIN out'
          /\ \A a \in DOMAIN out : a # at => out'[a] = out[a]
      BY <1>5 DEF Put
    <2>2. lastLFH.name \notin DOMAIN centralDirectories
      BY <1>1, <1>5 DEF CurrentFile
    <2> QED BY <1>5, <2>1, <2>2 DEF FilesStay
  <1>6. ASSUME NEW k \in Size, WriteFileBytes(k) PROVE FilesStay
    <2>1. zipFile.at \in DOMAIN out => out[zipFile.at].name = lastLFH.name
      BY <1>1, <1>6 DEF CurrentFile, WriteFileBytes
    <2>2. \/ out' = out
          \/ out' = Put(out, zipFile.at, [kind |-> "data", len |-> zipFile.size + k,
                                          name |-> lastLFH.name])
      BY <1>6 DEF WriteFileBytes
    <2> QED BY <1>3, <1>5, <1>6, <2>1, <2>2 DEF WriteFileBytes
  <1>7. ASSUME NEW usize \in Size, NEW force \in BOOLEAN, EndFile(zipFile.size, usize, force)
        PROVE  FilesStay
    <2>1. out[lastLFH.at].name = lastLFH.name
      BY <1>1, <1>7 DEF CurrentFile, EndFile, LocalFileHeader
    <2>2. \/ out' = Put(out, pos, [kind |-> "dd", len |-> DataDescriptorSize,
                                   name |-> lastLFH.name])
          \/ out' = Put(out, lastLFH.at,
                        FilledLocalFileHeader(lastLFH.name, lastLFH.deflate,
                                              zipFile.size, usize))
      BY <1>7 DEF EndFile
    <2> QED BY <1>4, <1>5, <1>7, <2>1, <2>2 DEF EndFile
  <1>8. CASE CloseHeader
    <2>1. out' = out \/ \E r : out' = Put(out, pos, r)
      BY <1>8 DEF CloseHeader
    <2> QED BY <1>3, <1>4, <2>1
  <1>9. CASE CloseEnd
    <2> DEFINE at2 == pos + Zip64EocdSize
               at3 == at2 + Zip64LocatorSize
    <2>1. PICK r1, r2, r3 : out' = Put(Put(Put(out, pos, r1), at2, r2), at3, r3)
      BY <1>9 DEF CloseEnd
    <2>2. \A a \in DOMAIN out : a # at2 /\ a # at3
      <3>1. \A a \in DOMAIN out : a \in Nat /\ out[a].len \in Nat /\ a + out[a].len <= pos
        BY <1>1, RecordLen DEF Stream
      <3> QED BY <1>1, <3>1 DEF Stream, Zip64EocdSize, Zip64LocatorSize
    <2> HIDE DEF at2, at3
    <2>3. DOMAIN out \subseteq DOMAIN out' /\ \A a \in DOMAIN out : out'[a] = out[a]
      BY <1>2, <2>1, <2>2 DEF Put
    <2> QED BY <2>3 DEF FilesStay
  <1>10. ASSUME NEW n \in Name, NEW d \in BOOLEAN, PrepareToAddFile(n, d) PROVE FilesStay
    BY <1>4, <1>10 DEF PrepareToAddFile
  <1> QED BY <1>3, <1>6, <1>7, <1>8, <1>9, <1>10
          DEF ZipNext, PrepareDuplicate, PrepareWriteFails, FileFails, CloseBegin, CloseFails

(* Nothing overwrites a file that has been ended. *)
THEOREM ZipFilesStay == ZipSpec => FinishedFilesStay
  <1>1. ZipInv /\ [ZipNext]_zipVars => [FilesStay]_zipVars
    BY StayStep
  <1> QED BY <1>1, ZipInvariant, PTL DEF ZipSpec, FinishedFilesStay
=============================================================================
