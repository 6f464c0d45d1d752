------------------------ MODULE PackageWriterProofs ------------------------
(***************************************************************************)
(* Proofs about the package writer, for every set of names, content types, *)
(* compression options and sizes, and every size of a block.               *)
(***************************************************************************)
EXTENDS PackageWriter, ZipWriterProofs

(***************************************************************************)
(* Control: a call runs only while the writer is open, which it is no      *)
(* longer once an exception has left the zip writer; a file that is being  *)
(* added is the one the zip writer has prepared.                           *)
(***************************************************************************)
CtlInv ==
    /\ abandoned => pkgState = "Failed"
    /\ pkgState # "Open" => call = "none"
    /\ call \in {"none", "zip"} => job = Null
    /\ job # Null => /\ zipState = "ReadyForFile"
                     /\ lastLFH.name = job.name
                     /\ job.size \in PayloadSize \cup PartSize
                     /\ left <= job.size
                     /\ job.inMap => mapDepth > 0 /\ Len(blockMap) > 0

(***************************************************************************)
(* The block map: a File element is complete, or is the last one and       *)
(* belongs to the file that is being added.                                *)
(***************************************************************************)
BlocksCover(f) ==
    LET n == Len(f.blocks)
    IN  n * BlockSize >= f.size /\ (n > 0 => (n - 1) * BlockSize < f.size)

Complete(f) ==
    LET n == Len(f.blocks)
    IN  BlocksCover(f) /\ f.fileHash = IF FileHashEnabled /\ n > 1 THEN n ELSE Null

InMap == job # Null /\ job.inMap

Partial(f) ==
    /\ f.name = job.name
    /\ f.size = job.size
    /\ addFileHash = (FileHashEnabled /\ f.size > BlockSize)
    /\ addFileHash => hashed = Len(f.blocks)
    /\ left > 0 => Len(f.blocks) * BlockSize = f.size - left
    /\ left = 0 => BlocksCover(f)

MapInv ==
    pkgState # "Failed" =>
        /\ \A i \in DOMAIN blockMap :
              \/ blockMap[i].name \in DOMAIN centralDirectories /\ Complete(blockMap[i])
              \/ InMap /\ i = Len(blockMap)
        /\ InMap => Len(blockMap) > 0 /\ Partial(blockMap[Len(blockMap)])

(***************************************************************************)
(* The content types: the extension table and the Default elements say the *)
(* same, and no part has an Override before it is added.                   *)
(***************************************************************************)
DefaultsAgree ==
    /\ \A x \in typeElements : x.kind = "Default" =>
          /\ Lower[x.key] \in DOMAIN defaultExtensions
          /\ defaultExtensions[Lower[x.key]] = x.ctype
    /\ \A e \in DOMAIN defaultExtensions :
          \E x \in typeElements : x.kind = "Default" /\ Lower[x.key] = e

OverridesKnown ==
    \A x \in typeElements : x.kind = "Override" =>
        x.key \in DOMAIN centralDirectories \/ (job # Null /\ x.key = job.name)

TypesInv ==
    /\ DefaultsAgree
    /\ ContentTypesResolve
    /\ pkgState # "Failed" =>
          /\ OverridesKnown
          /\ \A j \in added : j.name \in DOMAIN centralDirectories
          /\ job # Null /\ job.ctype # Null => ResolvedTypes(job.name) = {job.ctype}

-----------------------------------------------------------------------------
(***************************************************************************)
(* Types and control.                                                      *)
(***************************************************************************)
FileElement == [name : Name, size : Nat, lfhSize : Nat,
                blocks : Seq(Nat \cup {Null}), fileHash : Nat \cup {Null}]

CtlTypes ==
    /\ pkgState \in {"Open", "Closed", "Failed"}
    /\ call \in {"none", "payload", "directory", "manifest", "blockmap", "types", "zip"}
    /\ pending \in Nat
    /\ listing \subseteq Name
    /\ job \in Job \cup {Null}
    /\ left \in Nat
    /\ deflater \in {"Open", "Closed"}
    /\ blockMap \in Seq(FileElement)
    /\ mapDepth \in Nat
    /\ addFileHash \in BOOLEAN
    /\ hashed \in Nat
    /\ typesDepth \in Nat
    /\ added \subseteq Job

LEMMA Jobs ==
    /\ \A f \in PayloadCandidate :
          PayloadJob(f) \in Job /\ PayloadJob(f).size \in PayloadSize
    /\ \A size \in PartSize :
          /\ ManifestJob(size) \in Job /\ ManifestJob(size).size \in PartSize
          /\ BlockMapJob(size) \in Job /\ BlockMapJob(size).size \in PartSize
          /\ ContentTypesJob(size) \in Job /\ ContentTypesJob(size).size \in PartSize
<1>1. \A s \in PayloadSize \cup PartSize : s \in Nat
    BY PackageAssumption
<1>2. {ManifestName, BlockMapName, ContentTypesName} \subseteq Name
    BY PackageFormatAssumption
<1>3. \A f \in PayloadCandidate : f.name \in Name /\ f.ctype \in Type /\ f.size \in PayloadSize
  <2>1. \A n \in Name, size \in PayloadSize :
            LET f == DirectoryFile(n, size)
            IN  f.name \in Name /\ f.ctype \in Type /\ f.size \in PayloadSize
    <3>1. \A n \in Name : DirectoryEntry[n].ctype \in Type
        BY PackageAssumption
    <3> QED
        BY <3>1 DEF DirectoryFile
  <2> QED
    BY <2>1 DEF PayloadCandidate, PayloadFile
<1>4. \A f \in PayloadCandidate : PayloadJob(f) \in Job /\ PayloadJob(f).size \in PayloadSize
    BY <1>1, <1>3 DEF PayloadJob, Job
<1>5. \A size \in PartSize :
          /\ ManifestJob(size) \in Job /\ ManifestJob(size).size \in PartSize
          /\ BlockMapJob(size) \in Job /\ BlockMapJob(size).size \in PartSize
          /\ ContentTypesJob(size) \in Job /\ ContentTypesJob(size).size \in PartSize
    BY <1>1, <1>2 DEF ManifestJob, BlockMapJob, ContentTypesJob, Job
<1> QED
    BY <1>4, <1>5

\* A job of the right kind, given to AddFileToPackage.
Fits(j) == j \in Job /\ j.size \in PayloadSize \cup PartSize

(***************************************************************************)
(* Whatever public call a step belongs to, it starts a file, throws, does  *)
(* something between two files, or works on the file being added.          *)
(***************************************************************************)
FileCalls == {"payload", "directory", "manifest", "blockmap", "types"}

StartStep(j) ==
    /\ job = Null /\ pkgState = "Open"
    /\ PrepareToAddFile(j.name, j.deflate)
    /\ IF j.ctype # Null THEN AddContentType(j.name, j.ctype)
                         ELSE UNCHANGED <<defaultExtensions, typeElements>>
    /\ IF j.inMap THEN MapAddFile(j.name, j.size, LfhSize(j.name))
                  ELSE UNCHANGED <<blockMap, addFileHash, hashed>>
    /\ BeginJob(j)
    /\ UNCHANGED <<pkgState, added>>
    /\ call' \in FileCalls
    /\ pending' \in Nat /\ listing' \subseteq Name
    /\ mapDepth' \in Nat /\ typesDepth' \in Nat

ZipThrows ==
    \/ \E n \in Name : PrepareDuplicate(n) \/ PrepareWriteFails(n)
    \/ FileFails
    \/ CloseFails

FailStep ==
    /\ Throw
    /\ UNCHANGED <<blockMap, addFileHash, hashed, defaultExtensions, typeElements>>
    /\ mapDepth' \in Nat /\ typesDepth' \in Nat
    /\ UNCHANGED zipVars \/ (pkgState = "Open" /\ ZipThrows)

RestStep ==
    /\ job = Null
    /\ UNCHANGED <<job, left, deflater, mapVars, typeVars, added>>
    /\ pkgState' # pkgState => pkgState = "Open" /\ pkgState' = "Closed"
    /\ pkgState' # "Open" => call' = "none"
    /\ call' \in FileCalls \cup {"none", "zip"}
    /\ pending' \in Nat /\ listing' \subseteq Name
    /\ UNCHANGED zipVars \/ (pkgState = "Open" /\ (CloseBegin \/ CloseHeader \/ CloseEnd))

FileStep == CopyBlock \/ Terminate \/ FinishFile

LEMMA StartFileStep ==
    ASSUME CtlTypes, NEW j \in Job, job = Null, pkgState = "Open", StartFile(j),
           UNCHANGED pkgState, call' \in FileCalls, pending' \in Nat, listing' \subseteq Name
    PROVE  StartStep(j)
<1>1. mapDepth' \in Nat
  <2>1. mapDepth' \in {mapDepth, mapDepth + 1}
      BY DEF StartFile, MapAddFile, mapVars
  <2> QED
      BY <2>1 DEF CtlTypes
<1>2. typesDepth' \in Nat
    BY DEF StartFile, AddContentType, typeVars, CtlTypes
<1>3. IF j.ctype # Null THEN AddContentType(j.name, j.ctype)
                        ELSE UNCHANGED <<defaultExtensions, typeElements>>
    BY DEF StartFile, typeVars
<1>4. IF j.inMap THEN MapAddFile(j.name, j.size, LfhSize(j.name))
                 ELSE UNCHANGED <<blockMap, addFileHash, hashed>>
    BY DEF StartFile, mapVars
<1>5. PrepareToAddFile(j.name, j.deflate) /\ BeginJob(j) /\ UNCHANGED added
    BY DEF StartFile
<1> QED
    BY <1>1, <1>2, <1>3, <1>4, <1>5 DEF StartStep

LEMMA StartFailsStep ==
    ASSUME CtlTypes, NEW j \in Job, pkgState = "Open", StartFails(j)
    PROVE  FailStep
<1>1. j.name \in Name
    BY DEF Job
<1>2. ZipThrows
    BY <1>1 DEF StartFails, ZipThrows
<1> QED
    BY <1>2 DEF StartFails, FailStep, mapVars, typeVars, CtlTypes

LEMMA Steps ==
    ASSUME CtlTypes, CtlInv, Next
    PROVE  (\E j \in Job : Fits(j) /\ StartStep(j)) \/ FailStep \/ RestStep \/ FileStep
<1>0. /\ call # "none" => pkgState = "Open"
      /\ job # Null => pkgState = "Open"
      /\ CanCall => pkgState = "Open" /\ job = Null
      /\ call = "zip" => job = Null
    BY DEF CtlInv, CanCall
<1>1. CASE AddPayloadFile \/ AddPayloadFiles
  <2>1. PICK n \in Nat : BeginPayload(n)
      BY <1>1 DEF AddPayloadFile, AddPayloadFiles
  <2> QED
      BY <1>0, <2>1 DEF BeginPayload, RestStep, CtlTypes, FileCalls, CanCall
<1>2. CASE PackPayloadFiles
  <2>1. listing' \subseteq Name
      BY <1>2 DEF PackPayloadFiles
  <2> QED
      BY <1>0, <1>2, <2>1 DEF PackPayloadFiles, RestStep, CtlTypes, FileCalls, CanCall
<1>3. CASE ReturnPayload
    BY <1>0, <1>3 DEF ReturnPayload, RestStep, CtlTypes
<1>4. CASE CloseZipBegin
    BY <1>0, <1>4 DEF CloseZipBegin, RestStep, CtlTypes
<1>5. CASE CloseZipHeader
  <2>1. pkgState = "Open" /\ job = Null
      BY <1>0, <1>5 DEF CloseZipHeader
  <2> QED
      BY <1>5, <2>1 DEF CloseZipHeader, RestStep, CtlTypes, ctlVars, FileCalls
<1>6. CASE CloseZipEnd
  <2>1. pkgState = "Open" /\ job = Null
      BY <1>0, <1>6 DEF CloseZipEnd
  <2> QED
      BY <1>6, <2>1 DEF CloseZipEnd, RestStep, CtlTypes
<1>7. CASE CloseZipFails
  <2>1. pkgState = "Open"
      BY <1>0, <1>7 DEF CloseZipFails
  <2> QED
      BY <1>7, <2>1 DEF CloseZipFails, FailStep, ZipThrows, mapVars, typeVars, CtlTypes
<1>8. CASE CopyFails
  <2>1. pkgState = "Open"
      BY <1>0, <1>8 DEF CopyFails
  <2> QED
      BY <1>8, <2>1 DEF CopyFails, FailStep, ZipThrows, mapVars, typeVars, CtlTypes
<1>9. CASE CloseWithBadManifest \/ RejectPayloadFile
    BY <1>9 DEF CloseWithBadManifest, RejectPayloadFile, FailStep, mapVars, typeVars, CtlTypes
<1>10. CASE ValidateAndAddPayloadFile
  <2>1. PICK f \in PayloadCandidate :
            /\ NextFile(f)
            /\ \/ /\ StartFile(PayloadJob(f))
                  /\ pending' = IF call = "payload" THEN pending - 1 ELSE pending
                  /\ listing' = listing \ {f.name}
                  /\ UNCHANGED <<pkgState, call>>
               \/ StartFails(PayloadJob(f))
      BY <1>10 DEF ValidateAndAddPayloadFile
  <2>2. job = Null /\ call \in {"payload", "directory"} /\ (call = "payload" => pending > 0)
      BY <2>1 DEF NextFile
  <2>3. pkgState = "Open"
      BY <1>0, <2>2
  <2>4. PayloadJob(f) \in Job /\ Fits(PayloadJob(f))
      BY Jobs DEF Fits
  <2>5. CASE StartFails(PayloadJob(f))
      BY <2>3, <2>4, <2>5, StartFailsStep
  <2>6. CASE /\ StartFile(PayloadJob(f))
             /\ pending' = IF call = "payload" THEN pending - 1 ELSE pending
             /\ listing' = listing \ {f.name}
             /\ UNCHANGED <<pkgState, call>>
    <3>1. pending' \in Nat
        BY <2>2, <2>6 DEF CtlTypes
    <3>2. listing' \subseteq Name /\ call' \in FileCalls
        BY <2>2, <2>6 DEF CtlTypes, FileCalls
    <3>3. StartStep(PayloadJob(f))
        BY <2>2, <2>3, <2>4, <2>6, <3>1, <3>2, StartFileStep
    <3> QED
        BY <2>4, <3>3
  <2> QED
      BY <2>1, <2>5, <2>6
<1>11. CASE Close
  <2>1. PICK size \in PartSize :
            \/ /\ StartFile(ManifestJob(size))
               /\ call' = "manifest"
               /\ UNCHANGED <<pkgState, pending, listing>>
            \/ StartFails(ManifestJob(size))
      BY <1>11 DEF Close
  <2>2. job = Null /\ pkgState = "Open"
      BY <1>0, <1>11 DEF Close
  <2>3. ManifestJob(size) \in Job /\ Fits(ManifestJob(size))
      BY Jobs DEF Fits
  <2>4. CASE StartFails(ManifestJob(size))
      BY <2>2, <2>3, <2>4, StartFailsStep
  <2>5. CASE /\ StartFile(ManifestJob(size))
             /\ call' = "manifest"
             /\ UNCHANGED <<pkgState, pending, listing>>
    <3>1. pending' \in Nat /\ listing' \subseteq Name /\ call' \in FileCalls
        BY <2>5 DEF CtlTypes, FileCalls
    <3>2. StartStep(ManifestJob(size))
        BY <2>2, <2>3, <2>5, <3>1, StartFileStep
    <3> QED
        BY <2>3, <3>2
  <2> QED
      BY <2>1, <2>4, <2>5
<1>12. CASE AddBlockMap
  <2>1. /\ job = Null /\ pkgState = "Open" /\ call = "manifest" /\ MapClose
        /\ mapDepth' \in Nat /\ UNCHANGED <<blockMap, addFileHash, hashed>>
      BY <1>0, <1>12 DEF AddBlockMap, MapClose
  <2>2. PICK size \in PartSize :
            LET j == BlockMapJob(size)
            IN  \/ /\ PrepareToAddFile(j.name, j.deflate)
                   /\ AddContentType(j.name, j.ctype)
                   /\ BeginJob(j)
                   /\ call' = "blockmap"
                   /\ UNCHANGED <<pkgState, pending, listing, added>>
                \/ PrepareWriteFails(j.name) /\ Throw /\ UNCHANGED typeVars
      BY <1>12 DEF AddBlockMap
  <2> DEFINE j == BlockMapJob(size)
  <2>3. j \in Job /\ Fits(j)
      BY Jobs DEF Fits
  <2>4. j.name \in Name /\ ~j.inMap /\ j.ctype # Null
      BY PackageFormatAssumption, PackageAssumption DEF BlockMapJob
  <2> HIDE DEF j
  <2>5. CASE PrepareWriteFails(j.name) /\ Throw /\ UNCHANGED typeVars
    <3>1. ZipThrows
        BY <2>4, <2>5 DEF ZipThrows
    <3> QED
        BY <2>1, <2>5, <3>1 DEF FailStep, typeVars, CtlTypes
  <2>6. CASE /\ PrepareToAddFile(j.name, j.deflate)
             /\ AddContentType(j.name, j.ctype)
             /\ BeginJob(j)
             /\ call' = "blockmap"
             /\ UNCHANGED <<pkgState, pending, listing, added>>
    <3>1. typesDepth' \in Nat /\ pending' \in Nat /\ listing' \subseteq Name /\ call' \in FileCalls
        BY <2>6 DEF AddContentType, CtlTypes, FileCalls
    <3>2. StartStep(j)
        BY <2>1, <2>4, <2>6, <3>1 DEF StartStep
    <3> QED
        BY <2>3, <3>2
  <2> QED
      BY <2>2, <2>5, <2>6 DEF j
<1>13. CASE AddContentTypes
  <2>1. /\ job = Null /\ pkgState = "Open" /\ call = "blockmap"
        /\ typesDepth' \in Nat /\ UNCHANGED <<defaultExtensions, typeElements>>
        /\ mapDepth' \in Nat /\ UNCHANGED <<blockMap, addFileHash, hashed>>
      BY <1>0, <1>13 DEF AddContentTypes, TypesClose, mapVars, CtlTypes
  <2>2. PICK size \in PartSize :
            LET j == ContentTypesJob(size)
            IN  \/ /\ PrepareToAddFile(j.name, j.deflate)
                   /\ BeginJob(j)
                   /\ call' = "types"
                   /\ UNCHANGED <<pkgState, pending, listing, added>>
                \/ PrepareWriteFails(j.name) /\ Throw
      BY <1>13 DEF AddContentTypes
  <2> DEFINE j == ContentTypesJob(size)
  <2>3. j \in Job /\ Fits(j)
      BY Jobs DEF Fits
  <2>4. j.name \in Name /\ ~j.inMap /\ j.ctype = Null
      BY PackageFormatAssumption DEF ContentTypesJob
  <2> HIDE DEF j
  <2>5. CASE PrepareWriteFails(j.name) /\ Throw
    <3>1. ZipThrows
        BY <2>4, <2>5 DEF ZipThrows
    <3> QED
        BY <2>1, <2>5, <3>1 DEF FailStep
  <2>6. CASE /\ PrepareToAddFile(j.name, j.deflate)
             /\ BeginJob(j)
             /\ call' = "types"
             /\ UNCHANGED <<pkgState, pending, listing, added>>
    <3>1. pending' \in Nat /\ listing' \subseteq Name /\ call' \in FileCalls
        BY <2>6 DEF CtlTypes, FileCalls
    <3>2. StartStep(j)
        BY <2>1, <2>4, <2>6, <3>1 DEF StartStep
    <3> QED
        BY <2>3, <3>2
  <2> QED
      BY <2>2, <2>5, <2>6 DEF j
<1>14. CASE CopyBlock \/ Terminate \/ FinishFile
    BY <1>14 DEF FileStep
<1> QED
    BY <1>1, <1>2, <1>3, <1>4, <1>5, <1>6, <1>7, <1>8, <1>9, <1>10, <1>11, <1>12, <1>13, <1>14
       DEF Next

-----------------------------------------------------------------------------
(***************************************************************************)
(* Control is inductive on its own.                                        *)
(***************************************************************************)
LEMMA CtlStart ==
    ASSUME CtlTypes, CtlInv, NEW j \in Job, Fits(j), StartStep(j)
    PROVE  CtlTypes' /\ CtlInv'
<1>1. /\ job' = j /\ left' = j.size /\ pkgState' = "Open" /\ abandoned' = abandoned
      /\ zipState' = "ReadyForFile" /\ lastLFH'.name = j.name
      /\ added' = added /\ deflater' \in {"Open", "Closed"}
      /\ call' \in FileCalls
    BY DEF StartStep, BeginJob, PrepareToAddFile
<1>2. j # Null /\ j.size \in Nat /\ j.name \in Name
    BY NoJobAssumption DEF Job
<1>3. CASE j.inMap
  <2> DEFINE f == [name |-> j.name, size |-> j.size, lfhSize |-> LfhSize(j.name),
                   blocks |-> <<>>, fileHash |-> Null]
  <2>1. MapAddFile(j.name, j.size, LfhSize(j.name))
      BY <1>3 DEF StartStep
  <2>2. LfhSize(j.name) \in Nat
      BY <1>2, SizesType
  <2>3. f \in FileElement
      BY <1>2, <2>2 DEF FileElement
  <2>4. blockMap' = Append(blockMap, f)
      BY <2>1 DEF MapAddFile
  <2> HIDE DEF f
  <2>5. blockMap' \in Seq(FileElement) /\ Len(blockMap') = Len(blockMap) + 1 /\ Len(blockMap) \in Nat
      BY <2>3, <2>4 DEF CtlTypes
  <2>6. mapDepth' = mapDepth + 1 /\ addFileHash' \in BOOLEAN /\ hashed' \in Nat
      BY <2>1, PackageAssumption DEF MapAddFile, CtlTypes
  <2>7. mapDepth' > 0 /\ Len(blockMap') > 0
      BY <2>5, <2>6 DEF CtlTypes
  <2>8. CtlTypes'
      BY <1>1, <1>2, <2>5, <2>6 DEF StartStep, CtlTypes, FileCalls
  <2> QED
      BY <1>1, <1>2, <2>7, <2>8 DEF CtlInv, Fits, FileCalls, StartStep
<1>4. CASE ~j.inMap
  <2>1. UNCHANGED <<blockMap, addFileHash, hashed>>
      BY <1>4 DEF StartStep
  <2>2. CtlTypes'
      BY <1>1, <1>2, <2>1 DEF StartStep, CtlTypes, FileCalls
  <2> QED
      BY <1>1, <1>2, <1>4, <2>2 DEF CtlInv, Fits, FileCalls, StartStep
<1> QED
    BY <1>3, <1>4

LEMMA BlockTaken ==
    ASSUME CtlTypes, left > 0
    PROVE  /\ NextBlock \in Nat /\ NextBlock > 0 /\ NextBlock <= left /\ NextBlock <= BlockSize
           /\ left - NextBlock \in Nat
BY PackageFormatAssumption DEF CtlTypes, NextBlock

\* What the loop of AddFileToPackage writes for a block is a size.
LEMMA WrittenSize ==
    ASSUME CtlTypes, CtlInv, job # Null, left > 0,
           NEW written \in IF job.deflate THEN DeflatedSize ELSE {NextBlock}
    PROVE  written \in Size /\ written \in Nat
<1>1. job.size \in PayloadSize \cup PartSize /\ left <= job.size
    BY DEF CtlInv
<1>2. job.size \in Nat /\ 0..job.size \subseteq Size
    BY <1>1, PackageAssumption
<1>3. NextBlock \in 0..job.size
    BY <1>1, <1>2, BlockTaken DEF CtlTypes
<1>4. NextBlock \in Size /\ DeflatedSize \subseteq Size /\ Size \subseteq Nat
    BY <1>2, <1>3, PackageAssumption, ZipAssumption
<1> QED
    BY <1>4

\* A block that is added to the last File element.
LEMMA MapAddBlockIs ==
    ASSUME CtlTypes, Len(blockMap) > 0, NEW w \in Nat, NEW d, MapAddBlock(w, d)
    PROVE  /\ blockMap' \in Seq(FileElement) /\ Len(blockMap') = Len(blockMap)
           /\ \A i \in 1..Len(blockMap) : i # Len(blockMap) => blockMap'[i] = blockMap[i]
           /\ LET f == blockMap[Len(blockMap)]
                  g == blockMap'[Len(blockMap)]
              IN  /\ g.name = f.name /\ g.size = f.size /\ g.fileHash = f.fileHash
                  /\ Len(g.blocks) = Len(f.blocks) + 1
           /\ UNCHANGED <<mapDepth, addFileHash>>
           /\ hashed' = IF addFileHash THEN hashed + 1 ELSE hashed
<1> DEFINE n == Len(blockMap)
           f == blockMap[n]
           b == IF d THEN w ELSE Null
           g == [f EXCEPT !.blocks = Append(f.blocks, b)]
<1>1. n \in Nat /\ n \in 1..n /\ blockMap \in Seq(FileElement)
    BY DEF CtlTypes
<1>2. f \in FileElement
    BY <1>1
<1>3. f.blocks \in Seq(Nat \cup {Null}) /\ b \in Nat \cup {Null}
    BY <1>2 DEF FileElement
<1> HIDE DEF b
<1>4. Append(f.blocks, b) \in Seq(Nat \cup {Null}) /\ Len(Append(f.blocks, b)) = Len(f.blocks) + 1
    BY <1>3
<1>5. blockMap' = [blockMap EXCEPT ![n] = g]
    BY <1>1 DEF MapAddBlock, b
<1> HIDE DEF f
<1>6. /\ g \in FileElement /\ g.name = f.name /\ g.size = f.size /\ g.fileHash = f.fileHash
      /\ g.blocks = Append(f.blocks, b)
    BY <1>2, <1>4 DEF FileElement
<1> HIDE DEF g, n
<1>7. /\ blockMap' \in Seq(FileElement) /\ Len(blockMap') = n
      /\ blockMap'[n] = g /\ \A i \in 1..n : i # n => blockMap'[i] = blockMap[i]
  <2>1. blockMap \in [1..n -> FileElement]
      BY <1>1 DEF n
  <2>2. blockMap' \in [1..n -> FileElement]
      BY <1>5, <1>6, <2>1
  <2>3. blockMap' \in Seq(FileElement)
      BY <1>1, <2>2
  <2>4. Len(blockMap') = n
      BY <1>1, <2>2, <2>3
  <2> QED
      BY <1>1, <1>5, <2>1, <2>3, <2>4
<1> QED
    BY <1>4, <1>6, <1>7 DEF n, f, MapAddBlock

\* The last File element when it is closed.
LEMMA MapCloseFileIs ==
    ASSUME CtlTypes, Len(blockMap) > 0, mapDepth > 0, MapCloseFile
    PROVE  /\ blockMap' \in Seq(FileElement) /\ Len(blockMap') = Len(blockMap)
           /\ \A i \in 1..Len(blockMap) : i # Len(blockMap) => blockMap'[i] = blockMap[i]
           /\ LET f == blockMap[Len(blockMap)]
                  g == blockMap'[Len(blockMap)]
              IN  /\ g.name = f.name /\ g.size = f.size /\ g.blocks = f.blocks
                  /\ g.fileHash = IF addFileHash THEN hashed ELSE Null
           /\ mapDepth' \in Nat
           /\ UNCHANGED <<addFileHash, hashed>>
<1> DEFINE n == Len(blockMap)
           f == blockMap[n]
           h == IF addFileHash THEN hashed ELSE Null
           g == [f EXCEPT !.fileHash = h]
<1>1. n \in Nat /\ n \in 1..n /\ blockMap \in Seq(FileElement)
    BY DEF CtlTypes
<1>2. f \in FileElement
    BY <1>1
<1>3. h \in Nat \cup {Null}
    BY DEF CtlTypes
<1>4. blockMap' = [blockMap EXCEPT ![n] = g]
    BY <1>1 DEF MapCloseFile
<1>5. mapDepth' \in Nat /\ UNCHANGED <<addFileHash, hashed>>
    BY DEF MapCloseFile, CtlTypes
<1> HIDE DEF f, h
<1>6. /\ g \in FileElement /\ g.name = f.name /\ g.size = f.size /\ g.blocks = f.blocks
      /\ g.fileHash = h
    BY <1>2, <1>3 DEF FileElement
<1> HIDE DEF g, n
<1>7. /\ blockMap' \in Seq(FileElement) /\ Len(blockMap') = n
      /\ blockMap'[n] = g /\ \A i \in 1..n : i # n => blockMap'[i] = blockMap[i]
  <2>1. blockMap \in [1..n -> FileElement]
      BY <1>1 DEF n
  <2>2. blockMap' \in [1..n -> FileElement]
      BY <1>4, <1>6, <2>1
  <2>3. blockMap' \in Seq(FileElement)
      BY <1>1, <2>2
  <2>4. Len(blockMap') = n
      BY <1>1, <2>2, <2>3
  <2> QED
      BY <1>1, <1>4, <2>1, <2>3, <2>4
<1> QED
    BY <1>5, <1>6, <1>7 DEF n, f, h

LEMMA CtlCopy ==
    ASSUME CtlTypes, CtlInv, CopyBlock
    PROVE  CtlTypes' /\ CtlInv'
<1>1. /\ job # Null /\ left > 0 /\ left' = left - NextBlock
      /\ UNCHANGED <<pkgState, call, pending, listing, job, deflater, typeVars, added>>
    BY DEF CopyBlock
<1>2. PICK written \in IF job.deflate THEN DeflatedSize ELSE {NextBlock} :
          /\ WriteFileBytes(written)
          /\ IF job.inMap THEN MapAddBlock(written, job.deflate) ELSE UNCHANGED mapVars
    BY DEF CopyBlock
<1>3. written \in Nat
    BY <1>1, WrittenSize
<1>4. UNCHANGED <<zipState, lastLFH, abandoned>>
    BY <1>2 DEF WriteFileBytes
<1>5. left' \in Nat /\ left' <= left
    BY <1>1, BlockTaken DEF CtlTypes
<1>6. /\ blockMap' \in Seq(FileElement) /\ Len(blockMap') = Len(blockMap)
      /\ UNCHANGED <<mapDepth, addFileHash>> /\ hashed' \in Nat
  <2>1. CASE job.inMap
    <3>1. Len(blockMap) > 0 /\ MapAddBlock(written, job.deflate)
        BY <1>1, <1>2, <2>1 DEF CtlInv
    <3>2. hashed' \in {hashed, hashed + 1}
        BY <3>1 DEF MapAddBlock
    <3> QED
        BY <1>3, <3>1, <3>2, MapAddBlockIs DEF CtlTypes
  <2>2. CASE ~job.inMap
      BY <1>2, <2>2 DEF mapVars, CtlTypes
  <2> QED
      BY <2>1, <2>2
<1>7. CtlTypes'
    BY <1>1, <1>5, <1>6 DEF CtlTypes, typeVars
<1>8. left' <= job.size
  <2>1. job.size \in Nat /\ left <= job.size
      BY <1>1, PackageAssumption DEF CtlInv
  <2> QED
      BY <1>5, <2>1 DEF CtlTypes
<1> QED
    BY <1>1, <1>4, <1>6, <1>7, <1>8 DEF CtlInv

LEMMA CtlTerminate ==
    ASSUME CtlTypes, CtlInv, Terminate
    PROVE  CtlTypes' /\ CtlInv'
<1>1. UNCHANGED <<pkgState, call, pending, listing, job, left, mapVars, typeVars, added>>
    BY DEF Terminate
<1>2. UNCHANGED <<zipState, lastLFH, abandoned>> /\ deflater' = "Closed"
    BY DEF Terminate, WriteFileBytes
<1> QED
    BY <1>1, <1>2 DEF CtlTypes, CtlInv, mapVars, typeVars

LEMMA CtlFinish ==
    ASSUME CtlTypes, CtlInv, FinishFile
    PROVE  CtlTypes' /\ CtlInv'
<1>1. /\ job # Null /\ job' = Null /\ added' = added \cup {job}
      /\ UNCHANGED <<pkgState, call, pending, listing, left, deflater, typeVars>>
    BY DEF FinishFile
<1>2. UNCHANGED abandoned
    BY DEF FinishFile, EndFile
<1>3. /\ blockMap' \in Seq(FileElement) /\ mapDepth' \in Nat
      /\ UNCHANGED <<addFileHash, hashed>>
  <2>1. CASE job.inMap
    <3>1. Len(blockMap) > 0 /\ mapDepth > 0 /\ MapCloseFile
        BY <1>1, <2>1 DEF CtlInv, FinishFile
    <3> QED
        BY <3>1, MapCloseFileIs
  <2>2. CASE ~job.inMap
      BY <2>2 DEF FinishFile, mapVars, CtlTypes
  <2> QED
      BY <2>1, <2>2
<1>4. CtlTypes'
    BY <1>1, <1>3 DEF CtlTypes, typeVars
<1> QED
    BY <1>1, <1>2, <1>4 DEF CtlInv

LEMMA CtlNext == CtlTypes /\ CtlInv /\ [Next]_vars => CtlTypes' /\ CtlInv'
<1> SUFFICES ASSUME CtlTypes, CtlInv, [Next]_vars PROVE CtlTypes' /\ CtlInv'
    OBVIOUS
<1>1. CASE UNCHANGED vars
    BY <1>1 DEF vars, zipVars, ctlVars, mapVars, typeVars, CtlTypes, CtlInv
<1>2. CASE FailStep
  <2>1. /\ pkgState' = "Failed" /\ call' = "none" /\ pending' = 0 /\ listing' = {}
        /\ job' = Null /\ left' = 0 /\ deflater' = "Closed" /\ added' = added
      BY <1>2 DEF FailStep, Throw
  <2>2. CtlTypes'
      BY <1>2, <2>1 DEF FailStep, CtlTypes
  <2> QED
      BY <2>1, <2>2 DEF CtlInv
<1>3. CASE RestStep
  <2>1. abandoned' = abandoned
      BY <1>3 DEF RestStep, zipVars, CloseBegin, CloseHeader, CloseEnd
  <2>2. CtlTypes'
      BY <1>3 DEF RestStep, CtlTypes, mapVars, typeVars, FileCalls
  <2> QED
      BY <1>3, <2>1, <2>2 DEF RestStep, CtlInv
<1>4. CASE FileStep
    BY <1>4, CtlCopy, CtlTerminate, CtlFinish DEF FileStep
<1>5. CASE \E j \in Job : Fits(j) /\ StartStep(j)
    BY <1>5, CtlStart
<1> QED
    BY <1>1, <1>2, <1>3, <1>4, <1>5, Steps

LEMMA CtlInit == Init => CtlTypes /\ CtlInv
<1> SUFFICES ASSUME Init PROVE CtlTypes /\ CtlInv
    OBVIOUS
<1>1. blockMap \in Seq(FileElement)
    BY DEF Init
<1> QED
    BY <1>1 DEF Init, ZipInit, CtlTypes, CtlInv

LEMMA Control == Spec => [](CtlTypes /\ CtlInv)
BY CtlInit, CtlNext, PTL DEF Spec

-----------------------------------------------------------------------------
(***************************************************************************)
(* Every step of the package writer is a step of the zip writer, or leaves *)
(* it alone.                                                               *)
(***************************************************************************)
LEMMA ZipCalls == CtlTypes /\ CtlInv /\ [Next]_vars => [ZipNext]_zipVars
<1> SUFFICES ASSUME CtlTypes, CtlInv, Next PROVE ZipNext \/ UNCHANGED zipVars
    BY DEF vars
<1>1. pkgState = "Open" => ~abandoned
    BY DEF CtlInv
<1>2. job # Null => ~abandoned
    BY <1>1 DEF CtlInv
<1>3. CASE FailStep
    BY <1>1, <1>3 DEF FailStep, ZipThrows, ZipNext
<1>4. CASE RestStep
    BY <1>1, <1>4 DEF RestStep, ZipNext
<1>5. ASSUME NEW j \in Job, StartStep(j) PROVE ZipNext
  <2>1. j.name \in Name /\ j.deflate \in BOOLEAN
      BY DEF Job
  <2>2. ~abandoned /\ PrepareToAddFile(j.name, j.deflate)
      BY <1>1, <1>5 DEF StartStep
  <2> QED
      BY <2>1, <2>2 DEF ZipNext
<1>6. CASE CopyBlock
  <2>1. PICK written \in IF job.deflate THEN DeflatedSize ELSE {NextBlock} :
            WriteFileBytes(written)
      BY <1>6 DEF CopyBlock
  <2>2. job # Null /\ left > 0
      BY <1>6 DEF CopyBlock
  <2>3. written \in Size
      BY <2>2, WrittenSize
  <2> QED
      BY <1>2, <2>1, <2>2, <2>3 DEF ZipNext
<1>7. CASE Terminate
  <2>1. ~abandoned /\ WriteFileBytes(TerminatorSize) /\ TerminatorSize \in Size
      BY <1>2, <1>7, PackageAssumption DEF Terminate
  <2> QED
      BY <2>1 DEF ZipNext
<1>8. CASE FinishFile
  <2>1. ~abandoned /\ EndFile(zipFile.size, job.size, TRUE)
      BY <1>2, <1>8 DEF FinishFile
  <2>2. job.size \in Size
    <3>1. job.size \in PayloadSize \cup PartSize
        BY <1>8 DEF FinishFile, CtlInv
    <3>2. job.size \in Nat /\ 0..job.size \subseteq Size
        BY <3>1, PackageAssumption
    <3>3. job.size \in 0..job.size
        BY <3>2
    <3> QED
        BY <3>2, <3>3
  <2> QED
      BY <2>1, <2>2 DEF ZipNext
<1> QED
    BY <1>3, <1>4, <1>5, <1>6, <1>7, <1>8, Steps DEF FileStep

(***************************************************************************)
(* Whatever files the public calls of the package writer are given, and    *)
(* wherever one of them throws, the calls it makes on the zip writer come  *)
(* in the order the zip writer accepts and none comes after an exception.  *)
(***************************************************************************)
THEOREM PackageZipProtocol == Spec => ZipProtocol
<1>1. Init => ZipInit
    BY DEF Init
<1> QED
    BY <1>1, Control, ZipCalls, PTL DEF Spec, ZipProtocol, ZipSpec

LEMMA ZipHolds == Spec => []ZipInv
BY PackageZipProtocol, ZipInvariant, PTL DEF ZipProtocol

(***************************************************************************)
(* Every variable of the package writer and of the writers it drives keeps *)
(* its type.                                                               *)
(***************************************************************************)
THEOREM PackageTypes == Spec => []TypeOK
<1>1. CtlTypes /\ ZipInv => TypeOK
    BY DEF CtlTypes, ZipInv, TypeOK, FileElement
<1> QED
    BY <1>1, Control, ZipHolds, PTL

-----------------------------------------------------------------------------
(***************************************************************************)
(* The block map.                                                          *)
(***************************************************************************)

\* A block more, as long as there is something left.
LEMMA OneMoreBlock ==
    ASSUME NEW n \in Nat, NEW b \in Nat \ {0}, NEW size \in Nat, NEW rest \in Nat,
           rest > 0, rest <= size, n * b = size - rest
    PROVE  /\ rest > b => (n + 1) * b = size - (rest - b)
           /\ rest <= b => (n + 1) * b >= size /\ ((n + 1) - 1) * b < size
<1>1. (n + 1) * b = n * b + b /\ ((n + 1) - 1) * b = n * b
    OBVIOUS
<1>2. n * b \in Nat
    OBVIOUS
<1> DEFINE p == n * b
<1> HIDE DEF p
<1>3. p = size - rest /\ (n + 1) * b = p + b /\ ((n + 1) - 1) * b = p
    BY <1>1 DEF p
<1>4. p \in Nat
    BY <1>2 DEF p
<1> QED
    BY <1>3, <1>4

\* A file has more than one block just when it is longer than one.
LEMMA ManyBlocks ==
    ASSUME NEW n \in Nat, NEW b \in Nat \ {0}, NEW size \in Nat,
           n * b >= size, n > 0 => (n - 1) * b < size
    PROVE  n > 1 <=> size > b
<1>1. CASE n = 0
    BY <1>1
<1>2. CASE n = 1
    BY <1>2
<1>3. CASE n > 1
  <2> DEFINE m == n - 2
  <2>1. m \in Nat /\ n - 1 = m + 1
      BY <1>3
  <2> HIDE DEF m
  <2>2. (m + 1) * b = m * b + b /\ m * b \in Nat
      BY <2>1
  <2>3. (n - 1) * b >= b
      BY <2>1, <2>2
  <2>4. (n - 1) * b < size /\ (n - 1) * b \in Int
      BY <1>3
  <2> QED
      BY <1>3, <2>3, <2>4
<1> QED
    BY <1>1, <1>2, <1>3

LEMMA MapInvStep ==
    ASSUME \A i \in DOMAIN blockMap' :
               \/ blockMap'[i].name \in DOMAIN centralDirectories' /\ Complete(blockMap'[i])
               \/ InMap' /\ i = Len(blockMap'),
           InMap' => Len(blockMap') > 0 /\ Partial(blockMap[Len(blockMap)])'
    PROVE  MapInv'
BY DEF MapInv, Complete, BlocksCover

LEMMA MapStart ==
    ASSUME CtlTypes, CtlInv, MapInv, NEW j \in Job, StartStep(j)
    PROVE  MapInv'
<1>1. /\ job = Null /\ pkgState = "Open" /\ job' = j /\ left' = j.size
      /\ centralDirectories' = centralDirectories
    BY DEF StartStep, BeginJob, PrepareToAddFile
<1>2. j # Null /\ j.size \in Nat
    BY NoJobAssumption DEF Job
<1>3. \A i \in DOMAIN blockMap :
          blockMap[i].name \in DOMAIN centralDirectories /\ Complete(blockMap[i])
    BY <1>1 DEF MapInv, InMap
<1>4. CASE j.inMap
  <2> DEFINE f == [name |-> j.name, size |-> j.size, lfhSize |-> LfhSize(j.name),
                   blocks |-> <<>>, fileHash |-> Null]
             n == Len(blockMap)
  <2>1. /\ blockMap' = Append(blockMap, f)
        /\ addFileHash' = (FileHashEnabled /\ j.size > BlockSize)
        /\ hashed' = IF addFileHash' THEN 0 ELSE hashed
      BY <1>4 DEF StartStep, MapAddFile
  <2>2. f.name = j.name /\ f.size = j.size /\ f.blocks = <<>> /\ Len(f.blocks) = 0
      OBVIOUS
  <2> HIDE DEF f
  <2>3. /\ n \in Nat /\ Len(blockMap') = n + 1 /\ DOMAIN blockMap' = 1..(n + 1)
        /\ blockMap'[n + 1] = f /\ \A i \in 1..n : blockMap'[i] = blockMap[i]
        /\ DOMAIN blockMap = 1..n
    <3>1. blockMap \in Seq(FileElement)
        BY DEF CtlTypes
    <3> QED
        BY <2>1, <3>1
  <2> HIDE DEF n
  <2>4. InMap'
      BY <1>1, <1>2, <1>4 DEF InMap
  <2>5. Partial(blockMap[Len(blockMap)])'
    <3>1. 0 * BlockSize = 0
        BY PackageFormatAssumption
    <3>2. left' > 0 => Len(f.blocks) * BlockSize = f.size - left'
        BY <1>1, <1>2, <2>2, <3>1
    <3>3. Len(f.blocks) = 0 /\ (left' = 0 => Len(f.blocks) * BlockSize >= f.size)
        BY <1>1, <1>2, <2>2, <3>1
    <3>4. addFileHash' => hashed' = Len(f.blocks)
        BY <2>1, <2>2
    <3>5. blockMap'[Len(blockMap')] = f
        BY <2>3
    <3> QED
        BY <1>1, <2>1, <2>2, <3>2, <3>3, <3>4, <3>5 DEF Partial, BlocksCover
  <2>6. ASSUME NEW i \in DOMAIN blockMap'
        PROVE  \/ blockMap'[i].name \in DOMAIN centralDirectories' /\ Complete(blockMap'[i])
               \/ i = Len(blockMap')
    <3>1. CASE i \in 1..n
        BY <1>1, <1>3, <2>3, <3>1
    <3>2. CASE i = n + 1
        BY <2>3, <3>2
    <3> QED
        BY <2>3, <2>6, <3>1, <3>2
  <2> QED
    <3>1. Len(blockMap') > 0
        BY <2>3
    <3> QED
        BY <2>4, <2>5, <2>6, <3>1, MapInvStep
<1>5. CASE ~j.inMap
  <2>1. UNCHANGED blockMap
      BY <1>5 DEF StartStep
  <2>2. ~InMap'
      BY <1>1, <1>5 DEF InMap
  <2> QED
      BY <1>1, <1>3, <2>1, <2>2, MapInvStep
<1> QED
    BY <1>4, <1>5

LEMMA MapCopy ==
    ASSUME CtlTypes, CtlInv, MapInv, CopyBlock
    PROVE  MapInv'
<1>1. /\ job # Null /\ left > 0 /\ left' = left - NextBlock
      /\ UNCHANGED <<pkgState, job>>
    BY DEF CopyBlock
<1>2. PICK written \in IF job.deflate THEN DeflatedSize ELSE {NextBlock} :
          /\ WriteFileBytes(written)
          /\ IF job.inMap THEN MapAddBlock(written, job.deflate) ELSE UNCHANGED mapVars
    BY DEF CopyBlock
<1>3. written \in Nat
    BY <1>1, WrittenSize
<1>4. centralDirectories' = centralDirectories /\ (InMap' <=> InMap)
    BY <1>1, <1>2 DEF WriteFileBytes, InMap
<1>5. pkgState = "Open"
    BY <1>1 DEF CtlInv
<1>6. CASE ~job.inMap
  <2>1. blockMap' = blockMap /\ ~InMap
      BY <1>2, <1>6 DEF mapVars, InMap
  <2> QED
      BY <1>4, <1>5, <2>1, MapInvStep DEF MapInv
<1>7. CASE job.inMap
  <2> DEFINE n == Len(blockMap)
             f == blockMap[n]
             g == blockMap'[n]
  <2>1. InMap /\ n > 0 /\ Partial(f)
      BY <1>1, <1>5, <1>7 DEF MapInv, InMap
  <2>2. MapAddBlock(written, job.deflate)
      BY <1>2, <1>7
  <2>3. /\ blockMap' \in Seq(FileElement) /\ Len(blockMap') = n
        /\ \A i \in 1..n : i # n => blockMap'[i] = blockMap[i]
        /\ g.name = f.name /\ g.size = f.size /\ Len(g.blocks) = Len(f.blocks) + 1
        /\ addFileHash' = addFileHash
        /\ hashed' = IF addFileHash THEN hashed + 1 ELSE hashed
      BY <1>3, <2>1, <2>2, MapAddBlockIs
  <2>4. /\ n \in Nat /\ blockMap \in Seq(FileElement) /\ f \in FileElement
        /\ DOMAIN blockMap = 1..n /\ DOMAIN blockMap' = 1..n
      BY <2>1, <2>3 DEF CtlTypes
  <2>5. f.size \in Nat /\ Len(f.blocks) \in Nat
      BY <2>4 DEF FileElement
  <2> DEFINE k == Len(f.blocks)
             size == f.size
  <2>6. /\ f.name = job.name /\ f.size = job.size
        /\ addFileHash = (FileHashEnabled /\ f.size > BlockSize)
        /\ addFileHash => hashed = k
        /\ k * BlockSize = size - left
      BY <1>1, <2>1 DEF Partial
  <2> HIDE DEF n, f, g
  <2>7. k \in Nat /\ size \in Nat /\ left \in Nat /\ left <= size /\ BlockSize \in Nat \ {0}
      BY <1>1, <2>5, <2>6, PackageFormatAssumption DEF CtlTypes, CtlInv
  <2>7a. Len(g.blocks) = k + 1 /\ g.size = size /\ k * BlockSize = size - left
      BY <2>3, <2>6
  <2> HIDE DEF k, size
  <2>8. /\ left > BlockSize => (k + 1) * BlockSize = size - (left - BlockSize)
        /\ left <= BlockSize => (k + 1) * BlockSize >= size /\ ((k + 1) - 1) * BlockSize < size
      BY <1>1, <2>7, <2>7a, OneMoreBlock
  <2>9. /\ left > BlockSize => left' = left - BlockSize
        /\ left <= BlockSize => left' = 0
    <3>1. CASE left > BlockSize
        BY <1>1, <2>7, <3>1 DEF NextBlock
    <3>2. CASE ~(left > BlockSize)
        BY <1>1, <2>7, <3>2 DEF NextBlock
    <3> QED
        BY <2>7, <3>1, <3>2
  <2>10. left' > 0 => Len(g.blocks) * BlockSize = g.size - left'
    <3>1. CASE left > BlockSize
        BY <2>7a, <2>8, <2>9, <3>1
    <3>2. CASE left <= BlockSize
        BY <2>9, <3>2
    <3> QED
        BY <2>7, <3>1, <3>2
  <2>11. left' = 0 => Len(g.blocks) * BlockSize >= g.size /\ (Len(g.blocks) - 1) * BlockSize < g.size
    <3>1. CASE left > BlockSize
      <4>1. left' # 0
          BY <2>7, <2>9, <3>1
      <4> QED
          BY <4>1
    <3>2. CASE left <= BlockSize
        BY <2>7a, <2>8, <3>2
    <3> QED
        BY <2>7, <3>1, <3>2
  <2>12. addFileHash => hashed' = Len(g.blocks)
      BY <2>3, <2>6, <2>7a DEF k
  <2>13. Partial(blockMap[Len(blockMap)])'
    <3>1. g.name = job'.name /\ g.size = job'.size
        BY <1>1, <2>3, <2>6
    <3>2. addFileHash' = (FileHashEnabled /\ g.size > BlockSize)
        BY <2>3, <2>6
    <3>3. addFileHash' => hashed' = Len(g.blocks)
        BY <2>3, <2>12
    <3>4. blockMap'[Len(blockMap')] = g
        BY <2>3 DEF g
    <3> QED
        BY <2>10, <2>11, <3>1, <3>2, <3>3, <3>4 DEF Partial, BlocksCover
  <2>14. ASSUME NEW i \in DOMAIN blockMap', i # n
         PROVE  blockMap'[i].name \in DOMAIN centralDirectories' /\ Complete(blockMap'[i])
    <3>1. blockMap'[i] = blockMap[i] /\ i \in DOMAIN blockMap
        BY <2>3, <2>4, <2>14
    <3> QED
        BY <1>4, <1>5, <2>14, <3>1 DEF MapInv, n
  <2> QED
      BY <1>4, <2>1, <2>3, <2>13, <2>14, MapInvStep
<1> QED
    BY <1>6, <1>7

LEMMA MapFinish ==
    ASSUME CtlTypes, CtlInv, MapInv, FinishFile
    PROVE  MapInv'
<1>1. /\ job # Null /\ left = 0 /\ job' = Null /\ pkgState' = pkgState
      /\ lastLFH.name = job.name
    BY DEF FinishFile, CtlInv
<1>2. DOMAIN centralDirectories' = DOMAIN centralDirectories \cup {job.name}
    BY <1>1 DEF FinishFile, EndFile, Put
<1>3. pkgState = "Open" /\ ~InMap'
    BY <1>1 DEF CtlInv, InMap
<1>4. CASE ~job.inMap
  <2>1. blockMap' = blockMap /\ ~InMap
      BY <1>4 DEF FinishFile, mapVars, InMap
  <2> QED
      BY <1>2, <1>3, <2>1, MapInvStep DEF MapInv
<1>5. CASE job.inMap
  <2> DEFINE n == Len(blockMap)
             f == blockMap[n]
             g == blockMap'[n]
  <2>1. InMap /\ n > 0 /\ Partial(f) /\ mapDepth > 0
      BY <1>1, <1>3, <1>5 DEF MapInv, InMap, CtlInv
  <2>2. MapCloseFile
      BY <1>5 DEF FinishFile
  <2>3. /\ blockMap' \in Seq(FileElement) /\ Len(blockMap') = n
        /\ \A i \in 1..n : i # n => blockMap'[i] = blockMap[i]
        /\ g.name = f.name /\ g.size = f.size /\ g.blocks = f.blocks
        /\ g.fileHash = IF addFileHash THEN hashed ELSE Null
      BY <2>1, <2>2, MapCloseFileIs
  <2>4. /\ n \in Nat /\ blockMap \in Seq(FileElement) /\ f \in FileElement
        /\ DOMAIN blockMap = 1..n /\ DOMAIN blockMap' = 1..n
      BY <2>1, <2>3 DEF CtlTypes
  <2>5. f.size \in Nat /\ Len(f.blocks) \in Nat
      BY <2>4 DEF FileElement
  <2>6. /\ f.name = job.name /\ BlocksCover(f)
        /\ addFileHash = (FileHashEnabled /\ f.size > BlockSize)
        /\ addFileHash => hashed = Len(f.blocks)
      BY <1>1, <2>1 DEF Partial
  <2> HIDE DEF n, f, g
  <2>7. Len(f.blocks) > 1 <=> f.size > BlockSize
      BY <2>5, <2>6, ManyBlocks, PackageFormatAssumption DEF BlocksCover
  <2>8. g.fileHash = IF FileHashEnabled /\ Len(f.blocks) > 1 THEN Len(f.blocks) ELSE Null
      BY <2>3, <2>6, <2>7
  <2>9. Complete(g) /\ g.name \in DOMAIN centralDirectories'
      BY <1>2, <2>3, <2>6, <2>8 DEF Complete, BlocksCover
  <2>10. ASSUME NEW i \in DOMAIN blockMap', i # n
         PROVE  blockMap'[i].name \in DOMAIN centralDirectories' /\ Complete(blockMap'[i])
    <3>1. blockMap'[i] = blockMap[i] /\ i \in DOMAIN blockMap
        BY <2>3, <2>4, <2>10
    <3> QED
        BY <1>2, <1>3, <2>10, <3>1 DEF MapInv, n
  <2>11. ASSUME NEW i \in DOMAIN blockMap'
         PROVE  blockMap'[i].name \in DOMAIN centralDirectories' /\ Complete(blockMap'[i])
      BY <2>9, <2>10 DEF g
  <2> QED
      BY <1>3, <2>11, MapInvStep
<1> QED
    BY <1>4, <1>5

LEMMA MapNext == CtlTypes /\ CtlInv /\ MapInv /\ [Next]_vars => MapInv'
<1> SUFFICES ASSUME CtlTypes, CtlInv, MapInv, [Next]_vars PROVE MapInv'
    OBVIOUS
<1>1. CASE UNCHANGED vars
    BY <1>1 DEF vars, zipVars, ctlVars, mapVars, MapInv, InMap, Partial, Complete, BlocksCover
<1>2. CASE FailStep
    BY <1>2 DEF FailStep, Throw, MapInv
<1>3. CASE RestStep
  <2>1. /\ job = Null /\ job' = Null /\ blockMap' = blockMap
        /\ pkgState' # "Failed" => pkgState # "Failed"
      BY <1>3 DEF RestStep, mapVars
  <2>2. centralDirectories' = centralDirectories
      BY <1>3 DEF RestStep, zipVars, CloseBegin, CloseHeader, CloseEnd
  <2>3. ~InMap /\ ~InMap'
      BY <2>1 DEF InMap
  <2>4. CASE pkgState' = "Failed"
      BY <2>4 DEF MapInv
  <2>5. CASE pkgState' # "Failed"
      BY <2>1, <2>2, <2>3, <2>5, MapInvStep DEF MapInv
  <2> QED
      BY <2>4, <2>5
<1>4. CASE Terminate
  <2>1. UNCHANGED <<pkgState, job, left, blockMap, addFileHash, hashed, centralDirectories>>
      BY <1>4 DEF Terminate, mapVars, WriteFileBytes
  <2> QED
      BY <2>1 DEF MapInv, InMap, Partial, Complete, BlocksCover
<1> QED
    BY <1>1, <1>2, <1>3, <1>4, MapStart, MapCopy, MapFinish, Steps DEF FileStep

(***************************************************************************)
(* For every size of a file and of a block, a File element that is closed  *)
(* has the blocks of the whole file, and a FileHash over all of them just  *)
(* when it has more than one and file hashes are on: what the hash engine  *)
(* and m_addFileHash hold of one file never reaches the next.              *)
(***************************************************************************)
THEOREM PackageBlockMap == Spec => []BlockMapComplete
<1>1. Init => MapInv
    BY DEF Init, MapInv, InMap
<1>2. Spec => []MapInv
    BY <1>1, Control, MapNext, PTL DEF Spec
<1>3. CtlTypes /\ CtlInv /\ ZipInv /\ MapInv => BlockMapComplete
  <2> SUFFICES ASSUME CtlTypes, CtlInv, ZipInv, MapInv, pkgState # "Failed",
                      NEW i \in DOMAIN blockMap,
                      blockMap[i].name \in DOMAIN centralDirectories
               PROVE  Complete(blockMap[i])
      BY DEF BlockMapComplete, Complete, BlocksCover
  <2>1. CASE InMap /\ i = Len(blockMap)
    <3>1. blockMap[i].name = job.name
        BY <2>1 DEF MapInv, Partial
    <3>2. ~abandoned /\ zipState = "ReadyForFile" /\ lastLFH.name = job.name
        BY <2>1 DEF InMap, CtlInv
    <3>3. lastLFH.name \notin DOMAIN centralDirectories
        BY <3>2 DEF ZipInv, CurrentFile
    <3> QED
        BY <3>1, <3>2, <3>3
  <2> QED
      BY <2>1 DEF MapInv
<1> QED
    BY <1>2, <1>3, Control, ZipHolds, PTL

-----------------------------------------------------------------------------
(***************************************************************************)
(* The content types.                                                      *)
(***************************************************************************)
Overrides(n) == {e \in typeElements : e.kind = "Override" /\ e.key = n}
Defaults(n) == {e \in typeElements : /\ e.kind = "Default"
                                     /\ Ext[n] # Null
                                     /\ Lower[e.key] = NormalizedExt(n)}

LEMMA Resolution ==
    ASSUME NEW n
    PROVE  ResolvedTypes(n) =
              {e.ctype : e \in IF Overrides(n) # {} THEN Overrides(n) ELSE Defaults(n)}
BY DEF ResolvedTypes, Overrides, Defaults

LEMMA ResolutionNext ==
    ASSUME NEW n
    PROVE  ResolvedTypes(n)' =
              {e.ctype : e \in IF Overrides(n)' # {} THEN Overrides(n)' ELSE Defaults(n)'}
BY DEF ResolvedTypes, Overrides, Defaults

\* The three things AddContentType does.
LEMMA AddContentTypeIs ==
    ASSUME NEW n, NEW t, AddContentType(n, t)
    PROVE  \/ AddOverride(n, t)
           \/ /\ Ext[n] # Null /\ NormalizedExt(n) \notin DOMAIN defaultExtensions
              /\ AddDefault(n, t)
           \/ /\ Ext[n] # Null /\ NormalizedExt(n) \in DOMAIN defaultExtensions
              /\ defaultExtensions[NormalizedExt(n)] = t
              /\ UNCHANGED <<defaultExtensions, typeElements>>
BY DEF AddContentType

LEMMA DefaultsStay ==
    ASSUME DefaultsAgree, NEW n, NEW t, AddContentType(n, t)
    PROVE  DefaultsAgree'
<1>1. CASE AddOverride(n, t)
    BY <1>1 DEF AddOverride, DefaultsAgree
<1>2. CASE /\ NormalizedExt(n) \notin DOMAIN defaultExtensions
           /\ AddDefault(n, t)
  <2> DEFINE e == NormalizedExt(n)
             x == [kind |-> "Default", key |-> Ext[n], ctype |-> t]
  <2>1. /\ typeElements' = typeElements \cup {x}
        /\ DOMAIN defaultExtensions' = DOMAIN defaultExtensions \cup {e}
        /\ defaultExtensions'[e] = t
        /\ \A a \in DOMAIN defaultExtensions : defaultExtensions'[a] = defaultExtensions[a]
      BY <1>2 DEF AddDefault, Put
  <2>2. x.kind = "Default" /\ Lower[x.key] = e /\ x.ctype = t
      BY DEF NormalizedExt
  <2> HIDE DEF x, e
  <2> QED
      BY <2>1, <2>2 DEF DefaultsAgree
<1>3. CASE UNCHANGED <<defaultExtensions, typeElements>>
    BY <1>3 DEF DefaultsAgree
<1> QED
    BY <1>1, <1>2, <1>3, AddContentTypeIs

\* The new part resolves to its type ...
LEMMA NewResolves ==
    ASSUME DefaultsAgree, NEW n, NEW t, AddContentType(n, t), Overrides(n) = {}
    PROVE  ResolvedTypes(n)' = {t}
<1>1. CASE AddOverride(n, t)
  <2> DEFINE x == [kind |-> "Override", key |-> n, ctype |-> t]
  <2>1. typeElements' = typeElements \cup {x}
      BY <1>1 DEF AddOverride
  <2>2. x.kind = "Override" /\ x.key = n /\ x.ctype = t
      OBVIOUS
  <2> HIDE DEF x
  <2>3. Overrides(n)' = {x}
      BY <2>1, <2>2 DEF Overrides
  <2> QED
      BY <2>2, <2>3, ResolutionNext
<1>2. CASE /\ Ext[n] # Null /\ NormalizedExt(n) \notin DOMAIN defaultExtensions
           /\ AddDefault(n, t)
  <2> DEFINE x == [kind |-> "Default", key |-> Ext[n], ctype |-> t]
  <2>1. typeElements' = typeElements \cup {x}
      BY <1>2 DEF AddDefault
  <2>2. x.kind = "Default" /\ Lower[x.key] = NormalizedExt(n) /\ x.ctype = t
      BY DEF NormalizedExt
  <2> HIDE DEF x
  <2>3. Overrides(n)' = {}
      BY <2>1, <2>2 DEF Overrides
  <2>4. Defaults(n) = {}
      BY <1>2 DEF Defaults, DefaultsAgree
  <2>5. Defaults(n)' = {x}
      BY <1>2, <2>1, <2>2, <2>4 DEF Defaults, NormalizedExt
  <2> QED
      BY <2>2, <2>3, <2>5, ResolutionNext
<1>3. CASE /\ Ext[n] # Null /\ NormalizedExt(n) \in DOMAIN defaultExtensions
           /\ defaultExtensions[NormalizedExt(n)] = t
           /\ UNCHANGED <<defaultExtensions, typeElements>>
  <2>1. Overrides(n)' = {} /\ Defaults(n)' = Defaults(n)
      BY <1>3 DEF Overrides, Defaults, NormalizedExt
  <2>2. Defaults(n) # {}
      BY <1>3 DEF Defaults, DefaultsAgree
  <2>3. \A e \in Defaults(n) : e.ctype = t
      BY <1>3 DEF Defaults, DefaultsAgree
  <2> QED
      BY <2>1, <2>2, <2>3, ResolutionNext
<1> QED
    BY <1>1, <1>2, <1>3, AddContentTypeIs

\* ... and no part that resolves to one type stops doing so.
LEMMA OthersResolve ==
    ASSUME DefaultsAgree, NEW n, NEW t, AddContentType(n, t),
           NEW m, m # n, NEW u, ResolvedTypes(m) = {u}
    PROVE  ResolvedTypes(m)' = {u}
<1>1. CASE AddOverride(n, t)
  <2> DEFINE x == [kind |-> "Override", key |-> n, ctype |-> t]
  <2>1. typeElements' = typeElements \cup {x}
      BY <1>1 DEF AddOverride
  <2>2. x.kind = "Override" /\ x.key = n
      OBVIOUS
  <2> HIDE DEF x
  <2>3. Overrides(m)' = Overrides(m) /\ Defaults(m)' = Defaults(m)
      BY <2>1, <2>2 DEF Overrides, Defaults, NormalizedExt
  <2> QED
      BY <2>3, Resolution, ResolutionNext
<1>2. CASE /\ Ext[n] # Null /\ NormalizedExt(n) \notin DOMAIN defaultExtensions
           /\ AddDefault(n, t)
  <2> DEFINE x == [kind |-> "Default", key |-> Ext[n], ctype |-> t]
  <2>1. typeElements' = typeElements \cup {x}
      BY <1>2 DEF AddDefault
  <2>2. x.kind = "Default" /\ Lower[x.key] = NormalizedExt(n)
      BY DEF NormalizedExt
  <2> HIDE DEF x
  <2>3. Overrides(m)' = Overrides(m)
      BY <2>1, <2>2 DEF Overrides
  <2>4. CASE Overrides(m) # {}
      BY <2>3, <2>4, Resolution, ResolutionNext
  <2>5. CASE Overrides(m) = {}
    <3>1. Defaults(m) # {}
        BY <2>5, Resolution
    <3>2. NormalizedExt(m) \in DOMAIN defaultExtensions
        BY <3>1 DEF Defaults, DefaultsAgree
    <3>3. NormalizedExt(m) # NormalizedExt(n)
        BY <1>2, <3>2
    <3>4. Defaults(m)' = Defaults(m)
        BY <2>1, <2>2, <3>3 DEF Defaults, NormalizedExt
    <3> QED
        BY <2>3, <3>4, Resolution, ResolutionNext
  <2> QED
      BY <2>4, <2>5
<1>3. CASE UNCHANGED <<defaultExtensions, typeElements>>
    BY <1>3 DEF ResolvedTypes, NormalizedExt
<1> QED
    BY <1>1, <1>2, <1>3, AddContentTypeIs

LEMMA TypesStart ==
    ASSUME CtlInv, TypesInv, NEW j \in Job, StartStep(j)
    PROVE  TypesInv'
<1>1. /\ job = Null /\ pkgState = "Open" /\ job' = j /\ added' = added
      /\ centralDirectories' = centralDirectories
      /\ j.name \notin DOMAIN centralDirectories
    BY DEF StartStep, BeginJob, PrepareToAddFile, CanPrepare
<1>2. j # Null
    BY NoJobAssumption
<1>3. DefaultsAgree /\ ContentTypesResolve /\ OverridesKnown
      /\ \A k \in added : k.name \in DOMAIN centralDirectories
    BY <1>1 DEF TypesInv
<1>4. CASE j.ctype # Null
  <2>1. AddContentType(j.name, j.ctype)
      BY <1>4 DEF StartStep
  <2>2. Overrides(j.name) = {}
      BY <1>1, <1>3 DEF Overrides, OverridesKnown
  <2>3. DefaultsAgree'
      BY <1>3, <2>1, DefaultsStay
  <2>4. ResolvedTypes(j.name)' = {j.ctype}
      BY <1>3, <2>1, <2>2, NewResolves
  <2>5. ASSUME NEW k \in added, k.ctype # Null
        PROVE  ResolvedTypes(k.name)' = {k.ctype}
    <3>1. k.name # j.name /\ ResolvedTypes(k.name) = {k.ctype}
        BY <1>1, <1>3, <2>5 DEF ContentTypesResolve
    <3> QED
        BY <1>3, <2>1, <3>1, OthersResolve
  <2>6. ContentTypesResolve'
      BY <1>1, <2>5 DEF ContentTypesResolve
  <2>7. \A x \in typeElements' : x.kind = "Override" => x \in typeElements \/ x.key = j.name
      BY <2>1, AddContentTypeIs DEF AddOverride, AddDefault
  <2>8. OverridesKnown'
      BY <1>1, <1>2, <1>3, <2>7 DEF OverridesKnown
  <2> QED
      BY <1>1, <1>3, <2>3, <2>4, <2>6, <2>8 DEF TypesInv
<1>5. CASE j.ctype = Null
  <2>1. UNCHANGED <<defaultExtensions, typeElements>>
      BY <1>5 DEF StartStep
  <2>2. DefaultsAgree' /\ ContentTypesResolve' /\ OverridesKnown'
      BY <1>1, <1>3, <2>1
         DEF DefaultsAgree, ContentTypesResolve, ResolvedTypes, NormalizedExt, OverridesKnown
  <2> QED
      BY <1>1, <1>3, <1>5, <2>2 DEF TypesInv
<1> QED
    BY <1>4, <1>5

LEMMA TypesFinish ==
    ASSUME CtlInv, TypesInv, FinishFile
    PROVE  TypesInv'
<1>1. /\ job # Null /\ job' = Null /\ added' = added \cup {job}
      /\ UNCHANGED <<pkgState, defaultExtensions, typeElements>>
    BY DEF FinishFile, typeVars
<1>2. pkgState = "Open" /\ lastLFH.name = job.name
    BY <1>1 DEF CtlInv
<1>3. DOMAIN centralDirectories' = DOMAIN centralDirectories \cup {job.name}
    BY <1>2 DEF FinishFile, EndFile, Put
<1>4. /\ DefaultsAgree /\ ContentTypesResolve /\ OverridesKnown
      /\ \A k \in added : k.name \in DOMAIN centralDirectories
      /\ job.ctype # Null => ResolvedTypes(job.name) = {job.ctype}
    BY <1>1, <1>2 DEF TypesInv
<1>5. DefaultsAgree'
    BY <1>1, <1>4 DEF DefaultsAgree
<1>6. \A n : ResolvedTypes(n)' = ResolvedTypes(n)
    BY <1>1 DEF ResolvedTypes, NormalizedExt
<1>7. ContentTypesResolve'
    BY <1>1, <1>4, <1>6 DEF ContentTypesResolve
<1>8. OverridesKnown'
    BY <1>1, <1>3, <1>4 DEF OverridesKnown
<1> QED
    BY <1>1, <1>3, <1>4, <1>5, <1>7, <1>8 DEF TypesInv

LEMMA TypesQuiet ==
    ASSUME TypesInv, UNCHANGED <<defaultExtensions, typeElements, added>>,
           pkgState' # "Failed" =>
               pkgState # "Failed" /\ UNCHANGED <<job, centralDirectories>>
    PROVE  TypesInv'
<1>1. \A n : ResolvedTypes(n)' = ResolvedTypes(n)
    BY DEF ResolvedTypes, NormalizedExt
<1>2. DefaultsAgree' /\ ContentTypesResolve'
    BY <1>1 DEF TypesInv, DefaultsAgree, ContentTypesResolve
<1> QED
    BY <1>1, <1>2 DEF TypesInv, OverridesKnown

LEMMA TypesNext == CtlTypes /\ CtlInv /\ TypesInv /\ [Next]_vars => TypesInv'
<1> SUFFICES ASSUME CtlTypes, CtlInv, TypesInv, [Next]_vars PROVE TypesInv'
    OBVIOUS
<1>1. CASE UNCHANGED vars
    BY <1>1, TypesQuiet DEF vars, zipVars, ctlVars, typeVars
<1>2. CASE FailStep
    BY <1>2, TypesQuiet DEF FailStep, Throw
<1>3. CASE RestStep
  <2>1. centralDirectories' = centralDirectories
      BY <1>3 DEF RestStep, zipVars, CloseBegin, CloseHeader, CloseEnd
  <2> QED
      BY <1>3, <2>1, TypesQuiet DEF RestStep, typeVars
<1>4. CASE CopyBlock \/ Terminate
    BY <1>4, TypesQuiet DEF CopyBlock, Terminate, WriteFileBytes, typeVars
<1> QED
    BY <1>1, <1>2, <1>3, <1>4, TypesStart, TypesFinish, Steps DEF FileStep

(***************************************************************************)
(* For every assignment of extensions, spellings and content types to the  *)
(* files, and every order in which they are added, each part resolves to   *)
(* the type it was added with and to no other.                             *)
(***************************************************************************)
THEOREM PackageContentTypes == Spec => []ContentTypesResolve
<1>1. Init => TypesInv
    BY DEF Init, TypesInv, DefaultsAgree, ContentTypesResolve, OverridesKnown
<1>2. TypesInv => ContentTypesResolve
    BY DEF TypesInv
<1> QED
    BY <1>1, <1>2, Control, TypesNext, PTL DEF Spec
=============================================================================
