--------------------------- MODULE PackageWriter ---------------------------
(***************************************************************************)
(* AppxPackageWriter and the parts it drives: the zip writer (ZipWriter),  *)
(* the block map writer, the content type writer and, for compressed files,*)
(* the deflate stream.                                                     *)
(*                                                                         *)
(* A public call (AddPayloadFile, AddPayloadFiles, PackPayloadFiles, Close)*)
(* is a sequence of steps: `call' says which one runs, `pending' how many  *)
(* files of the caller's array and `listing' which names of the directory  *)
(* it has still to add (a file of the array is chosen when its turn comes),*)
(* `job' is the file AddFileToPackage is working on and `left' its         *)
(* bytesToRead.  An exception ends the call (Throw): the scope_exit of the *)
(* call sets m_state to Failed.                                            *)
(*                                                                         *)
(* A name stands for a file name and for its percent-encoded part name.    *)
(***************************************************************************)
EXTENDS ZipWriter, PackageFormat

CONSTANTS
    InvalidName,      \* names IsFileNameValid refuses
    FootprintName,    \* names IsFootPrintFile recognises
    ReservedName,     \* names IsReservedFolder recognises
    Type,             \* the content types of payload files
    ManifestType, BlockMapType,
    Option,           \* the valid compression options
    NoCompression,    \* APPX_COMPRESSION_OPTION_NONE
    DirectoryEntry,   \* DirectoryEntry[n]: type and option of n by its extension
    PayloadSize,      \* sizes of the payload files
    PartSize,         \* sizes of the manifest, the block map and the content types
    DeflatedSize,     \* sizes deflate may produce for one block
    FileHashEnabled,  \* enableFileHash
    MaxBatch          \* bound on the files of one call

ASSUME PackageAssumption ==
    /\ {ManifestName, BlockMapName, ContentTypesName} \subseteq FootprintName
    /\ FootprintName \subseteq Name
    /\ NoCompression \in Option
    /\ DeflatedSize \subseteq Size
    /\ \A s \in PayloadSize \cup PartSize : s \in Nat /\ 0..s \subseteq Size
    /\ TerminatorSize \in Size
    /\ FileHashEnabled \in BOOLEAN
    /\ DirectoryEntry \in [Name -> [ctype : Type, option : Option]]
    /\ Null \notin Name \cup Type \cup {ManifestType, BlockMapType}

\* The files AddFileToPackage works on: name, content type (Null for none), whether
\* they are compressed and listed in the block map, and size.
Job == [name : Name, ctype : Type \cup {ManifestType, BlockMapType, Null},
        deflate : BOOLEAN, inMap : BOOLEAN, size : Nat]

ASSUME NoJobAssumption == Null \notin Job

VARIABLES
    pkgState,          \* m_state
    call, pending, listing, job, left,
    deflater,          \* m_state of the file's DeflateStream; Closed without one
    blockMap,          \* the File elements of the block map written so far
    mapDepth,          \* open elements of the block map's XmlWriter
    addFileHash,       \* m_addFileHash
    hashed,            \* blocks given to m_fileHashEngine since its Reset
    defaultExtensions, \* m_defaultExtensions
    typeElements,      \* the Default and Override elements written so far
    typesDepth,        \* open elements of the content type XmlWriter
    added              \* history: the files AddFileToPackage has completed

mapVars == <<blockMap, mapDepth, addFileHash, hashed>>
typeVars == <<defaultExtensions, typeElements, typesDepth>>
ctlVars == <<pkgState, call, pending, listing, job, left, deflater>>
vars == <<zipVars, ctlVars, mapVars, typeVars, added>>

-----------------------------------------------------------------------------
(* Files and jobs.                                                         *)

\* A file handed to AddPayloadFile(s): name, content type, option and size.
\* An option outside Option stands for every value the enum does not have.
PayloadFile == [name : Name, ctype : Type, option : Option \cup {Null}, size : PayloadSize]

\* ValidateAndAddPayloadFile's checks.
PayloadFileValid(f) ==
    /\ f.name \notin InvalidName
    /\ f.name \notin FootprintName
    /\ f.name \notin ReservedName
    /\ f.option \in Option

\* The arguments of AddFileToPackage.
PayloadJob(f) == [name |-> f.name, ctype |-> f.ctype, deflate |-> f.option # NoCompression,
                  inMap |-> TRUE, size |-> f.size]
ManifestJob(size) == [name |-> ManifestName, ctype |-> ManifestType, deflate |-> TRUE,
                      inMap |-> TRUE, size |-> size]
BlockMapJob(size) == [name |-> BlockMapName, ctype |-> BlockMapType, deflate |-> TRUE,
                      inMap |-> FALSE, size |-> size]
ContentTypesJob(size) == [name |-> ContentTypesName, ctype |-> Null, deflate |-> TRUE,
                          inMap |-> FALSE, size |-> size]

-----------------------------------------------------------------------------
(* The block map writer.                                                   *)

\* Mutant: the file hash engine is not reset.
MutMapAddFile(n, size, lfhSize) ==
    /\ blockMap' = Append(blockMap, [name |-> n, size |-> size, lfhSize |-> lfhSize,
                                     blocks |-> <<>>, fileHash |-> Null])
    /\ mapDepth' = mapDepth + 1
    /\ addFileHash' = (FileHashEnabled /\ size > BlockSize)
    /\ UNCHANGED hashed

\* BlockMapWriter::AddFile
MapAddFile(n, size, lfhSize) ==
    /\ blockMap' = Append(blockMap, [name |-> n, size |-> size, lfhSize |-> lfhSize,
                                     blocks |-> <<>>, fileHash |-> Null])
    /\ mapDepth' = mapDepth + 1
    /\ addFileHash' = (FileHashEnabled /\ size > BlockSize)
    /\ hashed' = IF addFileHash' THEN 0 ELSE hashed

\* Mutant: no Size attribute, whether the file is compressed or not.
MutMapAddBlock(written, deflate) ==
    /\ blockMap' = [blockMap EXCEPT ![Len(blockMap)].blocks = Append(@, Null)]
    /\ hashed' = IF addFileHash THEN hashed + 1 ELSE hashed
    /\ UNCHANGED <<mapDepth, addFileHash>>

\* BlockMapWriter::AddBlock: the Size attribute only for compressed files.
MapAddBlock(written, deflate) ==
    /\ blockMap' = [blockMap EXCEPT ![Len(blockMap)].blocks =
                       Append(@, IF deflate THEN written ELSE Null)]
    /\ hashed' = IF addFileHash THEN hashed + 1 ELSE hashed
    /\ UNCHANGED <<mapDepth, addFileHash>>

\* Mutant: the File element is not closed.
MutMapCloseFile ==
    /\ blockMap' = [blockMap EXCEPT ![Len(blockMap)].fileHash =
                       IF addFileHash THEN hashed ELSE Null]
    /\ UNCHANGED <<mapDepth, addFileHash, hashed>>

\* BlockMapWriter::CloseFile
MapCloseFile ==
    /\ blockMap' = [blockMap EXCEPT ![Len(blockMap)].fileHash =
                       IF addFileHash THEN hashed ELSE Null]
    /\ mapDepth' = mapDepth - 1
    /\ UNCHANGED <<addFileHash, hashed>>

\* BlockMapWriter::Close and XmlWriter::GetStream, which needs the root closed.
MapClose ==
    /\ mapDepth = 1
    /\ mapDepth' = 0
    /\ UNCHANGED <<blockMap, addFileHash, hashed>>

-----------------------------------------------------------------------------
(* The content type writer.                                                *)

\* Mutant: the extension is searched as it is spelled.
MutNormalizedExt(n) == Ext[n]

\* The key m_defaultExtensions is searched with.
NormalizedExt(n) == Lower[Ext[n]]

AddDefault(n, t) ==
    /\ defaultExtensions' = Put(defaultExtensions, NormalizedExt(n), t)
    /\ typeElements' = typeElements \cup {[kind |-> "Default", key |-> Ext[n], ctype |-> t]}

AddOverride(n, t) ==
    /\ typeElements' = typeElements \cup {[kind |-> "Override", key |-> n, ctype |-> t]}
    /\ UNCHANGED defaultExtensions

\* ContentTypeWriter::AddContentType (forceOverride is never set)
AddContentType(n, t) ==
    /\ \/ Ext[n] = Null /\ AddOverride(n, t)
       \/ /\ Ext[n] # Null
          /\ NormalizedExt(n) \notin DOMAIN defaultExtensions
          /\ AddDefault(n, t)
       \/ /\ Ext[n] # Null
          /\ NormalizedExt(n) \in DOMAIN defaultExtensions
          /\ IF defaultExtensions[NormalizedExt(n)] # t
             THEN AddOverride(n, t)
             ELSE UNCHANGED <<defaultExtensions, typeElements>>
    /\ UNCHANGED typesDepth

\* ContentTypeWriter::Close
TypesClose ==
    /\ typesDepth = 1
    /\ typesDepth' = 0
    /\ UNCHANGED <<defaultExtensions, typeElements>>

-----------------------------------------------------------------------------
(* AddFileToPackage.                                                       *)

\* Mutant: the call fails and the writer stays open.
MutThrow ==
    /\ UNCHANGED <<pkgState, added>>
    /\ call' = "none"
    /\ pending' = 0
    /\ listing' = {}
    /\ job' = Null
    /\ left' = 0
    /\ deflater' = "Closed"

\* An exception leaves the public call that runs.
Throw ==
    /\ pkgState' = "Failed"
    /\ call' = "none"
    /\ pending' = 0
    /\ listing' = {}
    /\ job' = Null
    /\ left' = 0
    /\ deflater' = "Closed"
    /\ UNCHANGED added

\* The local state of AddFileToPackage at the head of its block loop.
BeginJob(j) ==
    /\ job' = j
    /\ left' = j.size
    /\ deflater' = IF j.deflate THEN "Open" ELSE "Closed"

\* Up to the block loop.  A source stream that cannot be measured throws where
\* CopyFails does: the file is prepared and not ended.
StartFile(j) ==
    /\ PrepareToAddFile(j.name, j.deflate)
    /\ IF j.ctype # Null THEN AddContentType(j.name, j.ctype) ELSE UNCHANGED typeVars
    /\ IF j.inMap THEN MapAddFile(j.name, j.size, LfhSize(j.name)) ELSE UNCHANGED mapVars
    /\ BeginJob(j)
    /\ UNCHANGED added

\* The zip writer throws: the part is a duplicate or its header is not written.
StartFails(j) ==
    /\ PrepareDuplicate(j.name) \/ PrepareWriteFails(j.name)
    /\ Throw
    /\ UNCHANGED <<mapVars, typeVars>>

\* Mutant: always a whole block.
MutNextBlock == BlockSize

\* The size of the block the loop takes next.
NextBlock == IF left > BlockSize THEN BlockSize ELSE left

\* One iteration of the loop: read, write (compressed if asked), add to the map.
CopyBlock ==
    /\ job # Null
    /\ left > 0
    /\ job.deflate => deflater = "Open"
    /\ left' = left - NextBlock
    /\ \E written \in IF job.deflate THEN DeflatedSize ELSE {NextBlock} :
          /\ WriteFileBytes(written)
          /\ IF job.inMap THEN MapAddBlock(written, job.deflate) ELSE UNCHANGED mapVars
    /\ UNCHANGED <<pkgState, call, pending, listing, job, deflater, typeVars, added>>

\* A read comes up short or a write fails; the block map's File stays open.
CopyFails ==
    /\ job # Null
    /\ FileFails
    /\ Throw
    /\ UNCHANGED <<mapVars, typeVars>>

\* A compressed file is terminated by a write of no bytes: DeflateStream::Write
\* finishes the deflate stream and closes.
Terminate ==
    /\ job # Null
    /\ left = 0
    /\ deflater = "Open"
    /\ deflater' = "Closed"
    /\ WriteFileBytes(TerminatorSize)
    /\ UNCHANGED <<pkgState, call, pending, listing, job, left, mapVars, typeVars, added>>

\* The File element and the zip entry are ended.
FinishFile ==
    /\ job # Null
    /\ left = 0
    /\ deflater = "Closed"
    /\ IF job.inMap THEN MapCloseFile ELSE UNCHANGED mapVars
    /\ EndFile(zipFile.size, job.size, TRUE)
    /\ added' = added \cup {job}
    /\ job' = Null
    /\ UNCHANGED <<pkgState, call, pending, listing, left, deflater, typeVars>>

-----------------------------------------------------------------------------
(* The public calls.  In any state but Open they return InvalidState and   *)
(* change nothing.                                                         *)

CanCall == pkgState = "Open" /\ call = "none"

\* AddPayloadFile adds one file, AddPayloadFiles an array of them.
BeginPayload(fileCount) ==
    /\ CanCall
    /\ call' = "payload"
    /\ pending' = fileCount
    /\ UNCHANGED <<zipVars, pkgState, listing, job, left, deflater, mapVars, typeVars, added>>

AddPayloadFile == BeginPayload(1)

AddPayloadFiles == \E fileCount \in 0..MaxBatch : BeginPayload(fileCount)

\* PackPayloadFiles leaves out the footprint and the reserved names of a directory.
PackPayloadFiles ==
    /\ CanCall
    /\ \E names \in SUBSET Name :
          /\ Cardinality(names) <= MaxBatch
          /\ listing' = names \ (FootprintName \cup ReservedName)
    /\ call' = "directory"
    /\ UNCHANGED <<zipVars, pkgState, pending, job, left, deflater, mapVars, typeVars, added>>

\* A file of a directory: its type and its option follow from its extension.
DirectoryFile(n, size) == [name |-> n, ctype |-> DirectoryEntry[n].ctype,
                           option |-> DirectoryEntry[n].option, size |-> size]

\* The file the loop of a payload call takes next.
NextFile(f) ==
    /\ job = Null
    /\ \/ call = "payload" /\ pending > 0 /\ f \in PayloadFile
       \/ call = "directory" /\ \E n \in listing, size \in PayloadSize : f = DirectoryFile(n, size)

PayloadCandidate == PayloadFile \cup {DirectoryFile(n, size) : n \in Name, size \in PayloadSize}

\* One iteration of that loop.
ValidateAndAddPayloadFile ==
    \E f \in PayloadCandidate :
        /\ NextFile(f)
        /\ PayloadFileValid(f)
        /\ \/ /\ StartFile(PayloadJob(f))
              /\ pending' = IF call = "payload" THEN pending - 1 ELSE pending
              /\ listing' = listing \ {f.name}
              /\ UNCHANGED <<pkgState, call>>
           \/ StartFails(PayloadJob(f))

RejectPayloadFile ==
    \E f \in PayloadCandidate :
        /\ NextFile(f)
        /\ ~PayloadFileValid(f)
        /\ Throw
        /\ UNCHANGED <<zipVars, mapVars, typeVars>>

\* failState.release() and the return of a payload call.
ReturnPayload ==
    /\ call \in {"payload", "directory"}
    /\ job = Null
    /\ pending = 0
    /\ listing = {}
    /\ call' = "none"
    /\ UNCHANGED <<zipVars, pkgState, pending, listing, job, left, deflater, mapVars,
                   typeVars, added>>

\* Close: the manifest does not parse, or is added to the package.
CloseWithBadManifest ==
    /\ CanCall
    /\ Throw
    /\ UNCHANGED <<zipVars, mapVars, typeVars>>

Close ==
    /\ CanCall
    /\ \E size \in PartSize :
          \/ /\ StartFile(ManifestJob(size))
             /\ call' = "manifest"
             /\ UNCHANGED <<pkgState, pending, listing>>
          \/ StartFails(ManifestJob(size))

\* Close: the block map is closed and added, listed in no block map itself.
AddBlockMap ==
    /\ call = "manifest"
    /\ job = Null
    /\ MapClose
    /\ \E size \in PartSize :
          LET j == BlockMapJob(size)
          IN  \/ /\ PrepareToAddFile(j.name, j.deflate)
                 /\ AddContentType(j.name, j.ctype)
                 /\ BeginJob(j)
                 /\ call' = "blockmap"
                 /\ UNCHANGED <<pkgState, pending, listing, added>>
              \/ /\ PrepareWriteFails(j.name)
                 /\ Throw
                 /\ UNCHANGED typeVars

\* Close: the content types are closed and added, with no type of their own.
AddContentTypes ==
    /\ call = "blockmap"
    /\ job = Null
    /\ TypesClose
    /\ \E size \in PartSize :
          LET j == ContentTypesJob(size)
          IN  \/ /\ PrepareToAddFile(j.name, j.deflate)
                 /\ BeginJob(j)
                 /\ call' = "types"
                 /\ UNCHANGED <<pkgState, pending, listing, added>>
              \/ PrepareWriteFails(j.name) /\ Throw
    /\ UNCHANGED mapVars

\* Close: the zip writer is closed, in several steps.
CloseZipBegin ==
    /\ call = "types"
    /\ job = Null
    /\ CloseBegin
    /\ call' = "zip"
    /\ UNCHANGED <<pkgState, pending, listing, job, left, deflater, mapVars, typeVars, added>>

CloseZipHeader ==
    /\ call = "zip"
    /\ CloseHeader
    /\ UNCHANGED <<ctlVars, mapVars, typeVars, added>>

CloseZipEnd ==
    /\ call = "zip"
    /\ CloseEnd
    /\ pkgState' = "Closed"
    /\ call' = "none"
    /\ UNCHANGED <<pending, listing, job, left, deflater, mapVars, typeVars, added>>

CloseZipFails ==
    /\ call = "zip"
    /\ CloseFails
    /\ Throw
    /\ UNCHANGED <<mapVars, typeVars>>

-----------------------------------------------------------------------------
Init ==
    /\ ZipInit
    /\ pkgState = "Open"
    /\ call = "none"
    /\ pending = 0
    /\ listing = {}
    /\ job = Null
    /\ left = 0
    /\ deflater = "Closed"
    /\ blockMap = <<>>
    /\ mapDepth = 1
    /\ addFileHash = FALSE
    /\ hashed = 0
    /\ defaultExtensions = [e \in {} |-> Null]
    /\ typeElements = {}
    /\ typesDepth = 1
    /\ added = {}

Next ==
    \/ AddPayloadFile \/ AddPayloadFiles \/ PackPayloadFiles
    \/ ValidateAndAddPayloadFile \/ RejectPayloadFile \/ ReturnPayload
    \/ CopyBlock \/ CopyFails \/ Terminate \/ FinishFile
    \/ Close \/ CloseWithBadManifest \/ AddBlockMap \/ AddContentTypes
    \/ CloseZipBegin \/ CloseZipHeader \/ CloseZipEnd \/ CloseZipFails

Spec == Init /\ [][Next]_vars

-----------------------------------------------------------------------------
(* Types.                                                                  *)

\* The types of the writer's variables.
TypeOK ==
    /\ ZipTypeOK
    /\ pkgState \in {"Open", "Closed", "Failed"}
    /\ call \in {"none", "payload", "directory", "manifest", "blockmap", "types", "zip"}
    /\ pending \in Nat
    /\ listing \subseteq Name
    /\ job \in Job \cup {Null}
    /\ left \in Nat
    /\ deflater \in {"Open", "Closed"}
    /\ blockMap \in Seq([name : Name, size : Nat, lfhSize : Nat,
                         blocks : Seq(Nat \cup {Null}), fileHash : Nat \cup {Null}])
    /\ mapDepth \in Nat
    /\ addFileHash \in BOOLEAN
    /\ hashed \in Nat
    /\ typesDepth \in Nat
    /\ added \subseteq Job

-----------------------------------------------------------------------------
(* Properties.                                                             *)

\* How a consumer of [Content_Types].xml finds the type of a part: an Override
\* of its name, else the Default of its extension, compared without case.
ResolvedTypes(n) ==
    LET override == {e \in typeElements : e.kind = "Override" /\ e.key = n}
        default == {e \in typeElements : /\ e.kind = "Default"
                                         /\ Ext[n] # Null
                                         /\ Lower[e.key] = NormalizedExt(n)}
    IN  {e.ctype : e \in IF override # {} THEN override ELSE default}

\* Every part that has been added resolves to exactly the content type it was
\* added with, whatever the order in which files that share an extension, in
\* any spelling, or have none came: AddContentType's choice between a Default
\* and an Override element never captures another part.
ContentTypesResolve ==
    \A j \in added : j.ctype # Null => ResolvedTypes(j.name) = {j.ctype}

\* Every File element that has been closed describes the whole file: as many
\* blocks as the size needs, and a FileHash over all of them exactly when the
\* file is longer than a block and file hashes are enabled.  m_addFileHash and
\* the hash engine survive from one file to the next and must not leak.
BlockMapComplete ==
    \A i \in DOMAIN blockMap :
        (pkgState # "Failed" /\ blockMap[i].name \in DOMAIN centralDirectories) =>
            LET f == blockMap[i]
                n == Len(f.blocks)
            IN  /\ n * BlockSize >= f.size
                /\ n > 0 => (n - 1) * BlockSize < f.size
                /\ f.fileHash = IF FileHashEnabled /\ n > 1 THEN n ELSE Null

\* The package writer follows the protocol of the zip writer: it makes no call
\* on a zip writer that has thrown, and the calls it makes come in the order in
\* which the zip writer accepts them.  (The zip writer's own specification.)
ZipProtocol == ZipSpec
=============================================================================
