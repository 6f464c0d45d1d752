# A TLA+ verification of the MSIX packaging library

MSIX packages are zip64 archives with a manifest, a block map (hashes of every
64 KiB block of every file) and a content types part; bundles are packages of
packages. The repository holds the cross-platform library that writes and reads
them (`src/src/msix`) and, for older Windows, a deployment engine (`src/MsixCore`).
This directory models the library (what its writers put into an archive, what its
readers make of it, and the streams through which payload bytes reach a caller) and
the deployment engine: how it adds, updates and removes packages, what it shares
between them, and its installer window.

## 1. Inventory

| Component (source) | State | Operations | Interacts with |
|---|---|---|---|
| Zip writer (`msix/pack/ZipObjectWriter.cpp`, `inc/internal/ZipObject.hpp`) | `m_state`, `m_fileNameSequence`, `m_centralDirectories`, `m_lastLFH`, the output stream | PrepareToAddFile, the writes of ZipFileStream, EndFile, Close | called by both writers; the stream is read by the zip reader |
| Zip reader (`msix/unpack/ZipObjectReader.cpp`) | the central directory, a lazy table of streams | constructor, GetFile, GetFileNames | package reader |
| Package writer (`msix/pack/AppxPackageWriter.cpp`) | `m_state` | AddPayloadFile(s), PackPayloadFiles, Close | zip writer, block map writer, content type writer, deflate stream |
| Block map writer (`AppxBlockMapWriter.cpp`) | the XML written so far, `m_addFileHash`, the running file hash | AddFile, AddBlock, CloseFile, Close | package writer |
| Content type writer (`ContentTypeWriter.cpp`) | `m_defaultExtensions`, the XML | AddContentType, Close | package writer |
| Deflate stream (`DeflateStream.cpp`) | its state, zlib | Write | package writer, zip file stream |
| Package reader (`msix/unpack/AppxPackageObject.cpp`, `AppxBlockMapObject.cpp`) | footprint and payload tables | constructor, VerifyFile, Unpack | zip reader, payload streams |
| Inflate stream (`msix/unpack/InflateStream.cpp`) | `m_state`, two file positions, window position, zlib | Seek, Read | read through by the payload streams |
| Payload streams (`BlockMapStream.hpp`, `HashStream.hpp`, `RangeStream.hpp`) | position, current block; per block a cache, its position, `m_validated` | Seek, Read | the stream below is shared by all blocks of a file |
| Bundle writer (`AppxBundleWriter.cpp`, `BundleWriterHelper.cpp`, `BundleValidationHelper.cpp`, `BundleManifestWriter.cpp`) | `m_state`, the validation tables, payload and optional package lists, the manifest's XML state | AddPackageReference, AddExternalPackageReference, ProcessBundlePayload(FromMappingFile), ProcessExternalPackages, Close | package readers, zip/block map/content type writers |
| Bundle reader and applicability, signature, manifest readers, name encoding, API entry points, PAL | | | not modelled, see section 7 |
| MsixCore requests (`MsixRequest.cpp`, `MsixResponse.cpp`, `Extractor.cpp`, `ProcessPotentialUpdate.cpp`, `ErrorHandler.cpp`, `PackageManager.cpp`) | a chain of handlers, the response (status, first error, cancel flag), the package directories | AddPackage(Async), RemovePackage(Async), FindPackages, CancelRequest | an add runs removals inside itself (update, rollback); the cancel flag is set by another thread; the response calls back |
| MsixCore shared files (`VirtualFileHandler.cpp`) | the files at machine wide paths, their counts in SharedDLLs | copy or count on add, count down or delete on removal | shared between packages and with other programs |
| MsixCore registry (`RegistryDevirtualizer.cpp`, `Prepare-`, `WriteDevirtualizedRegistry.cpp`) | a mounted `registry.dat`, the keys copied from it | mount, copy, remove, unmount | a mounted file can be neither deleted nor mounted again |
| MsixCore registrations (`StartMenuLink`, `AddRemovePrograms`, `Protocol`, `ComInterface`, `ComServer`, `StartupTask`, `FileTypeAssociation`, `FirewallRules`, `AutoPlay`, `AppExecutionAlias`) | registry keys, links, tasks, rules | write on add, delete on removal | two packages may want one key |
| MsixCore installer window (`InstallUI.cpp`) | `g_installing`, the buttons, the response | the window's messages | the request's thread calls back into it and waits |

What is hard about this code:

* **Partial failure.** Almost every operation writes to several places and throws
  in the middle: the zip writer appends a name before it writes the header,
  validations change their tables before a later check refuses the package,
  `Validate()` allocates its cache before it reads. A writer object stays alive
  after the exception; what the next call sees is the question.
* **Writing in the middle.** `EndFile` seeks back and rewrites a local header.
* **Boundaries.** Sizes and offsets at 2^32-1, empty files, files of exactly one
  block, the two bytes that end a deflate stream and belong to no block.
* **Positions kept in several places.** A payload read goes through four streams,
  each with its own position, over one shared stream that other blocks move.
* **Loops that must end.** `InflateStream::Read` runs a state machine until the
  request is filled, `BlockMapStream::Read` walks blocks.
* **Long legal sequences.** The content type of a part depends on which file with
  its extension came first; a bundle's validity on all packages, accepted or not.

* **Undoing.** MsixCore undoes an add with the handlers that remove a package,
  whatever part of the add had been done: they must find the manifest, must not
  delete what the add had not brought, and fail silently.
* **Two threads and a flag.** The request runs on its own thread, deletes itself and
  calls back into a window whose thread may be waiting for it; a cancel is a flag
  that is looked at now and then; closing the window ends the process.

The library itself is single-threaded; concurrency exists only in MsixCore.

What makes each component correct:

* zip writer: records do not overlap, headers lead to each other, the directory is
  complete, finished files are final, the archive opens and reads back;
* package writer: a package that was closed holds exactly what was added; no call
  is stuck or continues after an exception; the block map is complete; each part
  resolves to its own content type;
* streams: a read that succeeds returns the file's bytes at the position it was
  called at, validated; intact data is not refused; every read returns;
* bundle writer: a closed bundle lists compatible packages of one family in a
  well-formed manifest, with an app package, and optional bundles that are not empty;
* deployment: a package is whole or gone; a shared file is there, in a version high
  enough, exactly as long as somebody needs it; one version per family, unless a
  removal could not delete the other; what a request reports is so; every request
  returns, if the script of the package it may wait for ends;
* installer window: no use of a request after it is gone, no exit in the middle of an
  add, no launch of what an add left half done or is still at work on, no deadlock
  between the threads.

`PROJECT.json` lists the hazards with their lines and the properties aimed at each.

## 2. Plan

Done: (1) `ZipFormat`, `ZipWriter`, `ZipReader`; (2) `PackageWriter` over
`ZipWriter`, with `PackageReader`; (3) `InflateStream`, `PayloadStream` over it;
(4) `BundleWriter`; (5) `VirtualFiles` and `Registrations`, composed in `Deployment`,
which implements `PackageStore`; (6) `InstallUI`; (7) a module of proofs for each of
them, with the refinement of `PackageStore`, and `DeploymentSafety`, about what requests
leave on the machine: every safety property of `Deployment` is proved.

What would come next:

1. `Unpack`: the extraction of a package and of the applicable packages of a bundle,
   with failing copies; `Applicability`: the choice among the packages of a bundle.
2. `ZipReader` over archives the writer did not produce (duplicate names, 32-bit
   end records).

## 3. The modules

`ZipFormat` — the records of an archive. A stream is a function from the offset at
which a record starts to the record; lengths and offsets are kept, file bytes and
CRCs are not (no reader of the library looks at the CRC). `Wide` and `WideValue`
are the 32-bit field with its zip64 companion.

`ZipWriter` — `ZipObjectWriter` and `ZipFileStream`. One action per call
(`PrepareToAddFile`, `WriteFileBytes`, `EndFile`); Close is one step per header
(`CloseBegin`, `CloseHeader`, `CloseEnd`), so that a failure can fall between any
two. The `...Fails` actions are the exceptions, with what was done before the throw
kept; `abandoned` records that one left a call, after which the protocol allows none.

`ZipReader`, `PackageReader` — the constructors and lookups of the readers as
operators over an archive; `ok = FALSE` is an exception.

`PackageFormat`, `PackageWriter` — extends `ZipWriter`, whose actions are conjoined
into its own. A public call is a sequence of steps (`call`, `pending`, `listing`);
`job`/`left` are the locals of `AddFileToPackage`, whose loop is one step per block.
`Throw` is the scope guard that sets `m_state` to Failed. The block map
(`blockMap`, `addFileHash`, `hashed`, `mapDepth`) and the content types
(`defaultExtensions`, `typeElements`, `typesDepth`) are the XML writers' states.
`added` is a history variable: the files whose addition has returned.

`InflateStream` — one action per handler of the state machine. Bytes are their
offsets, so a wrong byte is visible. zlib is the number of bytes it has
produced and can produce from its input; where chunks end is a choice. Between two
reads the caller seeks. `anyCaller` is the kind of caller, fixed by the initial
state: FALSE for the library's own (front to back, a seek to 0, to the current
position or to the end, no call after a failure), TRUE for any user of the public
IStream. `m_fileCurrentPosition` is not moved over the bytes a seek skips, exactly
as in the code.

`PayloadStream` — extends `InflateStream` with `BlockMapStream`, and per block a
`HashStream` and a `RangeStream`. A stored file replaces the inflate stream by one
step per read. `tampered` is the set of blocks whose bytes do not have the hash of the
block map, one of `Damages`; the hash matches when the block's own bytes were read and
the block is not in it.

`BundleWriter` — a package is what its manifest says. `helper` holds the writer
helper and the validation helper; a validation is an operator that returns
`[ok, helper]`, so what it changed before a refusal stays. Close writes one manifest
element and one footprint file per step; the manifest is its Package and its
OptionalBundle elements, each with the elements that were open around it.

`MCZipWriter`, `MCPackageWriter`, `MCBundleWriter` — more instances for TLC, with the
properties that need writer and reader together (`ArchiveReadable`, `RoundTrip`).

`ZipWriterProofs`, `PackageWriterProofs`, `InflateStreamProofs`, `PayloadProofs`,
`BundleWriterProofs`, `DeploymentProofs`, `InstallUIProofs` — the theorems about the
modules of these names; `DeploymentProofs` also has that `Deployment` implements the
safety part of `PackageStore`. `DeploymentSafety` extends it with the theorems about the
directories, the VFS files and the registry. Section 5 is about them.

`PackageNames` — the packages MsixCore is asked for: full name, family, version.

`VirtualFiles` — `VirtualFileHandler`. `target` is the version of the file at each
machine wide path, `shared` its count in SharedDLLs, `vfs` the handler's loop in a
thread. A file is handled in two steps, as its count is read and written back by two
calls (`ReadShared`, then `CopyVfsFile`, `FailVfsFile` or `RemoveVfsFile`). `Foreign`
are paths where another program has put a file without a count.

`Registrations` — what the ten handlers that register something write. A key has an
owner (whose values it holds) and is whole or torn (its handler failed in the middle
of it). The handlers differ in three ways, and only these are kept: who checks the
owner before deleting (`OwnerChecked`), who stops at the first missing key
(`StopAtMissing`), and which keys are left to `registry.dat` (`PassesOver`). Of the keys
in `registry.dat` some may be refused by Windows, and are then skipped with S_OK
(`MayNotCreate`, `DevirtualizeKey`); some have a token in a name of theirs: the add
writes the name without it, the removal looks for it with it, and never finds it
(`Tokenised`, `HiveDeletable`). The removal goes on past what is missing, and deletes a
key only when it is empty then (`SurelyDeleted`).

`Deployment` — `MsixRequest` and its handlers. `req[t]` is the request of thread t:
`pc` the handler of an add, `rem`/`rpc` the removal that runs (the request itself, or
one inside an add) and its handler, `todo` the progress within a handler, `status`,
`code` and `cancelled` the response. `dir` is what a package directory holds, item by
item; `hive` who has a `registry.dat` mounted. One action per handler and direction;
a handler that writes several things takes one step for each. `FailAt`,
`RemoveFailAt`, `CancelAt`, `UnloadMayFail` and `MayCrash` say where faults may happen; a
fault of a removal's handler is ignored, as `IgnoreAndProcessNextHandler` says. Three of
them leave something behind and are only traced in the code: a `remove_all` that fails
keeps any part of the directory with its root (`RemoveDirectory`; `left` in the request
and the history variable `stuck` record it), a `RegUnLoadKey` that fails leaves the hive
mounted, for good once the request is over (`UnloadMountedHive`, `Release`, `Stray`), and
a hive key that cannot be created is skipped. The add of a package in `Scripted` waits
for its PSF script, which ends in a step of its own (`ScriptEnds`).

`PackageStore` — the abstract specification: the set of packages FindPackages lists,
and requests that are refused before they change anything, or work, and answer.
`Deployment!StoreRefined` is the refinement: installed is "directory with a
manifest", a request is checking while it is in one of the handlers whose failure
ends it. A removal may answer "ok" with the package still listed only if files could not
be deleted, and so may an add that was rolled back answer "error".

`InstallUI` — the window's thread (`ui`, `button`, `installing`), the request's thread
(`worker`) and the package (`pkg`). The callback waits until the window's thread
handles messages, which it does in its loop and in the popup's (`HandlesMessages`). The
window opens on a machine without the package, with part of it (a killed or failed
request left it) or with all of it; if its manifest is found, Launch is offered beside
Reinstall. `launched` records whether the app was started as found or as added.

`MCDeployment` — the instances of `Deployment`.

Definitions named `Mut...` are deliberate mistakes, one for each property; put in
the place of the definition that follows them, the property fails.

## 4. The runs

| Run | Expect | What it shows |
|---|---|---|
| `zip` | pass | Records never overlap, headers agree, the sequence lists the map, finished files stay, and what Close leaves opens and reads back with the sizes given — at, below and above the 32-bit limit, with a failure at any write. |
| `package` | pass | A package that was closed opens; its payload is exactly what was added and verifies (`RoundTrip`); closed File elements cover their files (`BlockMapComplete`); a call that has begun can always go on without an exception, that is, zip writer, deflater and XML writers are in the state its next statement needs (`NoStuckCall`; the steps that fail do not count); the writer implements the zip writer's specification (`ZipProtocol`: a refinement, the zip variables being the package writer's own). |
| `content_types` | pass | Every part resolves to the type it was added with, for extensions in several spellings, none, and shared with the manifest. |
| `inflate` | pass | Read front to back the stream returns the file's bytes (`ReadReturnsBytes`); for every caller the loop ends (`ReadReturns`) and never reaches "unexpected extra data" (`PositionInside`). |
| `payload` | pass | Any seeks, reads and retries of a stored file, and reads of a compressed one front to back, and again, return validated bytes of the right place (`ValidatedBytes`) and return; read from the front no intact block is refused (`IntactReads`). |
| `payload_reread` | violation | With seeks, a compressed file returns wrong bytes with S_OK (finding 1). |
| `bundle` | pass | After any mix of accepted, refused and failed additions a closed bundle is compatible (`BundleValid`) and its manifest complete and nested properly (`ManifestShape`). |
| `bundle_refused_app` | violation | A closed bundle without an app package (finding 2). |
| `deploy` | pass | Requests one after the other, each of which may fail or be cancelled once its files are extracted: packages are whole or gone, but for the keys a removal cannot find again (`AllOrNothing`), counts exact (`RefCountsExact`), files served in the right version (`VfsServed`), files of others untouched (`ForeignFilesStay`), reports true. |
| `deploy_faults` | pass | A failure, a cancel or a kill anywhere: `Deployment` still implements `PackageStore` (`StoreRefined`), reports are true (`ReportTrue`), a hive stays mounted after its request only when the process was killed or Windows refused (`HiveReleased`), two versions are listed only after a removal left one behind (`OnePerFamily`), every request returns (`RequestReturns`). |
| `deploy_rollback` | violation | A cancelled extraction is rolled back by deleting another program's file (finding 3). |
| `ui` | pass | All orders of clicks, messages and steps of the request's thread (section 1's properties of the window); `g_installing` outlives the installation in two cases only (`InstallingTrue`). |

### Bounds

* `zip`: two names, writes of 0, 40 and 41 bytes, at most 82 bytes per file and
  `MaxField32` = 81, so that sizes of 80, 81 and 82 and offsets on both sides of the
  limit occur. Record lengths are the real ones with one-byte names. Two files
  suffice for every relation the properties speak of: a file and one before it.
* `package`: block size 3 and payload sizes 0, 3 and 5: no block, one whole block, two
  blocks with a short last one; deflated blocks smaller and larger than their input;
  two payload names and the manifest's name in another spelling; arrays and
  directories of at most two files, calls without limit.
* `content_types`: one-byte files, two spellings of two extensions, no extension,
  reserved and invalid names, and the manifest's type usable for payload files.
* `inflate`: a file of 5 bytes, windows of 2, reads up to 3: three windows with a
  short last one, requests within, across and at the end of windows, every division
  of the compressed data into chunks. `MaxWindowPosition` bounds a position beyond
  the buffer, where every value behaves alike.
* `payload`: 5 bytes, blocks of 2 over windows of 2, reads of at most 2: two whole
  blocks and a short one, reads that cross blocks; seeks to every position; the last
  block intact or damaged.
* `payload_reread`: 6 bytes, blocks of 4 over windows of 2, reads of at most 3, nothing
  damaged: a block takes two windows, so that a seek can skip the rest of one.
* `bundle`: nine packages that agree and clash in every way the validations look for;
  `MaxNumberOfPackages` = 3, so that the limit is reached with refusals before it.
* `deploy`: two versions of one package and another one; one file all bring, in three
  versions, and one at a path where another program has its own; a `registry.dat`; a
  protocol all want, and at least one key for each registering handler; in `registry.dat`
  a key that may not be created, one with a token, and an extension that
  `FileTypeAssociation` writes too. Five requests (`MaxRequests`) allow add, reinstall,
  update, add of the other, removal in any order. One package has a script.
  Faults begin after the VFS files are copied: before that the rollback does what
  finding 3 shows, and the run would say nothing about the rest. Removals do not fail
  here: what a failed one leaves is neither whole nor gone.
* `deploy_faults`: the two versions, three keys, two requests, so that a request meets
  what a failed or killed one left, an update with its removal among them. Every handler
  may fail in both directions, `remove_all` may keep any part of the directory, every
  unload may be refused. Here only what survives every fault is claimed.
* `ui`: three looks at the cancel flag (before, between and after callbacks) and a
  package that may not open; one click on Install, which the window allows only once.
  A mounted or half extracted package is `partial`; `Deployment` tells them apart. All
  three states of the package occur at the start and after a rollback.

### Fairness and deadlock

The streams, the requests and the window have liveness properties. `Read` is a loop in the caller's thread
that nothing suspends for ever: weak fairness of its steps (handlers and their
failures together) says that the thread goes on. Which of them happens is not
constrained, nor is a caller obliged to call. `Deployment` assumes weak fairness of a
thread's steps (`Scheduled`), not of starting, cancelling or killing: these handlers call
the system and go on. One of them waits for something else: `PSFScriptExecuter.cpp:55`
waits for a script of the package, without a limit. That it ends is an assumption of its
own (`ScriptsEnd`), about packages and not about this code; without it `RequestReturns`
is false. `InstallUI` assumes fairness of the request's thread (and so, for
`RequestEnds`, that scripts end), of the
window's thread while it runs code, and of message handling where messages are handled;
the user is never obliged to click, nor to answer the popup. `PackageStore`'s fairness
(every request is answered) is implied by these, and checked. The writers have no fairness; what they
promise holds of the states they reach. `CHECK_DEADLOCK FALSE` everywhere: a closed or
failed writer, and a caller that stops, are proper ends; that a call in progress is
never stuck is `NoStuckCall`, and that a request is not is `RequestReturns`. In the
middle of a loop over payload files `NoStuckCall` claims nothing, because the next file
is the caller's and may be one that must be refused.

## 5. The proofs

All theorems hold for every value of the constants that satisfies the named
assumptions of the modules (`ZipAssumption`, `PackageAssumption`, `InflateAssumption`,
`BundleAssumption`, ...): that sizes are naturals, block and window sizes positive,
sequences sequences, and that "no value" is not a value. TLC evaluates them on every run.
Some theorems have a hypothesis beside the specification, which the passing run of the
same property meets:

* `NoSeeksInCompressed` (`PayloadProofs`): compressed files are read front to back.
  `payload_reread` refutes the property without it (finding 1).
* `OneThread` (`DeployReports`, `DeployImplementsStore`, `DeployOnePerFamily`): requests
  come one after the other. With two threads an add and a removal of one package
  interleave, and neither needs to find what it did.
* `LateFaults` (the other theorems of `DeploymentSafety`): `OneThread`, no kill, no failing
  handler of a removal (`remove_all` included), no refused unload; an add may fail in the first four handlers and in every
  handler after `VirtualFileHandler`, and be cancelled everywhere after the extraction.
  It says more than the constants of run `deploy`, which has no failures in the first
  handlers. Between the two places an add may not fail, for a reason: the rollback then
  counts down files the add never copied (finding 3, run `deploy_rollback`), and a
  directory whose extraction stopped before its manifest was written cannot be removed.
* `KeysApart` (`DeployAllOrNothing`): the removal of tasks and of firewall rules goes
  through a list until one is missing. A task or rule is written by no other family, no
  other handler and no `registry.dat`; otherwise the removal of another package makes it
  stop early and leave the rest. All other keys may be shared, between families, between
  handlers and with `registry.dat`, as in the run.

### Zip writer (`ZipWriterProofs`)

`ZipTypes`, `ZipDisjoint`, `ZipHeaders`, `ZipSequence`: `ZipSpec` implies always
`ZipTypeOK`, `RecordsDisjoint`, `HeadersAgree`, `SequenceListsMap`. `ZipFilesStay`:
`ZipSpec` implies `FinishedFilesStay`. `WideRoundTrip`: every natural survives the 32-bit
field and its companion.

The invariant is `ZipInv` (theorem `ZipInvariant`): the four properties together with
`CurrentFile`, which says that while a file is being added its local header is where
`m_lastLFH` says, with the length `EndFile` will rewrite, and that the file's data is
the last record of the stream. Without it `RecordsDisjoint` is not inductive: `EndFile`
writes in the middle of the stream, and only because the record there has the same
length does nothing else change; and `HeadersAgree` would not survive `EndFile`, which
creates the directory header from `m_lastLFH`. `DirectoryFinite` is carried beside it,
so that the count Close writes is a number. The lemmas `AppendRecord`,
`ReplaceRecord` and `GrowLast` say what each kind of write does to a stream of
disjoint records; one lemma per action uses them.

### Package writer (`PackageWriterProofs`)

* `PackageZipProtocol`: `Spec` implies `ZipProtocol`, the specification of the zip
  writer. With it `ZipInv`, and every theorem about archives, holds of packages; the
  other proofs here use that. What it needs is `CtlInv`: an exception that left the zip
  writer has failed the package writer, a failed writer runs no call, and the file being
  added is the one the zip writer has prepared.
* `PackageTypes`: always `TypeOK`.
* `PackageBlockMap`: always `BlockMapComplete`. `MapInv` says of every File element that
  it is complete or is the last one and belongs to the file being added, and of that one
  how many blocks it has for what is left, and that the hash engine has seen just these.
* `PackageContentTypes`: always `ContentTypesResolve`. `TypesInv` adds that the table of
  extensions and the Default elements say the same, and that an
  Override belongs to a file of the archive or to the one being added: the zip writer
  takes no name twice, so that no Override can capture a later part.

Steps are put into a few classes first (lemma `Steps`: a file starts, a step of the
file being added, a failure, the rest), so that each invariant is shown for classes.

### Streams (`InflateStreamProofs`, `PayloadProofs`)

* `InflateTypes`, `InflatePosition`, `InflateReads`: always `InflateTypeOK`,
  `PositionInside` (for every caller) and `ReadReturnsBytes` (for callers that read
  front to back). `InflateInv` relates the two file positions, the window and zlib's
  output in each state of the machine; for front readers `FrontInv` adds that the call has
  got the file's bytes from where it began to the seek position.
* `PayloadPositions`, `PayloadValidated`, `PayloadIntact`: always `PayloadTypeOK`,
  `ValidatedBytes`, `IntactReads`. `PayloadInv` keeps the inflate stream's invariant and
  says that a validated block is intact and has its own bytes in its cache, that what a
  call has got so far are intact bytes from where it began, and where, while the call
  reads from it, the shared stream below stands. For front readers only the block being
  read has a cache, no block is entered for the first time but at its start, and the
  inflate stream is at the next byte that will be needed of it (`FrontierInv`).

### Bundle writer (`BundleWriterProofs`)

* `BundleTypes`, `BundleCompatible`, `BundleManifest`: always `BundleTypeOK`,
  `BundleValid` and `ManifestShape`, for every set of packages and every limit.

`BundleValid` speaks of the bundle that was closed; inductive is `HelperInv`, about the
tables: what has been accepted is compatible, and every resource ID, device family and old
target of it is in the table the next package is compared with, whatever else
refused packages left there. The relation `Grows` is what a validation may do whether
it refuses or not (tables only grow, lists stay), and `GrowsInv` that this keeps
`HelperInv`; there is one lemma per validation, and `AddPackageInv` and `AddExternalInv`
chain them as the code does. `SeenTdfs` stops at the first clash: that there is a
first one is `LeastIndex`, from the library's theorem that naturals are well founded.
`ManifestInv` then follows Close: what is written so far is a beginning of what was
accepted, and which elements are open depends on the manifest writer's state.

### Deployment (`DeploymentProofs`, `DeploymentSafety`)

* `DeployTypes`: always `DeployTypeOK`; `DeployHives`: always `HiveReleased`: for any
  number of threads and every fault, a refused unload included. `DeployInv` is made of the
  machine's types, the shapes a request can have in each handler (`ReqInv`) and which
  request a mounted `registry.dat` belongs to (`HiveInv`).
* `DeployReports`: `OneThread` implies always `ReportTrue`. `ReportInv` says what the
  directory can hold (`DirInv`), which files and keys an add that has got to a handler
  has put in place (`Progress`), and what a request that returned says (`Told`).
* `DeployImplementsStore`: `OneThread` and `Spec` imply `Store!StoreSafe`. The refinement
  mapping is that of the run (section 3). Each handler's step is shown to be Accept,
  Change, Refuse, Finish or Kill of the store, or to leave what FindPackages lists and
  the request's answer as they were; the proof uses `DeployInv` and `ReportInv`, because a
  request may finish only with an answer that is true of the store, or after files could
  not be deleted.

* `DeployOnePerFamily`: `OneThread` implies always `OnePerFamily`, under every fault and
  kill. `FamilyInv` is about directories that are not empty, listed or not: two of one family
  exist only if a removal in that family has left one behind (`Apart`); a removal that is
  over has deleted its directory or has left it behind (`Cleared`); and beside an add that
  extracts, or an update whose removal still runs, every other directory of the family was
  left behind by a removal (`Beside`). The last two are needed because an update never
  looks at the result of the removal it ran.
* `DeployRefCounts`, `DeployVfsServed`, `DeployForeignFiles`:
  `LateFaults` implies always `RefCountsExact`, `VfsServed`, and
  `ForeignFilesStay`. Inductive is `LateInv`: `DeployInv` and `ReportInv`, and for the
  thread
  * `PlacesInv`: a directory is whole or gone but for the one being extracted, no two of a
    family exist, an add that extracts has its family for itself (`Alone`), a removal works
    on a whole directory until its last step, and who has which `registry.dat` mounted;
  * `FilesInv`: `Referrers(t, f)` are the packages that need file f at this point, that is
    the whole ones, but of the package being added only the files its loop has done, and of
    the one being removed those it has not. `CountOK` is `RefCountsExact` and `VfsServed`
    for that set, in every state and not only between requests; `Loop` that the count a
    handler has read is still the count when it writes it back.
  A step of the loop changes the set by one package for one file, which the library's
  theorems on cardinality turn into the count. Everything else that changes the set does so
  for no file: the lemmas `QuietFiles` and `IdleFiles` say when.
* `DeployAllOrNothing`: `LateFaults` and `KeysApart` imply always `AllOrNothing`. `SafeInv`
  adds `KeysInv` to `LateInv`:
  * `Settled`: a key with a package's values, unless it is one no removal finds
    (`Leftover`), is one of its keys, its directory exists, and its removal comes to the
    key before a missing task or rule stops it (`RunsTo`). This has to
    hold in the middle of an add, since the rollback may start anywhere; it
    does because a handler writes in the order in which the removal looks, and a torn key
    is the last one;
  * `KeptKeys`: a whole package that no request works on has its keys, but for those
    another family writes too;
  * `LeftKeys`: what a removal at a handler has still to find belongs to that handler or
    a later one, so that none is left when the directory goes; `MountedForRemoval`: it has
    `registry.dat` mounted when it needs it.
  `OthersKeep` says that a request that changes only its own package's keys disturbs no
  other package, and `AddWrites`, `AddTears`, `UnregisteredFacts` and `DeletedSettled` what
  each kind of change does to its own.

`LateInv` and `SafeInv` were model-checked on the instance of run `deploy` before they were
proved, and `FamilyInv` on that of `deploy_faults`.

### Installer window (`InstallUIProofs`)

* `UITypes`, `UIRequestAlive`, `UICloseSafe`, `UILaunch`, `UIInstallingFlag`: always
  `UITypeOK`, `NoUseAfterFree`, `CloseSparesAdd`, `LaunchOnlyWhole`, `InstallingTrue`. `UIInv`
  relates the two threads: until the window's thread has read the response the request
  cannot be past its first callback, because the callback waits for that thread.
  `LaunchOnlyWhole` distinguishes what was added, which is whole, from what the window
  found at its start, which may be half a package (section 6).

### Only model-checked

* Liveness, and the fairness of `StoreRefined`: `ReadReturns`, `PayloadReadReturns`,
  `RequestReturns`, `RequestEnds` and the answer `PackageStore` promises. Fairness is out
  of the prover's reach.
* `NoStuckCall`: it is about ENABLED.
* `ArchiveReadable` and `RoundTrip`: the readers follow headers and sum over blocks with
  recursive definitions; what these compute for every archive needs induction over data.

`OnePerFamily` is claimed for one thread under every fault. The other properties proved in
`DeploymentSafety` are not claimed outside `LateFaults`: a killed
request leaves half of what it was doing, and finding 3 and the lost reference of section
6 refute the counts. What does hold under every fault is what `deploy_faults` checks.

## 6. Findings

1. `InflateStream.cpp:95`: the bytes a forward seek skips are skipped again by each
   later handler call, because `m_fileCurrentPosition` does not follow. The library's
   own callers do not meet it; a caller that reads a block to its end, seeks back into
   it and reads gets other bytes with S_OK, and they are not validated again. So does a
   reading that starts again in the middle of a compressed file.
2. `BundleValidationHelper.cpp:122`: a refused app package still counts as the app
   package a bundle must have.
3. `VirtualFileHandler.cpp:257`: the rollback of an add that failed or was cancelled
   before `VirtualFileHandler` ran counts down, or deletes, the VFS files the add never
   copied: files of other packages and of other programs.

Also met while modelling, and visible in the models, without a run of their own:

* `HashStream.hpp:55`: `Validate()` reads the block from wherever the stream below is; a
  first read in the middle of a block is refused as an invalid signature. `IntactReads`
  is therefore stated for callers that read from the front.
* `BundleValidationHelper.cpp:110`: the map of file names is only inserted into when it
  is not empty, so that duplicates are never found.
* `BundleWriterHelper.cpp:225`: a refused optional package leaves its OptionalBundle
  behind, without packages.
* `VirtualFileHandler.cpp:157`: with two threads (`Threads` of two elements)
  `RefCountsExact` fails: two adds read one count and one reference is lost.
* `InstallComplete.cpp:19`: a cancel after the last look at the flag installs the package
  and reports nothing: the window goes on offering to cancel (`InstallingTrue`).
* `InstallUI.cpp:776`: `g_installing` is cleared when the error is shown, before the
  rollback; closing the window then kills the rollback.
* `InstallUI.cpp:225`: without a response (the package did not open) a confirmed cancel
  dereferences a null pointer (`ui` = "crashed").
* `AppExecutionAlias.cpp:106`: the removal of an alias that is not there leaves an empty
  key, and a torn `Protocol` key stays. `AllOrNothing` claims only that nothing names the
  package's executables.
* `RegistryDevirtualizer.cpp:353` and `:398`: a key or value of `registry.dat` with a token
  in its name is written without the token and looked for with it, so that every removal
  leaves it; the comment at `:388` says "for each value of this key, devirtualize it and
  delete it from the real key". (`Leftover`)
* `FileTypeAssociation.cpp:175` and `:262`: the add asks which extensions `registry.dat` has
  after it was unmounted and so writes them and the ProgID, the removal asks while it is
  mounted and passes over them; the extension's key then has values in it that
  `registry.dat` does not list and is not empty either. (`Leftover`)
* `Extractor.cpp:170`: a removal whose `remove_all` fails returns S_OK with what is left of
  the package still listed; an update around it goes on, and both versions are listed
  (`OnePerFamily` and `ReportTrue` name the case).
* `InstallUI.cpp:451`: what a killed request left of a package is offered for launch,
  beside Reinstall, if its manifest is there (`launched` = "found").

## 7. Not modelled

* MsixCore: the redirection to the system's own deployment (Windows 10 RS3 and later),
  the values in registry keys, what a token or a path is replaced by, what a PSF script
  does, drawing, the command line. A manifest that is on disk can be read.
* Unpack, bundle reading and applicability: planned.
* Signatures, certificates, digests: platform cryptography; a digest is modelled by
  what it is compared for.
* Manifest readers, XML parsing, schema validation, mapping files: data extraction
  without state that outlives a call.
* File name encoding: a bijection on names; which names are invalid is a parameter.
* PAL, API entry points, samples, tools, vendored libraries. zlib (`src/lib/zlib`) is
  modelled by what its callers observe of it.
* Archives the zip writer cannot produce, and the CRC, which no reader checks.
