--------------------------- MODULE PackageReader ---------------------------
(***************************************************************************)
(* AppxPackageObject: opening a package that is not a bundle, with the     *)
(* signature skipped (the writer signs nothing).  Pure operators over the  *)
(* archive and the block map `bm' its AppxBlockMap.xml part holds; a value *)
(* with ok = FALSE stands for the exception the code throws.               *)
(***************************************************************************)
EXTENDS ZipReader, PackageFormat

\* The footprint parts the constructor's table names and a writer may add.
FootprintPart == {BlockMapName, ManifestName, ContentTypesName}

\* GetBlock: a Block element without a Size attribute counts as a whole block.
BlockSizeOf(block) == IF block = Null THEN BlockSize ELSE block

SumOfBlocks(blocks) == MapThenSumSet(LAMBDA i : BlockSizeOf(blocks[i]), DOMAIN blocks)

\* The AppxBlockMapObject constructor.
BlockMapAccepted(bm) ==
    /\ Len(bm) > 0
    /\ \A i \in DOMAIN bm :
          /\ bm[i].name # ContentTypesName
          /\ bm[i].size # 0 => Len(bm[i].blocks) > 0
          /\ \A k \in DOMAIN bm : bm[i].name = bm[k].name => i = k

MapNames(bm) == {bm[i].name : i \in DOMAIN bm}
MapFile(bm, n) == bm[CHOOSE i \in DOMAIN bm : bm[i].name = n]

\* VerifyFile: the block map against the size the zip entry gives.
VerifyFile(file, mapFile) ==
    /\ ~file.deflate => \A i \in DOMAIN mapFile.blocks : BlockSizeOf(mapFile.blocks[i]) = BlockSize
    /\ IF file.deflate
       THEN SumOfBlocks(mapFile.blocks) \in {file.size, file.size - TerminatorSize}
       ELSE mapFile.size = file.size

\* The AppxPackageObject constructor: the required parts are there, the files of
\* the block map become the payload and no other file of the archive is left.
OpenPackage(arc, eof, bm) ==
    LET archive == OpenArchive(arc, eof)
    IN  IF /\ archive.ok
           /\ FootprintPart \subseteq archive.names
           /\ \A n \in FootprintPart : GetFile(arc, archive.entries, n).ok
           /\ BlockMapAccepted(bm)
           /\ ManifestName \in MapNames(bm)
           /\ archive.names \subseteq FootprintPart \cup MapNames(bm)
        THEN [ok |-> TRUE, entries |-> archive.entries,
              payload |-> MapNames(bm) \ FootprintPart]
        ELSE [ok |-> FALSE]

\* The stream of a payload file: found in the archive, verified, and covered by
\* the blocks the BlockMapStream is built from.
PayloadOpens(arc, package, bm, n) ==
    /\ n \in DOMAIN package.entries
    /\ LET file == GetFile(arc, package.entries, n)
           mapFile == MapFile(bm, n)
       IN  /\ file.ok
           /\ VerifyFile(file, mapFile)
           /\ Len(mapFile.blocks) * BlockSize >= file.usize
=============================================================================
