--------------------------- MODULE PackageFormat ---------------------------
(***************************************************************************)
(* What the package writer and the package reader share: the names of the  *)
(* parts every package has, extensions, and the size of a block.           *)
(***************************************************************************)
EXTENDS ZipFormat

CONSTANTS
    ManifestName, BlockMapName, ContentTypesName, \* the parts Close adds
    Ext,       \* Ext[n]: the extension of n as spelled, Null for none
    Lower,     \* Lower[e]: extension e in lower case
    BlockSize  \* DefaultBlockSize, BLOCKMAP_BLOCK_SIZE

ASSUME PackageFormatAssumption ==
    /\ {ManifestName, BlockMapName, ContentTypesName} \subseteq Name
    /\ ManifestName # BlockMapName
    /\ ManifestName # ContentTypesName
    /\ BlockMapName # ContentTypesName
    /\ \A n \in Name : Ext[n] # Null => Ext[n] \in DOMAIN Lower
    /\ BlockSize \in Nat \ {0}

\* The bytes Z_FINISH produces once every block was flushed with Z_FULL_FLUSH.
TerminatorSize == 2
=============================================================================
