SPECIFICATION Spec
CONSTANTS
    aTxt = aTxt
    bTXT = bTXT
    noExt = noExt
    xXml = xXml
    manifestUpper = manifestUpper
    badName = badName
    reserved = reserved
    ManifestName = manifest
    BlockMapName = blockmap
    ContentTypesName = types
    Name = {aTxt, noExt, manifestUpper, manifest, blockmap, types}
    NameSize <- MCNameSize
    Size = {0, 1, 2, 3, 4, 5}
    MaxField32 = 150
    Null = Null
    InvalidName = {}
    FootprintName <- MCFootprint
    ReservedName = {}
    Ext <- MCExt
    Lower <- MCLower
    Type = {t1}
    ManifestType = tManifest
    BlockMapType = tBlockMap
    Option = {"NONE", "NORMAL"}
    NoCompression = "NONE"
    DirectoryEntry <- MCDirectoryEntry
    PayloadSize = {0, 3, 5}
    PartSize = {4}
    DeflatedSize = {1, 4}
    BlockSize = 3
    FileHashEnabled = TRUE
    MaxBatch = 2
INVARIANTS
    TypeOK
    RoundTrip
    BlockMapComplete
    NoStuckCall
PROPERTIES
    ZipProtocol
CHECK_DEADLOCK FALSE
