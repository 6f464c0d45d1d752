SPECIFICATION Spec
CONSTANTS
    aTxt = aTxt
    bTXT = bTXT
    noExt = noExt
    xXml = xXml
    manifestUpper = manifestUpper
    badName = badName
    reserved = reserved
    ManifestName = manifest
    BlockMapName = blockmap
    ContentTypesName = types
    Name = {aTxt, bTXT, noExt, xXml, badName, reserved, manifest, blockmap, types}
    NameSize <- MCNameSize
    Size = {0, 1, 2, 3, 4, 5}
    MaxField32 = 100
    Null = Null
    InvalidName = {badName}
    FootprintName <- MCFootprint
    ReservedName = {reserved}
    Ext <- MCExt
    Lower <- MCLower
    Type = {t1, tManifest}
    ManifestType = tManifest
    BlockMapType = tBlockMap
    Option = {"NONE"}
    NoCompression = "NONE"
    DirectoryEntry <- MCDirectoryEntry
    PayloadSize = {1}
    PartSize = {1}
    DeflatedSize = {1}
    BlockSize = 3
    FileHashEnabled = FALSE
    MaxBatch = 2
INVARIANTS
    ContentTypesResolve
CHECK_DEADLOCK FALSE
