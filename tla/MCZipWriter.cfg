SPECIFICATION MCZipSpec
CONSTANTS
    Name = {a, b}
    NameSize <- MCNameSize
    Size = {0, 40, 41}
    MaxField32 = 81
    MaxFileSize = 82
    Null = Null
INVARIANTS
    ZipTypeOK
    RecordsDisjoint
    HeadersAgree
    SequenceListsMap
    ArchiveReadable
CHECK_DEADLOCK FALSE
PROPERTY FinishedFilesStay
