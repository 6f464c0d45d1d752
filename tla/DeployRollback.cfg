SPECIFICATION Spec
CONSTANTS
    a1 = a1
    a2 = a2
    b = b
    f1 = f1
    f2 = f2
    NoPkg = NoPkg
    NoFile = NoFile
    NoOwner = NoOwner
    Packages = {a2}
    Threads = {t1}
    Files = {f1, f2}
    Foreign = {f2}
    Vfs <- MCVfs
    FileVersion <- MCFileVersion
    Family <- MCFamily
    Version <- MCVersion
    Keys <- FewKeys
    RegKeys <- FewRegKeys
    ProgId <- MCProgId
    HiveKeys <- FewHiveKeys
    MayNotCreate = {"software"}
    Tokenised = {}
    FailAt <- Nowhere
    RemoveFailAt <- Nowhere
    CancelAt = {"Extractor"}
    UnloadMayFail = FALSE
    MayCrash = FALSE
    Scripted = {a2}
    MaxRequests = 1
PROPERTY ForeignFilesStay
CHECK_DEADLOCK FALSE
