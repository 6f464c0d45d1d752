SPECIFICATION Spec
CONSTANTS
    a1 = a1
    a2 = a2
    b = b
    f1 = f1
    f2 = f2
    NoPkg = NoPkg
    NoFile = NoFile
    NoOwner = NoOwner
    Packages = {a1, a2}
    Threads = {t1}
    Files = {f1}
    Foreign = {}
    Vfs <- FewVfs
    FileVersion <- MCFileVersion
    Family <- MCFamily
    Version <- MCVersion
    Keys <- FewKeys
    RegKeys <- FewRegKeys
    ProgId <- MCProgId
    HiveKeys <- FewHiveKeys
    MayNotCreate = {"software"}
    Tokenised = {}
    FailAt <- AllHandlers
    RemoveFailAt <- RemoveFaults
    CancelAt <- AllCancels
    UnloadMayFail = TRUE
    MayCrash = TRUE
    Scripted = {a2}
    MaxRequests = 2
INVARIANTS
    DeployTypeOK
    ReportTrue
    HiveReleased
    OnePerFamily
PROPERTIES
    RequestReturns
    StoreRefined
CHECK_DEADLOCK FALSE
