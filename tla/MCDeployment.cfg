SPECIFICATION Spec
CONSTANTS
    a1 = a1
    a2 = a2
    b = b
    f1 = f1
    f2 = f2
    NoPkg = NoPkg
    NoFile = NoFile
    NoOwner = NoOwner
    Packages = {a1, a2, b}
    Threads = {t1}
    Files = {f1, f2}
    Foreign = {f2}
    Vfs <- MCVfs
    FileVersion <- MCFileVersion
    Family <- MCFamily
    Version <- MCVersion
    Keys <- MCKeys
    RegKeys <- MCRegKeys
    ProgId <- MCProgId
    HiveKeys <- MCHiveKeys
    MayNotCreate = {"software"}
    Tokenised = {"path"}
    FailAt <- LateHandlers
    RemoveFailAt <- Nowhere
    CancelAt <- LateCancels
    UnloadMayFail = FALSE
    MayCrash = FALSE
    Scripted = {a2}
    MaxRequests = 5
INVARIANTS
    AllOrNothing
    RefCountsExact
    VfsServed
    ReportTrue
PROPERTIES
    ForeignFilesStay
CHECK_DEADLOCK FALSE
