SPECIFICATION UISpec
CONSTANTS
    Polls = 3
    MayNotOpen = TRUE
INVARIANTS
    InstallingTrue
    UITypeOK
    NoUseAfterFree
    CloseSparesAdd
    LaunchOnlyWhole
PROPERTY
    RequestEnds
CHECK_DEADLOCK FALSE
