SPECIFICATION FairSpec
CONSTANTS
    Runs = 2
    PageLimit = 2
    Counts = {0, 2}
    Sheets = 2
    IdLimit = 3
INVARIANTS
    ActsOnOwnJob
    NothingLeftBehind
    OwnJobsDoNotOverlap
    ListedInOrder
    CompletedIsWhole
PROPERTIES
    ImplementsClientJob
    AcquisitionEnds
CHECK_DEADLOCK FALSE
