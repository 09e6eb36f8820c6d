SPECIFICATION FairSpec
CONSTANTS
    Polls = 2
    SensorLag = 1
    Sheets = 3
    ImageLimit = 3
    JobLimit = 2
INVARIANTS
    JobsAccounted
    FailedCallDropsJob
    GaplessBatch
    SheetForNextPage
PROPERTY CallsReturn
CHECK_DEADLOCK FALSE
