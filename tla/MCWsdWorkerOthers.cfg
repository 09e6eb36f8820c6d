SPECIFICATION Spec
CONSTANTS
    Runs = 1
    PageLimit = 1
    Counts = {0}
    Sheets = 1
    IdLimit = 2
PROPERTY OthersBlockScan
CHECK_DEADLOCK FALSE
