SPECIFICATION FairSpec
CONSTANTS
    Transactions = 2
    Pieces = 2
    Timeout = 2
    CancelTimeout = 1
    DrainTimeout = 2
INVARIANTS
    Boundary
    OwnAnswer
    WithinBudget
    CancelledCreateUnsent
PROPERTY TransactionEnds
