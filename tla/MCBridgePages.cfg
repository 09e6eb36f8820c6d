SPECIFICATION Spec
CONSTANTS
    j1 = j1  j2 = j2  r1 = r1  r2 = r2
    Jobs = {j1}
    Requests = {r1, r2}
    NoJob = NoJob
    Backends = {"usb", "wsd"}
    SlotLimit = 1
    PageLimit = 2
    Sources = {"Flatbed", "ADF"}
    Details = {"", "out of documents"}
    Replies <- OneReply
    NoReply = NoReply
SYMMETRY RequestSymmetry
INVARIANTS
    DeletedIsCollected
    SpoolFollowsJob
    DeliveredInOrder
    NoLostWakeup
    FailureStaysAborted
    CanceledShowsCanceled
PROPERTY
    ImplementsService
CHECK_DEADLOCK FALSE
