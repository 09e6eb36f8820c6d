SPECIFICATION Spec
CONSTANTS
    j1 = j1  j2 = j2  r1 = r1  r2 = r2
    Jobs = {j1, j2}
    Requests = {}
    NoJob = NoJob
    Backends = {"usb", "wsd"}
    SlotLimit = 2
    PageLimit = 1
    Sources = {"Flatbed"}
    Details = {""}
    Replies <- OneReply
    NoReply = NoReply
SYMMETRY JobSymmetry
INVARIANTS
    DeviceExclusive
    CleanExit
PROPERTY StartStillWanted
CHECK_DEADLOCK FALSE
