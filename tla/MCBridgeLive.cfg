SPECIFICATION FairSpec
CONSTANTS
    j1 = j1  j2 = j2  r1 = r1  r2 = r2
    Jobs = {j1}
    Requests = {r1}
    NoJob = NoJob
    Backends = {"usb"}
    SlotLimit = 1
    PageLimit = 1
    Sources = {"Flatbed"}
    Details = {""}
    Replies <- NoReplies
    NoReply = NoReply
PROPERTIES
    EveryJobEnds
    AbandonedExpires
    ShutdownDrains
CHECK_DEADLOCK FALSE
