SPECIFICATION PageSpec
CONSTANTS
    Documents <- AllDocuments
    Regions <- Areas
    Shortfalls = {0, 1}
    Configurations <- AllConfigurations
    Requests <- AllRequests
    Replies <- AllReplies
    ReadSize = 3
    MaxResponse = 16
    BufferSize = 3
    MaxLengths = {0, 1, 2}
INVARIANTS
    OffersAreAccepted
    AcceptedIsScannable
    WsdTicketFits
    ReplyReadToItsEnd
    BufferedInOrder
    PageIsTheImage
PROPERTIES
    AnnouncedIsRequested
    RegionKept
    TicketAsRequested
    ImplementsStream
CHECK_DEADLOCK FALSE
