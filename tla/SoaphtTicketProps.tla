------------------------- MODULE SoaphtTicketProps -------------------------
(***************************************************************************)
(* What the options, the ticket and the estimate owe each other.           *)
(***************************************************************************)
EXTENDS SoaphtTicket

\* What a document that was accepted says of a source the device has.
GoodSource(s) ==
    /\ s.dpis # {}
    /\ s.min \in (Nat \ {0}) \X (Nat \ {0})
    /\ s.max \in (Nat \ {0}) \X (Nat \ {0})

\* Why the next properties hold: the options come from the source that is selected.
Offered ==
    /\ \A i \in Inputs : SourceOf(caps, i).present => GoodSource(SourceOf(caps, i))
    /\ Opened => /\ Selected.present
                 /\ mode \in CommonModes(caps)
                 /\ dpi \in Selected.dpis
                 /\ InRange(region, Selected)

\* Whatever the frontend has chosen from what was offered, for any document that was
\* accepted and after any sequence of choices, bb_start_scan neither refuses nor
\* silently replaces: the source has the mode and the resolution, and the area begins
\* inside it.
OffersAreAccepted ==
    Opened => ~Refused /\ SourceDpi(Selected, dpi) = dpi

\* A ticket for a new job is made.
Ticketed == job' # job /\ job' # NoTicket

\* bb_get_parameters, asked before a job exists, announces the image the ticket then
\* asks for: the two functions clip the area separately.
AnnouncedIsRequested ==
    [][Ticketed /\ geometry = NoGeometry =>
         /\ Parameters.pixels = (job'.w * job'.dpi) \div 1000
         /\ Parameters.lines = (job'.h * job'.dpi) \div 1000
         /\ Parameters.bytes = Parameters.pixels * Channels(job'.mode)]_ticketVars

\* A thousandth of an inch, and the two units lost in rounding.
Thou == 1666

Near(t, v) == ThouToFixed(t) - v \in -Thou..Thou

\* One axis of a ticket covers its extent e, or the default when none is set.
Covers(offset, size, e, max, default) ==
    /\ size > 0 /\ offset + size <= max
    /\ IF e = <<0, 0>> THEN offset = 0 /\ size = default
       ELSE Near(offset, e[1]) /\ Near(offset + size, e[2])

\* Every ticket lies inside its source and covers the area asked for to within a
\* thousandth of an inch at each edge, through both conversions, rounding and clipping.
RegionKept ==
    [][Ticketed =>
         LET s == Selected IN
         /\ Covers(job'.x, job'.w, ExtentX(region, s), s.max[1], s.max[1])
         /\ Covers(job'.y, job'.h, ExtentY(region, s), s.max[2],
                   OrdinaryOr(s.max[2], input))]_ticketVars
=============================================================================
