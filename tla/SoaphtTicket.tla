---------------------------- MODULE SoaphtTicket ----------------------------
(***************************************************************************)
(* From what the scanner says it can do to what the plugin asks it for:    *)
(* the capability document (soapht-macos/soapht_capabilities.h), the       *)
(* options offered, the scan ticket of bb_start_scan and the estimate of   *)
(* bb_get_parameters (bb_soapht_macos.c), with the side effects the option *)
(* handlers of the patched soapht.c have on each other.                    *)
(*                                                                         *)
(* Lengths are thousandths of an inch in a ticket and SANE_Fixed           *)
(* millimetres (1/65536 mm) in an option.  A call of the frontend is one   *)
(* step: its steps, failures and cancellation are module SoaphtSession.    *)
(***************************************************************************)
EXTENDS Integers, Sequences

CONSTANTS
    Documents,  \* answers to GetScannerElements
    Regions,    \* scan areas a frontend may ask for
    Shortfalls  \* pixels by which a scanned line may miss its nominal length

Modes == {"Gray", "Color"}
Inputs == {"Platen", "ADF"}
Pipeline == {150, 300, 600}  \* the dots per inch the image pipeline handles
Limit == 20000               \* 20 inches

\* A boolean element: missing altogether, or with a text that is no boolean.
Supported == {"absent", "true", "false", "bad"}

\* A length as node_positive reads it; 0 stands for a missing or invalid one.
Sizes == Nat \X Nat

\* A ColorSupported list, NoList when there is none.
NoList == {"none"}
ColorLists == SUBSET Modes \cup {NoList}

Element == [supported : Supported, min : Sizes, max : Sizes, optical : Sizes,
            colors : ColorLists]

\* readable: well formed, without a DTD, with a ScannerConfiguration.
Document == [readable : BOOLEAN, jfif : BOOLEAN, colors : ColorLists,
             platen : Element, adf : Element]

\* SANE_Fixed, not yet clipped to a range: its four corners are set one by one.
Region == [left : Nat, top : Nat, right : Nat, bottom : Nat]

ASSUME TicketAssumption ==
    /\ Documents \subseteq Document
    /\ Regions \subseteq Region
    /\ Shortfalls \subseteq Nat

VARIABLES
    caps,      \* bb_state.caps
    mode, input, dpi, region,   \* currentScanMode, ...Source, ...Resolution, Tlx to Bry
    scanning,  \* between a sane_start that succeeded and the end of its page
    job,       \* the ticket of the job that is kept
    pending,   \* its cancellation failed
    geometry   \* <<pixels_per_line, lines>> the scanner announced for it

options == <<mode, input, dpi, region>>
held == <<job, pending, geometry>>
ticketVars == <<caps, options, scanning, held>>

-----------------------------------------------------------------------------
(* The capability document *)

Source == [present : BOOLEAN, min : Sizes, max : Sizes, dpis : SUBSET Pipeline,
           modes : SUBSET Modes]

NoSource == [present |-> FALSE, min |-> <<0, 0>>, max |-> <<0, 0>>, dpis |-> {}, modes |-> {}]
NoCaps == [platen |-> NoSource, adf |-> NoSource]

\* read_size fails
Unsized(size) == \E i \in {1, 2} : size[i] \notin 1..Limit

\* The colours of the element, else those it inherits.
Colors(e, inherited) == (IF e.colors = NoList THEN inherited ELSE e.colors) \cap Modes

Resolutions(e) == {c \in Pipeline : c <= e.optical[1] /\ c <= e.optical[2]}

\* The status read_source returns for the element of one source.
SourceStatus(e, inherited) ==
    IF e.supported \in {"absent", "false"} THEN "GOOD"
    ELSE IF \/ e.supported = "bad"
            \/ Unsized(e.min) \/ Unsized(e.max) \/ Unsized(e.optical)
            \/ e.min[1] > e.max[1] \/ e.min[2] >= e.max[2]
    THEN "IO_ERROR"
    ELSE IF Resolutions(e) = {} \/ Colors(e, inherited) = {} THEN "UNSUPPORTED"
    ELSE "GOOD"

\* What it records of an element it accepts.
ReadSource(e, inherited) ==
    IF e.supported # "true" THEN NoSource
    ELSE [present |-> TRUE, min |-> e.min, max |-> e.max, dpis |-> Resolutions(e),
          modes |-> Colors(e, inherited)]

\* Both sources inherit the list of the platen, used or not, or that of the device.
Inherited(doc) == IF doc.platen.colors = NoList THEN doc.colors ELSE doc.platen.colors

Capabilities(doc) == [platen |-> ReadSource(doc.platen, Inherited(doc)),
                      adf |-> ReadSource(doc.adf, Inherited(doc))]

\* Mutant: the modes of the first source are offered for both.
ModesOfFirst(c) == IF c.platen.present THEN c.platen.modes ELSE c.adf.modes

\* HPLIP has one list of modes: those that every source of the device has.
CommonModes(c) ==
    IF c.platen.present /\ c.adf.present THEN c.platen.modes \cap c.adf.modes
    ELSE IF c.platen.present THEN c.platen.modes ELSE c.adf.modes

\* parse_capabilities
ParseStatus(doc) ==
    LET platen == SourceStatus(doc.platen, Inherited(doc))
        adf    == SourceStatus(doc.adf, Inherited(doc))
        c      == Capabilities(doc) IN
    IF ~doc.readable THEN "IO_ERROR"
    ELSE IF ~doc.jfif THEN "UNSUPPORTED"
    ELSE IF platen # "GOOD" THEN platen
    ELSE IF adf # "GOOD" THEN adf
    ELSE IF CommonModes(c) = {} THEN "UNSUPPORTED"   \* also when no source is present
    ELSE "GOOD"

-----------------------------------------------------------------------------
(* Units *)

\* thou_to_mm_fixed: t / 1000 * 25.4 * 65536 = 1664.6144 t, truncated
ThouToFixed(t) == 1664 * t + (384 * t) \div 625

\* mm_fixed_to_thou: 625 v / 1040384 rounded to the nearest; 1040384 = 8192 * 127
FixedToThou(v) ==
    IF v < 0 THEN 0
    ELSE (625 * (v \div 8192) + (625 * (v % 8192) + 520192) \div 8192) \div 127

Least(a, b) == IF a <= b THEN a ELSE b

-----------------------------------------------------------------------------
(* Options *)

SourceOf(c, i) == IF i = "Platen" THEN c.platen ELSE c.adf

\* selected_caps
Selected == SourceOf(caps, input)

Opened == caps # NoCaps

RangeX(s) == ThouToFixed(s.max[1])
RangeY(s) == ThouToFixed(s.max[2])

\* 11.689 inches, the length of A4: the feeder's maximum is longer.
OrdinaryHeight == 11689

\* set_adf_default_height
DefaultBottom(s, i, top) ==
    IF i = "ADF" /\ top = 0 THEN Least(RangeY(s), ThouToFixed(OrdinaryHeight))
    ELSE RangeY(s)

DefaultRegion(s, i) ==
    [left |-> 0, top |-> 0, right |-> RangeX(s), bottom |-> DefaultBottom(s, i, 0)]

InRange(r, s) == r.left <= RangeX(s) /\ r.right <= RangeX(s)
              /\ r.top <= RangeY(s) /\ r.bottom <= RangeY(s)

Lowest(S) == CHOOSE d \in S : \A e \in S : d <= e

\* source_dpi: the resolution asked if the source has it, else 300, else its lowest.
\* The option handlers choose in the same way.
SourceDpi(s, d) == IF d \in s.dpis THEN d ELSE IF 300 \in s.dpis THEN 300 ELSE Lowest(s.dpis)

\* set_input_source_side_effects
DpiAfterSwitch(s, d) == SourceDpi(s, d)

\* set_extents (HPLIP): an axis that is too short counts as not set.
Extent(from, to, min, strict) ==
    IF to > from /\ (to - from > min \/ (~strict /\ to - from = min))
    THEN <<from, to>> ELSE <<0, 0>>
ExtentX(r, s) == Extent(r.left, r.right, ThouToFixed(s.min[1]), FALSE)
ExtentY(r, s) == Extent(r.top, r.bottom, ThouToFixed(s.min[2]), TRUE)

-----------------------------------------------------------------------------
(* The ticket of bb_start_scan *)

Ticket == [input : Inputs, mode : Modes, dpi : Pipeline, x : Nat, y : Nat, w : Nat, h : Nat]
NoTicket == [input |-> "none", mode |-> "none", dpi |-> 0, x |-> 0, y |-> 0, w |-> 0, h |-> 0]
NoGeometry == <<0, 0>>

Offset(e) == FixedToThou(e[1])

\* Mutant: the size is not clipped by the offset.
Unclipped(size, max, offset) == Least(size, max)

Clipped(size, max, offset) == Least(size, max - offset)

SizeOr(e, default) == IF FixedToThou(e[2] - e[1]) <= 0 THEN default
                      ELSE FixedToThou(e[2] - e[1])

OrdinaryOr(max, i) == IF i = "ADF" THEN Least(max, OrdinaryHeight) ELSE max

NewTicket ==
    LET s == Selected  ex == ExtentX(region, s)  ey == ExtentY(region, s) IN
    [input |-> input, mode |-> mode, dpi |-> SourceDpi(s, dpi),
     x |-> Offset(ex), y |-> Offset(ey),
     w |-> Clipped(SizeOr(ex, s.max[1]), s.max[1], Offset(ex)),
     h |-> Clipped(SizeOr(ey, OrdinaryOr(s.max[2], input)), s.max[2], Offset(ey))]

\* What bb_start_scan refuses before it asks the scanner.
Refused ==
    LET s == Selected IN
    \/ ~s.present \/ mode \notin s.modes
    \/ Offset(ExtentX(region, s)) >= s.max[1] \/ Offset(ExtentY(region, s)) >= s.max[2]

-----------------------------------------------------------------------------
(* bb_get_parameters *)

Channels(m) == IF m = "Color" THEN 3 ELSE 1

\* Mutant: the whole length of the source, for the feeder too.
WholeLength(max, i) == max

\* The ticket's defaults and clipping, written a second time in the code.
EstimatedLength(max, i) == IF i = "ADF" /\ max > OrdinaryHeight THEN OrdinaryHeight ELSE max

ClippedEstimate(size, max, offset) == IF size > max - offset THEN max - offset ELSE size

\* Before the scanner has announced its numbers.
Estimate ==
    LET s == Selected  ex == ExtentX(region, s)  ey == ExtentY(region, s)
        w == ClippedEstimate(SizeOr(ex, s.max[1]), s.max[1], Offset(ex))
        h == ClippedEstimate(SizeOr(ey, EstimatedLength(s.max[2], input)), s.max[2], Offset(ey))
        d == SourceDpi(s, dpi) IN
    <<(w * d) \div 1000, (h * d) \div 1000>>

\* pixels_per_line, lines and bytes_per_line of a device that is open
Parameters ==
    LET size == IF geometry = NoGeometry THEN Estimate ELSE geometry IN
    [pixels |-> size[1], lines |-> size[2], bytes |-> size[1] * Channels(mode)]

-----------------------------------------------------------------------------
(* Calls of the frontend *)

TicketTypeOK ==
    /\ caps \in [platen : Source, adf : Source]
    /\ mode \in Modes /\ input \in Inputs /\ dpi \in Pipeline /\ region \in Region
    /\ scanning \in BOOLEAN /\ pending \in BOOLEAN
    /\ job \in Ticket \cup {NoTicket}
    /\ geometry \in Nat \X Nat

\* No handle; what a session is allocated with.
NoRegion == [left |-> 0, top |-> 0, right |-> 0, bottom |-> 0]

TicketInit ==
    /\ caps = NoCaps
    /\ mode = "Gray" /\ input = "Platen" /\ dpi = 300
    /\ region = NoRegion
    /\ scanning = FALSE
    /\ job = NoTicket /\ pending = FALSE /\ geometry = NoGeometry

\* soapht_open: bb_open reads the document, setup_capabilities and the options take
\* their first values.  When the document is refused there is no handle.
Open(doc) ==
    /\ ~Opened
    /\ ParseStatus(doc) = "GOOD"
    /\ caps' = Capabilities(doc)
    /\ mode' = IF "Gray" \in CommonModes(caps') THEN "Gray" ELSE "Color"
    /\ input' = IF caps'.platen.present THEN "Platen" ELSE "ADF"
    /\ LET s == SourceOf(caps', input') IN
          dpi' = SourceDpi(s, 0) /\ region' = DefaultRegion(s, input')
    /\ UNCHANGED <<scanning, held>>

\* Options are set between pages.
Between == Opened /\ ~scanning

SetMode(m) ==
    /\ Between /\ m \in CommonModes(caps)
    /\ mode' = m
    /\ UNCHANGED <<caps, input, dpi, region, scanning, held>>

\* The new source brings its own ranges, area and resolutions.
SetInput(i) ==
    /\ Between /\ SourceOf(caps, i).present
    /\ input' = i
    /\ region' = DefaultRegion(SourceOf(caps, i), i)
    /\ dpi' = DpiAfterSwitch(SourceOf(caps, i), dpi)
    /\ UNCHANGED <<caps, mode, scanning, held>>

SetResolution(d) ==
    /\ Between /\ d \in Selected.dpis
    /\ dpi' = d
    /\ UNCHANGED <<caps, mode, input, region, scanning, held>>

SetRegion(r) ==
    /\ Between /\ InRange(r, Selected)
    /\ region' = r
    /\ UNCHANGED <<caps, mode, input, dpi, scanning, held>>

\* The bottom edge is set back to automatic.
AutoBottom ==
    /\ Between
    /\ region' = [region EXCEPT !.bottom = DefaultBottom(Selected, input, region.top)]
    /\ UNCHANGED <<caps, mode, input, dpi, scanning, held>>

\* A feeder job that is not being canceled goes on with the next sheet.
KeepsJob == job # NoTicket /\ ~pending /\ input = "ADF" /\ job.input = "ADF"

NextPage ==
    /\ Between /\ Selected.present /\ KeepsJob
    /\ scanning' = TRUE
    /\ UNCHANGED <<caps, options, held>>

\* The scanner's numbers for a ticket (external): about the nominal ones.
Measured(t) ==
    LET nominal(size) == (size * t.dpi) \div 1000 IN
    {nominal(t.w) - k : k \in {s \in Shortfalls : s < nominal(t.w)}} \X ({nominal(t.h)} \ {0})

\* A job that was kept is canceled, the ticket sent, the numbers of the answer kept.
NewJob ==
    /\ Between /\ ~KeepsJob /\ ~Refused
    /\ dpi' = SourceDpi(Selected, dpi)
    /\ job' = NewTicket /\ pending' = FALSE
    /\ geometry' \in Measured(NewTicket)
    /\ scanning' = TRUE
    /\ UNCHANGED <<caps, mode, input, region>>

\* sane_start fails before it has a new job: the ticket is refused, an exchange with the
\* scanner failed, or the job that was kept could not be canceled.
NoNewJob ==
    /\ Between /\ ~KeepsJob
    /\ \/ job # NoTicket /\ pending' = TRUE /\ UNCHANGED <<job, dpi>>
       \/ /\ job' = NoTicket /\ pending' = FALSE
          /\ dpi' \in {dpi, SourceDpi(Selected, dpi)}
    /\ geometry' = NoGeometry
    /\ UNCHANGED <<caps, mode, input, region, scanning>>

\* The scanner's answer has no usable numbers and the new job could not be canceled.
BadNumbers ==
    /\ Between /\ ~KeepsJob /\ ~Refused
    /\ dpi' = SourceDpi(Selected, dpi)
    /\ job' = NewTicket /\ pending' = TRUE /\ geometry' = NoGeometry
    /\ UNCHANGED <<caps, mode, input, region, scanning>>

\* bb_end_page(ps, 0): the job stays, whichever its source.
EndPage ==
    /\ scanning
    /\ scanning' = FALSE
    /\ UNCHANGED <<caps, options, held>>

\* bb_end_scan, after an error or for a cancel: the numbers are forgotten in any case.
EndScan ==
    /\ job # NoTicket
    /\ \/ job' = NoTicket /\ pending' = FALSE
       \/ pending' = TRUE /\ UNCHANGED job
    /\ geometry' = NoGeometry
    /\ scanning' = FALSE
    /\ UNCHANGED <<caps, options>>

\* bb_close; a job that cannot be canceled is given up.
Close ==
    /\ Opened
    /\ caps' = NoCaps
    /\ mode' = "Gray" /\ input' = "Platen" /\ dpi' = 300 /\ region' = NoRegion
    /\ scanning' = FALSE
    /\ job' = NoTicket /\ pending' = FALSE /\ geometry' = NoGeometry

TicketNext ==
    \/ \E doc \in Documents : Open(doc)
    \/ \E m \in Modes : SetMode(m)
    \/ \E i \in Inputs : SetInput(i)
    \/ \E d \in Pipeline : SetResolution(d)
    \/ \E r \in Regions : SetRegion(r)
    \/ AutoBottom \/ NextPage \/ NewJob \/ NoNewJob \/ BadNumbers
    \/ EndPage \/ EndScan \/ Close

TicketSpec == TicketInit /\ [][TicketNext]_ticketVars
=============================================================================
