---------------------------- MODULE EsclSettings ----------------------------
(***************************************************************************)
(* How the settings of an eSCL client become a scan ticket: what the       *)
(* bridge believes of the scanner (detectDevice and applyMinimums over     *)
(* USB, device() over WSD), which settings it accepts (parseSettings), and *)
(* what it makes of them: arguments of scanimage, which sets the options   *)
(* of the plugin (SoaphtTicket) one after the other, or a WSD ticket.      *)
(*                                                                         *)
(* eSCL lengths are three hundredths of an inch.  A job goes as far here   *)
(* as its ticket; its pages are in Bridge and SoaphtSession.               *)
(***************************************************************************)
EXTENDS SoaphtTicket

CONSTANTS
    Configurations,  \* answers of WSD scanners to GetScannerElements
    Requests         \* what clients post to ScanJobs

\* A source as the bridge offers it; mode is the first of its modes.
EsclSource == [width : Nat, height : Nat, defaultHeight : Nat, minWidth : Nat,
               minHeight : Nat, dpis : SUBSET Nat, modes : SUBSET Modes, mode : Modes]
NoEscl == [width |-> 0, height |-> 0, defaultHeight |-> 0, minWidth |-> 0,
           minHeight |-> 0, dpis |-> {}, modes |-> {}, mode |-> "Gray"]

\* A decoded ScanSettings; valid: within 64 KiB, well formed, without a DTD.
Area300 == [units : {"300ths", "other"}, x : Int, y : Int, w : Int, h : Int]
Request == [valid : BOOLEAN, source : {"", "Platen", "Flatbed", "Feeder", "ADF", "other"},
            duplex : BOOLEAN, format : {"", "jpeg", "other"}, formatExt : {"", "jpeg", "other"},
            xres : Int, yres : Int, mode : Modes \cup {"", "other"}, images : Int,
            regions : Seq(Area300)]

\* A source of a WSD scanner: sizes in thousandths, ADFFront for the feeder.
WsdSource == [present : BOOLEAN, min : Int \X Int, max : Int \X Int,
              widths : SUBSET Nat, heights : SUBSET Nat, colors : Seq(Modes \cup {"other"})]
Configuration == [dib : BOOLEAN, sources : [Inputs -> WsdSource]]

ASSUME SettingsAssumption ==
    /\ Configurations \subseteq Configuration
    /\ Requests \subseteq Request

VARIABLES
    scanner,   \* which scanner the bridge was started for
    device,    \* what it knows of its sources
    settings,  \* those of the job in hand
    step       \* of main() and of the scanimage it starts

settingsVars == <<scanner, device, settings, step>>
esclVars == <<ticketVars, settingsVars>>

NoScanner == [kind |-> "none", says |-> "nothing"]
NoDevice == [i \in Inputs |-> NoEscl]

-----------------------------------------------------------------------------
(* A scanner on USB: the options scanimage lists, and the minima of the probe *)

\* scanimage prints millimetres with six significant digits (external), here in
\* 1 / (8 * Precision(v)) mm.
Precision(v) == IF v < 10 * 65536 THEN 12500 ELSE IF v < 100 * 65536 THEN 1250 ELSE 125
Printed(v) ==
    LET p == Precision(v) IN p * (v \div 8192) + (p * (v % 8192) + 4096) \div 8192

\* floor(mm * 300 / 25.4 + 0.001)
Units(v) ==
    LET p == Precision(v) IN (1500 * Printed(v) + 127 * (p \div 125)) \div (1016 * p)

\* Mutant: without the margin, the strict test of the plugin drops the extent.
MinimumExact(thou) == (3 * thou) \div 10

Minimum(thou) == (3 * thou) \div 10 + 1

\* The plugin lists Gray before Color.
FirstMode(S) == IF "Gray" \in S THEN "Gray" ELSE "Color"

\* parseSource, on the options of the plugin with the source chosen
Listed(c, i) ==
    LET s == SourceOf(c, i) IN
    [width |-> Units(RangeX(s)), height |-> Units(RangeY(s)),
     defaultHeight |-> Units(DefaultBottom(s, i, 0)),
     minWidth |-> Minimum(s.min[1]), minHeight |-> Minimum(s.min[2]),
     dpis |-> s.dpis, modes |-> CommonModes(c), mode |-> FirstMode(CommonModes(c))]

UsbDevice(c) == [i \in Inputs |-> IF SourceOf(c, i).present THEN Listed(c, i) ELSE NoEscl]

\* Either axis may be too short for its minimum.
Bounded(d) == \A i \in Inputs : d[i].minWidth <= d[i].width /\ d[i].minHeight <= d[i].height

-----------------------------------------------------------------------------
(* A scanner on the network *)

WsdDpis == {75, 150, 300, 600}

\* Mutant: the minimum is truncated like the maximum.
WsdMinimumDown(thou) == (3 * thou) \div 10

WsdMinimum(thou) == (3 * thou + 9) \div 10

WsdModes(s) == Modes \cap {s.colors[k] : k \in DOMAIN s.colors}

\* The one the scanner names first.
WsdFirstMode(s) ==
    IF \E k \in DOMAIN s.colors :
         s.colors[k] = "Color" /\ \A j \in 1..k - 1 : s.colors[j] # "Gray"
    THEN "Color" ELSE "Gray"

WsdListed(s) ==
    LET height == (3 * s.max[2]) \div 10 IN
    [width |-> (3 * s.max[1]) \div 10, height |-> height, defaultHeight |-> Least(height, 3507),
     minWidth |-> WsdMinimum(s.min[1]), minHeight |-> WsdMinimum(s.min[2]),
     dpis |-> WsdDpis \cap s.widths \cap s.heights,
     modes |-> WsdModes(s), mode |-> WsdFirstMode(s)]

WsdDevice(cfg) ==
    [i \in Inputs |-> IF cfg.sources[i].present THEN WsdListed(cfg.sources[i]) ELSE NoEscl]

\* One source that cannot be used refuses the scanner.
WsdUsable(cfg) ==
    LET present == {i \in Inputs : cfg.sources[i].present}  d == WsdDevice(cfg) IN
    /\ cfg.dib /\ present # {} /\ Bounded(d)
    /\ \A i \in present :
         /\ ~Unsized(cfg.sources[i].min) /\ ~Unsized(cfg.sources[i].max)
         /\ d[i].dpis # {} /\ d[i].modes # {}

-----------------------------------------------------------------------------
(* parseSettings *)

SourceName(req) ==
    IF req.source \in {"", "Platen", "Flatbed"} THEN "Platen"
    ELSE IF req.source \in {"Feeder", "ADF"} THEN "ADF" ELSE "none"

DefaultDpi(src) == IF 300 \in src.dpis THEN 300 ELSE Lowest(src.dpis)

\* One axis of the region.
Within(offset, size, min, max) ==
    /\ size >= min /\ size >= 1
    /\ offset >= 0 /\ offset <= max /\ size <= max - offset

\* The settings it returns for an existing source.
Parsed(req, src) ==
    LET r == IF req.regions = <<>>
             THEN [units |-> "300ths", x |-> 0, y |-> 0, w |-> src.width, h |-> src.defaultHeight]
             ELSE req.regions[1] IN
    [input |-> SourceName(req),
     mode |-> IF req.mode = "" THEN src.mode ELSE req.mode,
     dpi |-> IF req.xres = 0 THEN DefaultDpi(src) ELSE req.xres,
     x |-> r.x, y |-> r.y, w |-> r.w, h |-> r.h]

\* It returns no error.
Accepted(req, d) ==
    LET i == SourceName(req)  src == d[i]  s == Parsed(req, src) IN
    /\ req.valid
    /\ i \in Inputs /\ src # NoEscl /\ ~req.duplex
    /\ (IF req.formatExt # "" THEN req.formatExt ELSE req.format) \in {"", "jpeg"}
    /\ s.dpi \in src.dpis /\ req.yres \in {0, s.dpi}
    /\ s.mode \in src.modes
    /\ req.images \in 0..100
    /\ Len(req.regions) <= 1
    /\ \A k \in DOMAIN req.regions : req.regions[k].units = "300ths"
    /\ Within(s.x, s.w, src.minWidth, src.width) /\ Within(s.y, s.h, src.minHeight, src.height)

Settings == [input : Inputs, mode : Modes, dpi : Nat, x : Nat, y : Nat, w : Nat, h : Nat]
NoSettings == NoTicket

-----------------------------------------------------------------------------
(* Arguments of scanimage *)

\* Mutant: each component rounded to the nearest unit of SANE_Fixed.
MillimetresNearest(v) == 5548 * v + (536 * v + 375) \div 750

\* mm: v * 127 * 65536 / 1500 = 5548 v + 268 v / 375, truncated
Millimetres(v) == 5548 * v + (268 * v) \div 375

\* Ten decimals, read back by scanimage (external): the same, or one unit less.
ReadBack(v) == {v, v - 1} \cap Nat

\* scanimage adds offset and size.
AskedRegions(s) ==
    {[left |-> l, top |-> t, right |-> l + w, bottom |-> t + h] :
        l \in ReadBack(Millimetres(s.x)), t \in ReadBack(Millimetres(s.y)),
        w \in ReadBack(Millimetres(s.w)), h \in ReadBack(Millimetres(s.h))}

-----------------------------------------------------------------------------
(* The WSD ticket *)

WsdTicket(s) ==
    [input |-> s.input, mode |-> s.mode, dpi |-> s.dpi,
     x |-> (10 * s.x) \div 3, y |-> (10 * s.y) \div 3,
     w |-> (10 * s.w) \div 3, h |-> (10 * s.h) \div 3]

\* wsdPageBounds: the pixels expected, the rasters refused, what is kept of the others.
Expected(s) == <<(s.w * s.dpi) \div 300, (s.h * s.dpi) \div 300>>

AtLeastOne(n) == IF n < 1 THEN 1 ELSE n

RasterRefused(actual, s) ==
    LET e == Expected(s) IN
    \/ e[1] < 1 \/ e[2] < 1
    \/ actual[1] < AtLeastOne(e[1] - 63) \/ actual[1] > e[1] + 63
    \/ actual[2] < 1 \/ actual[2] > e[2] + 8
    \/ s.input = "Platen" /\ actual[2] < AtLeastOne(e[2] - 8)

PageBounds(actual, s) == <<Least(Expected(s)[1], actual[1]), Least(Expected(s)[2], actual[2])>>

-----------------------------------------------------------------------------
(* The bridge and the scanimage it starts *)

Scanners == {NoScanner} \cup [kind : {"usb"}, says : Documents]
                        \cup [kind : {"wsd"}, says : Configurations]

Steps == {"off", "idle", "posted", "source", "mode", "resolution", "area", "start",
          "scanning"}

SettingsTypeOK ==
    /\ scanner \in Scanners
    /\ device \in [Inputs -> EsclSource]
    /\ settings \in Settings \cup {NoSettings}
    /\ step \in Steps

SettingsInit ==
    /\ scanner = NoScanner /\ device = NoDevice
    /\ settings = NoSettings /\ step = "off"

\* main(): the scanner is refused unless everything is understood.
StartUsb(doc) ==
    /\ step = "off" /\ ~Opened
    /\ ParseStatus(doc) = "GOOD" /\ Bounded(UsbDevice(Capabilities(doc)))
    /\ scanner' = [kind |-> "usb", says |-> doc]
    /\ device' = UsbDevice(Capabilities(doc))
    /\ step' = "idle"
    /\ UNCHANGED <<settings, ticketVars>>

StartWsd(cfg) ==
    /\ step = "off" /\ ~Opened
    /\ WsdUsable(cfg)
    /\ scanner' = [kind |-> "wsd", says |-> cfg]
    /\ device' = WsdDevice(cfg)
    /\ step' = "idle"
    /\ UNCHANGED <<settings, ticketVars>>

\* create(), as far as it looks at the settings.
Post(req) ==
    /\ step = "idle" /\ Accepted(req, device)
    /\ settings' = Parsed(req, device[SourceName(req)])
    /\ step' = "posted"
    /\ UNCHANGED <<scanner, device, ticketVars>>

\* The WSD ticket of the job is sent.
SendWsd ==
    /\ step = "posted" /\ scanner.kind = "wsd"
    /\ settings' = NoSettings /\ step' = "idle"
    /\ UNCHANGED <<scanner, device, ticketVars>>

\* scanimage opens the plugin, then takes the options in the order of the arguments.
OpenPlugin ==
    /\ step = "posted" /\ scanner.kind = "usb"
    /\ Open(scanner.says)
    /\ step' = "source" /\ UNCHANGED <<scanner, device, settings>>

SetOption ==
    /\ \/ step = "source" /\ SetInput(settings.input) /\ step' = "mode"
       \/ step = "mode" /\ SetMode(settings.mode) /\ step' = "resolution"
       \/ step = "resolution" /\ SetResolution(settings.dpi) /\ step' = "area"
       \/ /\ step = "area" /\ step' = "start"
          /\ \E r \in AskedRegions(settings) : SetRegion(r)
    /\ UNCHANGED <<scanner, device, settings>>

\* sane_start, whether or not the scanner goes along with it.
StartScan ==
    /\ step = "start" /\ (NewJob \/ NoNewJob \/ BadNumbers)
    /\ step' = "scanning" /\ UNCHANGED <<scanner, device, settings>>

ScanimageEnds ==
    /\ step = "scanning" /\ Close
    /\ settings' = NoSettings /\ step' = "idle"
    /\ UNCHANGED <<scanner, device>>

SettingsNext ==
    \/ \E doc \in Documents : StartUsb(doc)
    \/ \E cfg \in Configurations : StartWsd(cfg)
    \/ \E req \in Requests : Post(req)
    \/ SendWsd \/ OpenPlugin \/ SetOption \/ StartScan \/ ScanimageEnds

SettingsSpec == TicketInit /\ SettingsInit /\ [][SettingsNext]_esclVars
=============================================================================
