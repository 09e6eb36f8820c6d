-------------------------- MODULE EsclSettingsProps --------------------------
(***************************************************************************)
(* What parseSettings has accepted must arrive at the scanner, although    *)
(* the bridge, scanimage and the plugin each convert it to other units.    *)
(***************************************************************************)
EXTENDS EsclSettings, SoaphtTicketProps

\* Settings the bridge has accepted are not refused by anything behind it: for any
\* scanner, the plugin takes each argument in the state the earlier ones left, and the
\* edges stay in its range although they are truncated, printed and added up.
AcceptedIsScannable ==
    CASE step = "source" -> SourceOf(caps, settings.input).present
      [] step = "mode" -> settings.mode \in CommonModes(caps)
      [] step = "resolution" -> settings.dpi \in Selected.dpis
      [] step = "area" -> \A r \in AskedRegions(settings) : InRange(r, Selected)
      [] step = "start" -> ~Refused
      [] OTHER -> TRUE

\* thou is the length of v three hundredths, rounded to the nearest thousandth.
NearestThou(thou, v) == 3 * thou - 10 * v \in -1..1

AxisAsRequested(x, w, offset, size, min, max) ==
    /\ NearestThou(x, offset) /\ NearestThou(w, size)
    /\ min <= w /\ x + w <= max

AsRequested(t, s, src) ==
    /\ t.input = s.input /\ t.mode = s.mode /\ t.dpi = s.dpi
    /\ AxisAsRequested(t.x, t.w, s.x, s.w, src.min[1], src.max[1])
    /\ AxisAsRequested(t.y, t.h, s.y, s.h, src.min[2], src.max[2])

\* The ticket the plugin sends for a job of the bridge is the one the client asked for,
\* to the nearest thousandth of an inch, and within the limits of the scanner: no option
\* is replaced by a later one, no area so small that the plugin takes the whole page
\* instead ("One eSCL unit of margin also satisfies HPAIO's strict minimum-height
\* comparison after SANE fixed-point rounding", capabilities.go:238).
TicketAsRequested ==
    [][step = "start" /\ Ticketed => AsRequested(job', settings, Selected)]_esclVars

\* The raster a scanner makes of a ticket.
Nominal(t) == <<(t.w * t.dpi) \div 1000, (t.h * t.dpi) \div 1000>>

\* The WSD ticket stays inside its source, "an offset plus size never exceeds source
\* bounds" (wsd.go:351), is no smaller than the scanner takes, and the raster of its
\* size is neither refused as a wrong one nor trimmed, unless it has no pixel at all.
WsdTicketFits ==
    scanner.kind = "wsd" /\ step = "posted" =>
        LET t == WsdTicket(settings)  src == scanner.says.sources[settings.input]
            raster == Nominal(t) IN
        /\ src.min[1] <= t.w /\ t.x + t.w <= src.max[1]
        /\ src.min[2] <= t.h /\ t.y + t.h <= src.max[2]
        /\ raster[1] >= 1 /\ raster[2] >= 1 =>
             ~RasterRefused(raster, settings) /\ PageBounds(raster, settings) = raster
=============================================================================
