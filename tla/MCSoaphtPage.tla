---------------------------- MODULE MCSoaphtPage ----------------------------
(***************************************************************************)
(* An instance of what is asked of a page, by any frontend (SoaphtTicket)  *)
(* or by the bridge (EsclSettings), and of what comes of it (SoaphtImage). *)
(* The image shares no variable with the rest, so that each is explored    *)
(* while the others are at rest.                                           *)
(***************************************************************************)
EXTENDS EsclSettingsProps, SoaphtImageProps, FiniteSetsExt, SequencesExt

PageInit == TicketInit /\ SettingsInit /\ ImageInit

PageNext ==
    \/ stage = "idle" /\ step = "off" /\ TicketNext /\ UNCHANGED <<settingsVars, imageVars>>
    \/ stage = "idle" /\ SettingsNext /\ UNCHANGED imageVars
    \/ ~Opened /\ step = "off" /\ ImageNext /\ UNCHANGED esclVars

PageSpec == PageInit /\ [][PageNext]_<<esclVars, imageVars>>

-----------------------------------------------------------------------------
(* Capability documents: the M127fn of tests/fixtures/m127fn-capabilities.xml and *)
(* variations of it, half of which the parser refuses.                             *)

NoElement == [supported |-> "absent", min |-> <<0, 0>>, max |-> <<0, 0>>,
              optical |-> <<0, 0>>, colors |-> NoList]
Flatbed == [supported |-> "true", min |-> <<1920, 1920>>, max |-> <<8500, 11690>>,
            optical |-> <<1200, 1200>>, colors |-> Modes]
Feeder == [supported |-> "true", min |-> <<1920, 1920>>, max |-> <<8500, 14000>>,
           optical |-> <<300, 300>>, colors |-> NoList]
M127 == [readable |-> TRUE, jfif |-> TRUE, colors |-> NoList, platen |-> Flatbed,
         adf |-> Feeder]
\* As large and as coarse, and as small, as a source may be.
Large == [Feeder EXCEPT !.min = <<1, 1>>, !.max = <<20000, 20000>>, !.optical = <<150, 1200>>]
Slip == [Flatbed EXCEPT !.min = <<3, 1>>, !.max = <<3, 5>>, !.optical = <<600, 600>>,
                        !.colors = {"Color"}]

Devices == {M127,
    [M127 EXCEPT !.adf.supported = "false"],
    [M127 EXCEPT !.platen.supported = "false", !.platen.colors = NoList, !.colors = Modes],
    [M127 EXCEPT !.platen.supported = "false", !.platen.colors = {"Gray"},
                 !.adf.optical = <<600, 600>>],
    [M127 EXCEPT !.adf.colors = {"Gray"}],
    [M127 EXCEPT !.adf = Large],
    [M127 EXCEPT !.platen = Slip, !.adf = Large],
    \* Limits that are no whole eSCL units; the feeder is the finer source.
    [M127 EXCEPT !.platen.min = <<1923, 1921>>, !.platen.max = <<8503, 11699>>,
                 !.platen.optical = <<300, 300>>, !.adf.optical = <<600, 600>>]}

Unusable == {
    [M127 EXCEPT !.readable = FALSE],
    [M127 EXCEPT !.jfif = FALSE],
    [M127 EXCEPT !.platen = NoElement, !.adf = NoElement],
    [M127 EXCEPT !.platen = Slip, !.adf.colors = {"Gray"}],
    [M127 EXCEPT !.platen.colors = {}],
    [M127 EXCEPT !.platen.max = <<20001, 11690>>],
    [M127 EXCEPT !.adf.supported = "bad"],
    [M127 EXCEPT !.adf.max = <<8500, 0>>],
    [M127 EXCEPT !.adf.min = <<8500, 14000>>],
    [M127 EXCEPT !.adf.optical = <<300, 149>>]}

AllDocuments == Devices \cup Unusable

Area(l, t, r, b) == [left |-> l, top |-> t, right |-> r, bottom |-> b]

\* Legal; a crop; edges next to a half thousandth; edges at one, up to a far corner, so
\* that offset and size are both rounded up; an area that is too small.
Areas == {
    Area(0, 0, 14149222, 23304601),
    Area(655360, 1310720, 7208960, 11141120),
    Area(832, 833, 14149222, 19459342),
    Area(2600960, 2600960, 33292288, 33292288),
    Area(100, 100, 200, 5000)}

-----------------------------------------------------------------------------
(* WSD scanners: that of airscan-bridge/testdata/wsd-m127-config.xml and variations. *)

WsdFlatbed == [present |-> TRUE, min |-> <<1920, 1920>>, max |-> <<8500, 11690>>,
               widths |-> {75, 150, 200, 300, 600, 1200}, heights |-> {75, 150, 200, 300, 600, 1200},
               colors |-> <<"other", "Gray", "Color">>]
WsdFeeder == [WsdFlatbed EXCEPT !.max = <<8500, 14000>>, !.widths = {75, 150, 300, 600}]
WsdM127 == [dib |-> TRUE, sources |-> [Platen |-> WsdFlatbed, ADF |-> WsdFeeder]]

AllConfigurations == {WsdM127,
    \* Limits that are no whole eSCL units; a slip of a few pixels.
    [WsdM127 EXCEPT !.sources.Platen.min = <<1921, 1922>>, !.sources.Platen.max = <<8503, 11699>>,
                    !.sources.ADF.present = FALSE],
    [WsdM127 EXCEPT !.sources.Platen.min = <<1, 3>>, !.sources.Platen.max = <<7, 20000>>,
                    !.sources.ADF.colors = <<"Color">>, !.sources.ADF.max = <<20000, 20000>>],
    \* Refused.
    [WsdM127 EXCEPT !.dib = FALSE],
    [WsdM127 EXCEPT !.sources.ADF.min = <<0, 1>>],
    [WsdM127 EXCEPT !.sources.ADF.min = <<8500, 13999>>],
    [WsdM127 EXCEPT !.sources.ADF.heights = {1200}],
    [WsdM127 EXCEPT !.sources.ADF.colors = <<"other">>]}

(* Settings of eSCL clients *)

Crop(x, y, w, h) == <<[units |-> "300ths", x |-> x, y |-> y, w |-> w, h |-> h]>>

Whole == [valid |-> TRUE, source |-> "", duplex |-> FALSE, format |-> "jpeg", formatExt |-> "",
          xres |-> 0, yres |-> 0, mode |-> "", images |-> 0, regions |-> <<>>]

\* The whole bed, crops that touch its far edges or begin next to them, the smallest area
\* and one below it, lengths of a few units, and areas that reach out of the bed.
Crops == {Crop(0, 0, 2550, 3507), Crop(0, 0, 2480, 3508), Crop(0, 0, 6000, 6000),
           Crop(1, 1, 2549, 3506), Crop(1973, 2930, 577, 577), Crop(1974, 2931, 576, 576),
           Crop(5, 3430, 578, 77), Crop(101, 77, 1000, 1001), Crop(0, 0, 1, 1),
           Crop(1, 2, 1, 3), Crop(5999, 5998, 1, 2), Crop(0, 0, 2, 601),
           Crop(2551, 0, 577, 577), Crop(-1, 0, 600, 600), Crop(0, 0, 2551, 577)}

AllRequests ==
    {[Whole EXCEPT !.source = s, !.regions = r] :
        s \in {"", "Platen", "Feeder", "ADF"}, r \in Crops \cup {<<>>}}
    \cup {[Whole EXCEPT !.source = s, !.xres = d, !.yres = y, !.mode = m] :
        s \in {"Flatbed", "Feeder"}, d \in {75, 150, 300, 600}, y \in {0, 300},
        m \in {"", "Gray", "Color"}}
    \cup {[Whole EXCEPT !.xres = 75, !.regions = r] : r \in Crops}
    \cup {[Whole EXCEPT !.valid = FALSE], [Whole EXCEPT !.source = "other"],
          [Whole EXCEPT !.duplex = TRUE], [Whole EXCEPT !.formatExt = "other"],
          [Whole EXCEPT !.mode = "other"], [Whole EXCEPT !.images = 101],
          [Whole EXCEPT !.regions = Crop(0, 0, 600, 600) \o Crop(0, 0, 600, 600)],
          [Whole EXCEPT !.regions = <<[Crop(0, 0, 600, 600)[1] EXCEPT !.units = "other"]>>]}

-----------------------------------------------------------------------------
(* Replies to RetrieveImage *)

Of(kind, n) == [kind |-> kind, n |-> n, more |-> FALSE]
Crlf == Of("crlf", 0)

\* The shortest image, and one with a unit that looks like a line end.
Images == {<<Of("soi", 0), Of("eoi", 0)>>,
           <<Of("soi", 0), Crlf, Of("data", 1), Of("data", 2), Of("eoi", 0)>>}

\* A record with the SOAP answer may come first.
Preludes == {<<>>, <<Of("record", 1), Of("data", 0)>>}

\* An image in one record, or in one that is continued after k units.
Records(image, k) ==
    IF k = 0 THEN <<Of("image", Len(image))>> \o image
    ELSE <<[Of("image", k) EXCEPT !.more = TRUE]>> \o SubSeq(image, 1, k)
         \o <<Of("record", Len(image) - k)>> \o SubSeq(image, k + 1, Len(image))

Message(image, pre, k) ==
    LET first == Len(pre) + 1 IN
    [NoReply EXCEPT !.intact = TRUE, !.image = image, !.body = pre \o Records(image, k),
                    !.before = {1, first},
                    !.heads = {<<first, 0>>} \cup {<<first + j + 1, j>> : j \in {k} \ {0}}]

Messages(image) ==
    {Message(image, pre, k) : pre \in Preludes, k \in 0..Len(image) - 1}

\* The feeder jams: the records or the image end early, the reply does not.  Or it has a
\* record with invalid flags.
Jam(message, body) == [message EXCEPT !.intact = FALSE, !.adf = TRUE, !.body = body]

JammedMessages(image) ==
    UNION {{Jam(m, SubSeq(m.body, 1, n)) : n \in 1..Len(m.body) - 1} : m \in Messages(image)}
    \cup {Jam(Message(image, <<>>, 0), Records(SubSeq(image, 1, n), 0)) :
              n \in 1..Len(image) - 1}
    \cup {Jam(m, [m.body EXCEPT ![1].kind = "flags"]) : m \in Messages(image)}

\* A message in chunks that end at each of the cuts.
Chunked(message, cuts) ==
    LET body == message.body
        ends == <<0>> \o SetToSortSeq(cuts \cup {Len(body)}, <)
        size(i) == IF i = Len(ends) THEN 0 ELSE ends[i + 1] - ends[i]
        chunk(i) == <<Of("line", size(i))>> \o SubSeq(body, ends[i] + 1, ends[i] + size(i))
                    \o <<Crlf>>
    IN  [message EXCEPT !.cells = FlattenSeq([i \in DOMAIN ends |-> chunk(i)]),
                        !.lines = {<<ends[i] + 2 * i - 1, ends[i]>> : i \in DOMAIN ends}]

\* Up to three chunks.
Cuts(body) == UNION {kSubset(k, 1..Len(body) - 1) : k \in 0..2}

IntactReplies(image) ==
    UNION {{Chunked(m, cuts) : cuts \in Cuts(m.body)} : m \in Messages(image)}

JammedReplies(image) == {Chunked(m, {1} \ {Len(m.body)}) : m \in JammedMessages(image)}

\* Cut short, or with something else where a size must be.
Damaged(r) ==
    {[r EXCEPT !.intact = FALSE, !.cells = SubSeq(@, 1, Len(@) - 2)]}
    \cup {[r EXCEPT !.intact = FALSE, !.cells[k].kind = "junk"] :
             k \in {q \in DOMAIN r.cells : r.cells[q].kind = "line"}}

AllReplies ==
    UNION {IntactReplies(image) \cup JammedReplies(image)
           \cup UNION {Damaged(r) : r \in IntactReplies(image)} : image \in Images}
=============================================================================
