------------------------- MODULE SoaphtTicketProofs -------------------------
(***************************************************************************)
(* Proofs about options, tickets and estimates (SoaphtTicket), and about   *)
(* what the bridge makes of the settings of its clients (EsclSettings).    *)
(* The conversions between the two units are bounded first; that an        *)
(* accepted document makes good sources, and that an extent begins inside  *)
(* its source, are lemmas; the invariant says that the options always come *)
(* from the sources.  For the bridge, the settings are wired to its view   *)
(* of the scanner, and each axis is carried through print and read-back.   *)
(***************************************************************************)
EXTENDS EsclSettingsProps, TLAPS

-----------------------------------------------------------------------------
(* Conversions *)

\* v is the exact length of t thousandths (1040384 / 625 each), truncated.
Truncated(t, v) ==
    v \in Nat /\ 625 * v <= 1040384 * t /\ 1040384 * t < 625 * v + 625

\* f is the exact length of v in thousandths, rounded to the nearest.
Rounded(v, f) ==
    /\ f \in Nat
    /\ 1040384 * f <= 625 * v + 520192
    /\ 625 * v + 520192 < 1040384 * f + 1040384

LEMMA ThouBounds ==
    ASSUME NEW t \in Nat
    PROVE  Truncated(t, ThouToFixed(t))
<1> DEFINE q == (384 * t) \div 625
<1>1. q \in Nat /\ 625 * q <= 384 * t /\ 384 * t < 625 * q + 625
  BY SMT
<1>2. ThouToFixed(t) = 1664 * t + q
  BY SMT DEF ThouToFixed
<1> HIDE DEF q
<1> QED BY SMT, <1>1, <1>2 DEF Truncated

LEMMA FixedBounds ==
    ASSUME NEW v \in Nat
    PROVE  Rounded(v, FixedToThou(v))
<1> DEFINE a == v \div 8192
           b == v % 8192
           c == (625 * b + 520192) \div 8192
           n == 625 * a + c
           f == n \div 127
<1>1. a \in Nat /\ b \in 0..8191 /\ v = 8192 * a + b
  BY SMT
<1> HIDE DEF a, b
<1>2. c \in Nat /\ 8192 * c <= 625 * b + 520192 /\ 625 * b + 520192 < 8192 * c + 8192
  BY SMT, <1>1
<1> HIDE DEF c
<1>3. n \in Nat
  BY SMT, <1>1, <1>2
<1>4. 8192 * n <= 625 * v + 520192 /\ 625 * v + 520192 < 8192 * n + 8192
  BY SMT, <1>1, <1>2
<1> HIDE DEF n
<1>5. f \in Nat /\ 127 * f <= n /\ n < 127 * f + 127
  BY SMT, <1>3
<1>6. FixedToThou(v) = f
  BY SMT DEF FixedToThou, f, n, c, a, b
<1> HIDE DEF f
<1> QED BY SMT, <1>3, <1>4, <1>5, <1>6 DEF Rounded

\* From thousandths to SANE_Fixed and back is the identity: the maximum of a source
\* survives the trip through the range of an option.
THEOREM RoundTrip ==
    ASSUME NEW t \in Nat
    PROVE  FixedToThou(ThouToFixed(t)) = t
<1> DEFINE v == ThouToFixed(t)
           f == FixedToThou(v)
<1>1. Truncated(t, v)
  BY ThouBounds
<1>2. v \in Nat
  BY SMT, <1>1 DEF Truncated
<1> HIDE DEF v
<1>3. Rounded(v, f)
  BY <1>2, FixedBounds
<1> HIDE DEF f
<1>4. f = t
  BY SMT, <1>1, <1>3 DEF Truncated, Rounded
<1> QED BY <1>4 DEF f, v

-----------------------------------------------------------------------------
(* One axis *)

\* An extent is a pair of lengths: one that is long enough, or none.
LEMMA ExtentForm ==
    ASSUME NEW from \in Nat, NEW to \in Nat, NEW min \in Nat, NEW strict \in BOOLEAN
    PROVE  \/ Extent(from, to, min, strict) = <<0, 0>>
           \/ /\ Extent(from, to, min, strict) = <<from, to>>
              /\ to - from >= min
BY SMT DEF Extent

\* Near, from the bounds of both conversions.
LEMMA RoundedNear ==
    ASSUME NEW t \in Nat, NEW v \in Nat,
           1040384 * t <= 625 * v + 1040384, 625 * v <= 1040384 * t + 1040384
    PROVE  Near(t, v)
<1> DEFINE f == ThouToFixed(t)
<1>1. Truncated(t, f)
  BY SMT, ThouBounds
<1>2. Near(t, v) <=> f - v \in -1666..1666
  BY SMT DEF Near, Thou
<1> HIDE DEF f
<1>3. f \in Nat /\ f - v <= 1666 /\ v - f <= 1666
  BY SMT, <1>1 DEF Truncated
<1> QED BY SMT, <1>2, <1>3

\* The four lines of the ticket that make an offset and a size of one axis.
LEMMA AxisCovered ==
    ASSUME NEW max \in Nat \ {0}, NEW min \in Nat \ {0}, NEW default \in 1..max,
           NEW from \in Nat, NEW to \in Nat, NEW strict \in BOOLEAN,
           from <= ThouToFixed(max), to <= ThouToFixed(max),
           NEW e, e = Extent(from, to, ThouToFixed(min), strict),
           NEW size, size = Clipped(SizeOr(e, default), max, Offset(e))
    PROVE  /\ Offset(e) \in Nat /\ Offset(e) < max
           /\ SizeOr(e, default) \in Nat
           /\ size \in Nat
           /\ Covers(Offset(e), size, e, max, default)
<1> DEFINE M == ThouToFixed(max)
           m == ThouToFixed(min)
<1>1. Truncated(max, M) /\ Truncated(min, m)
  BY Zenon, ThouBounds
<1>2. from <= M /\ to <= M /\ e = Extent(from, to, m, strict)
  OBVIOUS
<1> HIDE DEF M, m
<1>3. M \in Nat /\ m \in Nat /\ m >= 1664
  BY SMT, <1>1 DEF Truncated
<1>4. CASE e = <<0, 0>>
  <2>1. Rounded(0, FixedToThou(0))
    BY FixedBounds
  <2>2. FixedToThou(0) = 0
    BY SMT, <2>1 DEF Rounded
  <2>3. e[1] = 0 /\ e[2] - e[1] = 0
    BY SMT, <1>4
  <2>4. Offset(e) = 0 /\ SizeOr(e, default) = default
    BY SMT, <2>2, <2>3 DEF Offset, SizeOr
  <2>5. size = default
    BY SMT, <2>4 DEF Clipped, Least
  <2> QED BY SMT, <1>4, <2>4, <2>5 DEF Covers
<1>5. CASE e = <<from, to>> /\ to - from >= m
  <2>1. PICK d \in Nat : d = to - from /\ d >= 1664
    BY SMT, <1>3, <1>5
  <2>2. e[1] = from /\ e[2] = to /\ e[2] - e[1] = d
    BY SMT, <1>5, <2>1
  <2> DEFINE o == FixedToThou(from)
             s == FixedToThou(d)
  <2>3. Rounded(from, o) /\ Rounded(d, s)
    BY Zenon, FixedBounds
  <2>4. Offset(e) = o
    BY <2>2 DEF Offset
  <2>5. FixedToThou(e[2] - e[1]) = s
    BY <2>2
  <2> HIDE DEF o, s
  <2>6. o \in Nat /\ s \in Nat /\ s > 0
    BY SMT, <2>1, <2>3 DEF Rounded
  <2>7. SizeOr(e, default) = s
    BY SMT, <2>5, <2>6 DEF SizeOr
  <2>8. o < max
    BY SMT, <1>1, <1>2, <2>1, <2>3 DEF Truncated, Rounded
  <2>9. size = Least(s, max - o)
    BY <2>4, <2>7 DEF Clipped
  <2>10. size \in Nat /\ size > 0 /\ o + size <= max
    BY SMT, <2>6, <2>8, <2>9 DEF Least
  <2>11. Near(o, from)
    <3>1. 1040384 * o <= 625 * from + 1040384 /\ 625 * from <= 1040384 * o + 1040384
      BY SMT, <2>3 DEF Rounded
    <3> QED BY SMT, <2>6, <3>1, RoundedNear
  <2>12. Near(o + size, to)
    <3> DEFINE end == o + size
    <3>1. end \in Nat
      BY SMT, <2>6, <2>10
    <3>2. end = o + s \/ (end = max /\ o + s >= max + 1)
      BY SMT, <2>6, <2>8, <2>9 DEF Least
    <3> HIDE DEF end
    <3>3. 1040384 * end <= 625 * to + 1040384 /\ 625 * to <= 1040384 * end + 1040384
      <4>1. CASE end = o + s
        BY SMT, <2>1, <2>3, <2>6, <4>1 DEF Rounded
      <4>2. CASE end = max /\ o + s >= max + 1
        <5>1. 1040384 * (o + s) <= 625 * to + 1040384
          BY SMT, <2>1, <2>3, <2>6 DEF Rounded
        <5>2. 625 * to <= 1040384 * max
          BY SMT, <1>1, <1>2 DEF Truncated
        <5> QED BY SMT, <2>6, <4>2, <5>1, <5>2
      <4> QED BY SMT, <3>2, <4>1, <4>2
    <3>4. Near(end, to)
      BY SMT, <3>1, <3>3, RoundedNear
    <3> QED BY <3>4 DEF end
  <2>13. e # <<0, 0>>
    BY SMT, <2>1, <2>2
  <2>14. Covers(Offset(e), size, e, max, default)
    BY <2>2, <2>4, <2>10, <2>11, <2>12, <2>13 DEF Covers
  <2> QED BY <2>4, <2>6, <2>7, <2>8, <2>10, <2>14
<1>6. \/ e = <<0, 0>>
      \/ e = <<from, to>> /\ to - from >= m
  BY SMT, <1>2, <1>3, ExtentForm
<1> QED BY <1>4, <1>5, <1>6
-----------------------------------------------------------------------------
(* Sources *)

LEMMA LowestIn ==
    ASSUME NEW S \in SUBSET Pipeline, S # {}
    PROVE  Lowest(S) \in S
<1>1. \E d \in S : \A e \in S : d <= e
  <2>1. CASE 150 \in S
    BY SMT, <2>1 DEF Pipeline
  <2>2. CASE 150 \notin S /\ 300 \in S
    BY SMT, <2>2 DEF Pipeline
  <2>3. CASE 150 \notin S /\ 300 \notin S
    <3>1. \A d \in S : d = 600
      BY SMT, <2>3 DEF Pipeline
    <3>2. 600 \in S
      BY <3>1
    <3> QED BY SMT, <3>1, <3>2
  <2> QED BY <2>1, <2>2, <2>3
<1> QED BY <1>1 DEF Lowest

LEMMA SourceDpiIn ==
    ASSUME NEW s \in Source, GoodSource(s), NEW d
    PROVE  SourceDpi(s, d) \in s.dpis
<1>1. s.dpis \in SUBSET Pipeline /\ s.dpis # {}
  BY DEF Source, GoodSource
<1> QED BY <1>1, LowestIn DEF SourceDpi

LEMMA Sized ==
    ASSUME NEW size \in Sizes, ~Unsized(size)
    PROVE  size \in (Nat \ {0}) \X (Nat \ {0})
<1>1. size = <<size[1], size[2]>> /\ size[1] \in Nat /\ size[2] \in Nat
  BY DEF Sizes
<1>2. size[1] # 0 /\ size[2] # 0
  BY SMT, <1>1 DEF Unsized
<1> QED BY <1>1, <1>2

\* A source of a document that was accepted is good.
LEMMA SourceRead ==
    ASSUME NEW e \in Element, NEW inherited \in ColorLists,
           SourceStatus(e, inherited) = "GOOD"
    PROVE  /\ ReadSource(e, inherited) \in Source
           /\ ReadSource(e, inherited).present => GoodSource(ReadSource(e, inherited))
<1>1. CASE e.supported # "true"
  <2>1. ReadSource(e, inherited) = NoSource
    BY <1>1 DEF ReadSource
  <2>2. <<0, 0>> \in Sizes /\ {} \in SUBSET Pipeline /\ {} \in SUBSET Modes
    BY DEF Sizes
  <2>3. NoSource \in Source /\ ~NoSource.present
    BY <2>2 DEF NoSource, Source
  <2> QED BY <2>1, <2>3
<1>2. CASE e.supported = "true"
  <2> DEFINE d == Resolutions(e)
             m == Colors(e, inherited)
  <2>1. ReadSource(e, inherited) =
          [present |-> TRUE, min |-> e.min, max |-> e.max, dpis |-> d, modes |-> m]
    BY <1>2 DEF ReadSource
  <2>2. e.min \in Sizes /\ e.max \in Sizes
    BY DEF Element
  <2>3. d \in SUBSET Pipeline /\ m \in SUBSET Modes
    BY DEF Resolutions, Colors
  <2>4. ~Unsized(e.min) /\ ~Unsized(e.max) /\ d # {}
    BY <1>2 DEF SourceStatus
  <2>5. /\ e.min \in (Nat \ {0}) \X (Nat \ {0})
        /\ e.max \in (Nat \ {0}) \X (Nat \ {0})
    BY <2>2, <2>4, Sized
  <2> HIDE DEF d, m
  <2> DEFINE s == [present |-> TRUE, min |-> e.min, max |-> e.max, dpis |-> d, modes |-> m]
  <2>6. s \in Source
    BY <2>2, <2>3 DEF Source
  <2>7. GoodSource(s)
    BY <2>4, <2>5 DEF GoodSource
  <2> QED BY <2>1, <2>6, <2>7
<1> QED BY <1>1, <1>2

\* So are both sources of the device, and some mode is common to those it has.
LEMMA DocumentRead ==
    ASSUME NEW doc \in Documents, ParseStatus(doc) = "GOOD"
    PROVE  LET c == Capabilities(doc) IN
           /\ c \in [platen : Source, adf : Source]
           /\ c.platen.present => GoodSource(c.platen)
           /\ c.adf.present => GoodSource(c.adf)
           /\ c.platen.present \/ c.adf.present
           /\ CommonModes(c) # {} /\ CommonModes(c) \subseteq Modes
<1> DEFINE c == Capabilities(doc)
           i == Inherited(doc)
<1>1. doc.platen \in Element /\ doc.adf \in Element /\ i \in ColorLists
  <2>1. doc \in Document
    BY TicketAssumption
  <2>2. doc.platen \in Element /\ doc.adf \in Element /\ doc.colors \in ColorLists
    BY <2>1 DEF Document
  <2>3. doc.platen.colors \in ColorLists
    BY <2>2 DEF Element
  <2> QED BY <2>2, <2>3 DEF Inherited
<1> HIDE DEF i
<1>2. /\ SourceStatus(doc.platen, i) = "GOOD" /\ SourceStatus(doc.adf, i) = "GOOD"
      /\ CommonModes(c) # {}
  BY DEF ParseStatus, i
<1>3. c = [platen |-> ReadSource(doc.platen, i), adf |-> ReadSource(doc.adf, i)]
  BY DEF Capabilities, i
<1> HIDE DEF c
<1>4. /\ c \in [platen : Source, adf : Source]
      /\ c.platen.present => GoodSource(c.platen)
      /\ c.adf.present => GoodSource(c.adf)
  BY <1>1, <1>2, <1>3, SourceRead
<1>5. c.platen.modes \subseteq Modes /\ c.adf.modes \subseteq Modes
  BY <1>4 DEF Source
<1>6. CommonModes(c) \subseteq Modes
  BY <1>5 DEF CommonModes
<1>7. c.platen.present \/ c.adf.present
  <2>1. ASSUME ~c.adf.present, ~c.platen.present
        PROVE  c.adf = NoSource
    <3>1. doc.adf.supported # "true"
      BY <1>3, <2>1 DEF ReadSource
    <3> QED BY <1>3, <3>1 DEF ReadSource
  <2> QED BY <1>2, <2>1 DEF CommonModes, NoSource
<1> QED BY <1>2, <1>4, <1>6, <1>7 DEF c
-----------------------------------------------------------------------------
(* Areas *)

LEMMA GoodParts ==
    ASSUME NEW s \in Source, GoodSource(s)
    PROVE  /\ s.min[1] \in Nat \ {0} /\ s.min[2] \in Nat \ {0}
           /\ s.max[1] \in Nat \ {0} /\ s.max[2] \in Nat \ {0}
           /\ s.dpis \in SUBSET Pipeline /\ s.modes \in SUBSET Modes
BY DEF GoodSource, Source

LEMMA Ranges ==
    ASSUME NEW t \in Nat
    PROVE  ThouToFixed(t) \in Nat
<1>1. Truncated(t, ThouToFixed(t))
  BY ThouBounds
<1> QED BY SMT, <1>1 DEF Truncated

LEMMA OrdinaryHeightOK ==
    ASSUME NEW max \in Nat \ {0}, NEW i
    PROVE  OrdinaryOr(max, i) \in 1..max
BY SMT DEF OrdinaryOr, OrdinaryHeight, Least

\* The area an option handler sets by itself lies in the range of the source.
LEMMA DefaultInRange ==
    ASSUME NEW s \in Source, GoodSource(s), NEW i \in Inputs, NEW top
    PROVE  /\ RangeX(s) \in Nat /\ RangeY(s) \in Nat
           /\ DefaultBottom(s, i, top) \in Nat /\ DefaultBottom(s, i, top) <= RangeY(s)
           /\ DefaultRegion(s, i) \in Region /\ InRange(DefaultRegion(s, i), s)
<1>1. RangeX(s) \in Nat /\ RangeY(s) \in Nat
  <2>1. s.max[1] \in Nat /\ s.max[2] \in Nat
    BY GoodParts
  <2> QED BY <2>1, Ranges DEF RangeX, RangeY
<1>2. \A t : DefaultBottom(s, i, t) \in Nat /\ DefaultBottom(s, i, t) <= RangeY(s)
  <2> TAKE t
  <2> DEFINE a == ThouToFixed(OrdinaryHeight)
             y == RangeY(s)
  <2>1. a \in Nat
    BY SMT, Ranges DEF OrdinaryHeight
  <2>2. y \in Nat
    BY <1>1
  <2>3. DefaultBottom(s, i, t) = y \/ DefaultBottom(s, i, t) = Least(y, a)
    BY DEF DefaultBottom
  <2> HIDE DEF a, y
  <2>4. Least(y, a) \in Nat /\ Least(y, a) <= y /\ y <= y
    BY SMT, <2>1, <2>2 DEF Least
  <2> QED BY <2>2, <2>3, <2>4 DEF y
<1> DEFINE r == DefaultRegion(s, i)
<1>3. r = [left |-> 0, top |-> 0, right |-> RangeX(s), bottom |-> DefaultBottom(s, i, 0)]
  BY DEF DefaultRegion
<1> HIDE DEF r
<1>4. r \in Region
  BY <1>1, <1>2, <1>3 DEF Region
<1>5. /\ r.left <= RangeX(s) /\ r.right <= RangeX(s)
      /\ r.top <= RangeY(s) /\ r.bottom <= RangeY(s)
  BY SMT, <1>1, <1>2, <1>3
<1> QED BY <1>1, <1>2, <1>4, <1>5 DEF InRange, r

\* Both axes of a ticket.
LEMMA BothAxes ==
    ASSUME NEW s \in Source, GoodSource(s), NEW i \in Inputs,
           NEW r \in Region, InRange(r, s),
           NEW ex, ex = ExtentX(r, s), NEW ey, ey = ExtentY(r, s),
           NEW w, w = Clipped(SizeOr(ex, s.max[1]), s.max[1], Offset(ex)),
           NEW h, h = Clipped(SizeOr(ey, OrdinaryOr(s.max[2], i)), s.max[2], Offset(ey))
    PROVE  /\ Offset(ex) \in Nat /\ Offset(ex) < s.max[1] /\ w \in Nat
           /\ SizeOr(ex, s.max[1]) \in Nat
           /\ Covers(Offset(ex), w, ex, s.max[1], s.max[1])
           /\ Offset(ey) \in Nat /\ Offset(ey) < s.max[2] /\ h \in Nat
           /\ SizeOr(ey, OrdinaryOr(s.max[2], i)) \in Nat
           /\ Covers(Offset(ey), h, ey, s.max[2], OrdinaryOr(s.max[2], i))
<1>1. /\ s.min[1] \in Nat \ {0} /\ s.min[2] \in Nat \ {0}
      /\ s.max[1] \in Nat \ {0} /\ s.max[2] \in Nat \ {0}
  BY GoodParts
<1>2. s.max[1] \in 1..s.max[1] /\ OrdinaryOr(s.max[2], i) \in 1..s.max[2]
  BY SMT, <1>1, OrdinaryHeightOK
<1>3. r.left \in Nat /\ r.right \in Nat /\ r.top \in Nat /\ r.bottom \in Nat
  BY DEF Region
<1>4. /\ r.left <= ThouToFixed(s.max[1]) /\ r.right <= ThouToFixed(s.max[1])
      /\ r.top <= ThouToFixed(s.max[2]) /\ r.bottom <= ThouToFixed(s.max[2])
  BY DEF InRange, RangeX, RangeY
<1>5. /\ ex = Extent(r.left, r.right, ThouToFixed(s.min[1]), FALSE)
      /\ ey = Extent(r.top, r.bottom, ThouToFixed(s.min[2]), TRUE)
  BY DEF ExtentX, ExtentY
<1>6. /\ Offset(ex) \in Nat /\ Offset(ex) < s.max[1] /\ w \in Nat
      /\ SizeOr(ex, s.max[1]) \in Nat
      /\ Covers(Offset(ex), w, ex, s.max[1], s.max[1])
  BY <1>1, <1>2, <1>3, <1>4, <1>5, AxisCovered
<1>7. /\ Offset(ey) \in Nat /\ Offset(ey) < s.max[2] /\ h \in Nat
      /\ SizeOr(ey, OrdinaryOr(s.max[2], i)) \in Nat
      /\ Covers(Offset(ey), h, ey, s.max[2], OrdinaryOr(s.max[2], i))
  BY <1>1, <1>2, <1>3, <1>4, <1>5, AxisCovered
<1> QED BY <1>6, <1>7
-----------------------------------------------------------------------------
(* The invariant *)

IInv == TicketTypeOK /\ Offered

LEMMA SelectedGood ==
    ASSUME IInv, Opened
    PROVE  /\ Selected \in Source /\ Selected.present /\ GoodSource(Selected)
           /\ InRange(region, Selected) /\ dpi \in Selected.dpis /\ mode \in Selected.modes
           /\ SourceDpi(Selected, dpi) = dpi
<1>1. input \in Inputs /\ caps \in [platen : Source, adf : Source]
  BY DEF IInv, TicketTypeOK
<1>2. \A i \in Inputs : SourceOf(caps, i) \in Source
  BY <1>1 DEF SourceOf
<1>3. /\ Selected.present /\ GoodSource(Selected)
      /\ InRange(region, Selected) /\ dpi \in Selected.dpis /\ mode \in CommonModes(caps)
  BY <1>1 DEF IInv, Offered, Selected
<1>4. mode \in Selected.modes
  BY <1>1, <1>3 DEF Selected, SourceOf, CommonModes, Inputs
<1> QED BY <1>1, <1>2, <1>3, <1>4 DEF Selected, SourceDpi

\* A ticket is well typed, clips what the options say and is never refused.
LEMMA TicketMade ==
    ASSUME IInv, Opened
    PROVE  /\ NewTicket \in Ticket
           /\ ~Refused
           /\ LET s == Selected IN
              /\ Covers(NewTicket.x, NewTicket.w, ExtentX(region, s), s.max[1], s.max[1])
              /\ Covers(NewTicket.y, NewTicket.h, ExtentY(region, s), s.max[2],
                        OrdinaryOr(s.max[2], input))
<1> DEFINE s == Selected
           ex == ExtentX(region, s)
           ey == ExtentY(region, s)
           w == Clipped(SizeOr(ex, s.max[1]), s.max[1], Offset(ex))
           h == Clipped(SizeOr(ey, OrdinaryOr(s.max[2], input)), s.max[2], Offset(ey))
<1>1. /\ s \in Source /\ s.present /\ GoodSource(s)
      /\ InRange(region, s) /\ dpi \in s.dpis /\ mode \in s.modes /\ SourceDpi(s, dpi) = dpi
  BY SelectedGood
<1>2. region \in Region /\ input \in Inputs
  BY DEF IInv, TicketTypeOK
<1>3. /\ Offset(ex) \in Nat /\ Offset(ex) < s.max[1] /\ w \in Nat
      /\ Covers(Offset(ex), w, ex, s.max[1], s.max[1])
      /\ Offset(ey) \in Nat /\ Offset(ey) < s.max[2] /\ h \in Nat
      /\ Covers(Offset(ey), h, ey, s.max[2], OrdinaryOr(s.max[2], input))
  BY <1>1, <1>2, BothAxes
<1>4. NewTicket = [input |-> input, mode |-> mode, dpi |-> SourceDpi(s, dpi),
                   x |-> Offset(ex), y |-> Offset(ey), w |-> w, h |-> h]
  BY DEF NewTicket
<1>5. s.dpis \subseteq Pipeline /\ s.modes \subseteq Modes
  BY <1>1, GoodParts
<1>6. s.max[1] \in Nat /\ s.max[2] \in Nat
  BY <1>1, GoodParts
<1>7. ~(Offset(ex) >= s.max[1]) /\ ~(Offset(ey) >= s.max[2])
  BY SMT, <1>3, <1>6
<1>8. ~Refused
  BY <1>1, <1>7 DEF Refused
<1> HIDE DEF w, h, ex, ey, s
<1>9. NewTicket \in Ticket
  BY <1>1, <1>2, <1>3, <1>4, <1>5 DEF Ticket
<1>10. NewTicket.x = Offset(ex) /\ NewTicket.w = w /\ NewTicket.y = Offset(ey) /\ NewTicket.h = h
  BY <1>4
<1>11. /\ Covers(NewTicket.x, NewTicket.w, ex, s.max[1], s.max[1])
       /\ Covers(NewTicket.y, NewTicket.h, ey, s.max[2], OrdinaryOr(s.max[2], input))
  BY <1>3, <1>10
<1> QED BY <1>8, <1>9, <1>11 DEF s, ex, ey

\* The numbers of the scanner are numbers.
LEMMA MeasuredOK ==
    ASSUME NEW t \in Ticket
    PROVE  Measured(t) \subseteq Nat \X Nat
<1> DEFINE n(size) == (size * t.dpi) \div 1000
<1>1. t.w \in Nat /\ t.h \in Nat /\ t.dpi \in Pipeline
  BY DEF Ticket
<1>2. ASSUME NEW size \in Nat
      PROVE  n(size) \in Nat
  BY SMT, <1>1 DEF Pipeline
<1>3. n(t.w) \in Nat /\ n(t.h) \in Nat
  BY <1>1, <1>2
<1>4. Measured(t) = {n(t.w) - k : k \in {x \in Shortfalls : x < n(t.w)}} \X ({n(t.h)} \ {0})
  BY DEF Measured
<1> HIDE DEF n
<1>5. \A k \in Shortfalls : k < n(t.w) => n(t.w) - k \in Nat
  BY SMT, <1>3, TicketAssumption
<1> QED BY <1>3, <1>4, <1>5

LEMMA OfferKept ==
    ASSUME IInv, caps' = caps, mode' = mode, input' = input, region' = region,
           dpi' = dpi \/ (Opened /\ dpi' = SourceDpi(Selected, dpi))
    PROVE  Offered' /\ dpi' = dpi
<1>1. dpi' = dpi
  BY SelectedGood
<1> QED BY <1>1 DEF IInv, Offered, Opened, Selected, SourceOf, InRange

LEMMA InitIInv == TicketInit => IInv
<1> SUFFICES ASSUME TicketInit PROVE IInv
  OBVIOUS
<1>1. NoSource \in Source /\ ~NoSource.present
  BY DEF NoSource, Source, Sizes
<1>2. caps \in [platen : Source, adf : Source] /\ ~Opened
  BY <1>1 DEF TicketInit, NoCaps, Opened
<1>3. dpi \in Pipeline /\ region \in Region /\ geometry \in Nat \X Nat
  BY SMT DEF TicketInit, Pipeline, NoRegion, Region, NoGeometry
<1>4. TicketTypeOK
  BY <1>2, <1>3 DEF TicketInit, TicketTypeOK, Modes, Inputs
<1>5. \A i \in Inputs : ~SourceOf(caps, i).present
  BY <1>1 DEF TicketInit, NoCaps, SourceOf
<1> QED BY <1>2, <1>4, <1>5 DEF IInv, Offered

LEMMA OpenStep ==
    ASSUME IInv, NEW doc \in Documents, Open(doc)
    PROVE  IInv'
<1>1. /\ caps' \in [platen : Source, adf : Source]
      /\ caps'.platen.present => GoodSource(caps'.platen)
      /\ caps'.adf.present => GoodSource(caps'.adf)
      /\ caps'.platen.present \/ caps'.adf.present
      /\ CommonModes(caps') # {} /\ CommonModes(caps') \subseteq Modes
  BY DocumentRead DEF Open
<1> DEFINE s == SourceOf(caps', input')
<1>2. /\ mode' = IF "Gray" \in CommonModes(caps') THEN "Gray" ELSE "Color"
      /\ input' = IF caps'.platen.present THEN "Platen" ELSE "ADF"
      /\ dpi' = SourceDpi(s, 0) /\ region' = DefaultRegion(s, input')
  BY DEF Open
<1>3. mode' \in CommonModes(caps') /\ mode' \in Modes /\ input' \in Inputs
  BY <1>1, <1>2 DEF Modes, Inputs
<1>4. s \in Source /\ s.present /\ GoodSource(s)
  BY <1>1, <1>2 DEF SourceOf
<1>5. dpi' \in s.dpis /\ s.dpis \subseteq Pipeline
  BY <1>2, <1>4, SourceDpiIn, GoodParts
<1>6. region' \in Region /\ InRange(region', s)
  BY <1>2, <1>3, <1>4, DefaultInRange
<1>7. \A i \in Inputs : SourceOf(caps', i).present => GoodSource(SourceOf(caps', i))
  BY <1>1 DEF SourceOf
<1>8. Selected' = s
  BY DEF Selected, SourceOf
<1>9. UNCHANGED <<scanning, job, pending, geometry>>
  BY DEF Open, held
<1>10. TicketTypeOK'
  BY <1>1, <1>3, <1>5, <1>6, <1>9 DEF IInv, TicketTypeOK
<1>11. Offered'
  BY <1>3, <1>4, <1>5, <1>6, <1>7, <1>8 DEF Offered, SourceOf, InRange
<1> QED BY <1>10, <1>11 DEF IInv

\* A call that sets options.
LEMMA OptionStep ==
    ASSUME IInv, UNCHANGED <<caps, scanning, held>>, Opened,
           mode' \in CommonModes(caps), input' \in Inputs,
           SourceOf(caps, input').present, dpi' \in SourceOf(caps, input').dpis,
           region' \in Region, InRange(region', SourceOf(caps, input'))
    PROVE  IInv'
<1> DEFINE s == SourceOf(caps, input')
<1>1. s \in Source /\ GoodSource(s)
  BY DEF IInv, TicketTypeOK, Offered, SourceOf
<1>2. dpi' \in Pipeline
  BY <1>1, GoodParts
<1>3. caps.platen.modes \subseteq Modes /\ caps.adf.modes \subseteq Modes
  BY DEF IInv, TicketTypeOK, Source
<1>4. mode' \in Modes
  BY <1>3 DEF CommonModes
<1>5. TicketTypeOK'
  BY <1>2, <1>4 DEF IInv, TicketTypeOK, held
<1>6. Selected' = s
  BY DEF Selected, SourceOf
<1>7. \A i \in Inputs : SourceOf(caps', i).present => GoodSource(SourceOf(caps', i))
  BY DEF IInv, Offered
<1>8. mode' \in CommonModes(caps') /\ InRange(region', Selected')
  BY <1>6
<1> HIDE DEF s
<1>9. Offered'
  BY <1>6, <1>7, <1>8 DEF Offered, InRange, s
<1> QED BY <1>5, <1>9 DEF IInv

LEMMA OptionsStep ==
    ASSUME IInv,
           \/ \E m \in Modes : SetMode(m)
           \/ \E i \in Inputs : SetInput(i)
           \/ \E d \in Pipeline : SetResolution(d)
           \/ \E r \in Regions : SetRegion(r)
           \/ AutoBottom
    PROVE  IInv'
<1>1. Opened
  BY DEF SetMode, SetInput, SetResolution, SetRegion, AutoBottom, Between
<1>2. /\ Selected \in Source /\ Selected.present /\ GoodSource(Selected)
      /\ InRange(region, Selected) /\ dpi \in Selected.dpis
  BY <1>1, SelectedGood
<1>3. mode \in CommonModes(caps) /\ input \in Inputs /\ region \in Region
  BY <1>1 DEF IInv, TicketTypeOK, Offered
<1>4. ASSUME NEW m \in Modes, SetMode(m) PROVE IInv'
  BY <1>1, <1>2, <1>3, <1>4, OptionStep DEF SetMode, Selected
<1>5. ASSUME NEW i \in Inputs, SetInput(i) PROVE IInv'
  <2> DEFINE s == SourceOf(caps, i)
  <2>1. s \in Source /\ s.present /\ GoodSource(s)
    BY <1>5 DEF IInv, TicketTypeOK, Offered, SetInput, SourceOf
  <2>2. input' = i /\ region' = DefaultRegion(s, i) /\ dpi' = SourceDpi(s, dpi)
    BY <1>5 DEF SetInput, DpiAfterSwitch
  <2>3. region' \in Region /\ InRange(region', s) /\ dpi' \in s.dpis
    BY <2>1, <2>2, DefaultInRange, SourceDpiIn
  <2>4. UNCHANGED <<caps, mode, scanning, held>>
    BY <1>5 DEF SetInput
  <2> QED BY <1>1, <1>3, <2>1, <2>2, <2>3, <2>4, OptionStep
<1>6. ASSUME NEW d \in Pipeline, SetResolution(d) PROVE IInv'
  BY <1>1, <1>2, <1>3, <1>6, OptionStep DEF SetResolution, Selected
<1>7. ASSUME NEW r \in Regions, SetRegion(r) PROVE IInv'
  <2>1. r \in Region
    BY TicketAssumption
  <2> QED BY <1>1, <1>2, <1>3, <1>7, <2>1, OptionStep DEF SetRegion, Selected
<1>8. ASSUME AutoBottom PROVE IInv'
  <2> DEFINE b == DefaultBottom(Selected, input, region.top)
  <2>1. b \in Nat /\ b <= RangeY(Selected)
    BY <1>2, <1>3, DefaultInRange
  <2>2. region' = [region EXCEPT !.bottom = b] /\ UNCHANGED <<caps, mode, input, dpi, scanning, held>>
    BY <1>8 DEF AutoBottom
  <2> HIDE DEF b
  <2>3. region' \in Region
    BY <1>3, <2>1, <2>2 DEF Region
  <2>4. /\ region'.left = region.left /\ region'.right = region.right
        /\ region'.top = region.top /\ region'.bottom = b
    BY <1>3, <2>2 DEF Region
  <2>5. InRange(region', Selected)
    BY <1>2, <2>1, <2>4 DEF InRange
  <2> QED BY <1>1, <1>2, <1>3, <2>2, <2>3, <2>5, OptionStep DEF Selected
<1> QED BY <1>4, <1>5, <1>6, <1>7, <1>8

\* A step of a job or of its end.
LEMMA JobStep ==
    ASSUME IInv, caps' = caps, mode' = mode, input' = input, region' = region,
           dpi' = dpi \/ (Opened /\ dpi' = SourceDpi(Selected, dpi)),
           scanning' \in BOOLEAN, pending' \in BOOLEAN,
           job' \in Ticket \cup {NoTicket}, geometry' \in Nat \X Nat
    PROVE  IInv'
<1>1. Offered' /\ dpi' = dpi
  BY OfferKept
<1>2. TicketTypeOK'
  BY <1>1 DEF IInv, TicketTypeOK
<1> QED BY <1>1, <1>2 DEF IInv

LEMMA JobsStep ==
    ASSUME IInv, NextPage \/ NewJob \/ NoNewJob \/ BadNumbers \/ EndPage \/ EndScan
    PROVE  IInv'
<1>0. /\ job \in Ticket \cup {NoTicket} /\ geometry \in Nat \X Nat
      /\ scanning \in BOOLEAN /\ pending \in BOOLEAN /\ NoGeometry \in Nat \X Nat
  BY DEF IInv, TicketTypeOK, NoGeometry
<1>1. ASSUME NextPage PROVE IInv'
  BY <1>0, <1>1, JobStep DEF NextPage, options, held
<1>2. ASSUME NewJob PROVE IInv'
  <2>1. Opened /\ NewTicket \in Ticket
    BY <1>2, TicketMade DEF NewJob, Between
  <2>2. geometry' \in Nat \X Nat
    BY <1>2, <2>1, MeasuredOK DEF NewJob
  <2> QED BY <1>2, <2>1, <2>2, JobStep DEF NewJob
<1>3. ASSUME NoNewJob PROVE IInv'
  <2>1. Opened /\ UNCHANGED <<caps, mode, input, region, scanning>> /\ geometry' = NoGeometry
    BY <1>3 DEF NoNewJob, Between
  <2>2. \/ pending' = TRUE /\ job' = job /\ dpi' = dpi
        \/ job' = NoTicket /\ pending' = FALSE /\ dpi' \in {dpi, SourceDpi(Selected, dpi)}
    BY <1>3 DEF NoNewJob
  <2> QED BY <1>0, <2>1, <2>2, JobStep
<1>4. ASSUME BadNumbers PROVE IInv'
  <2>1. Opened /\ NewTicket \in Ticket
    BY <1>4, TicketMade DEF BadNumbers, Between
  <2> QED BY <1>0, <1>4, <2>1, JobStep DEF BadNumbers
<1>5. ASSUME EndPage PROVE IInv'
  BY <1>0, <1>5, JobStep DEF EndPage, options, held
<1>6. ASSUME EndScan PROVE IInv'
  BY <1>0, <1>6, JobStep DEF EndScan, options
<1> QED BY <1>1, <1>2, <1>3, <1>4, <1>5, <1>6

LEMMA CloseStep ==
    ASSUME IInv, Close
    PROVE  IInv'
<1>1. NoSource \in Source /\ ~NoSource.present
  BY DEF NoSource, Source, Sizes
<1>2. caps' \in [platen : Source, adf : Source] /\ ~Opened'
  BY <1>1 DEF Close, NoCaps, Opened
<1>3. dpi' \in Pipeline /\ region' \in Region /\ geometry' \in Nat \X Nat
  BY SMT DEF Close, Pipeline, NoRegion, Region, NoGeometry
<1>4. TicketTypeOK'
  BY <1>2, <1>3 DEF Close, TicketTypeOK, Modes, Inputs
<1>5. \A i \in Inputs : ~SourceOf(caps', i).present
  BY <1>1 DEF Close, NoCaps, SourceOf
<1> QED BY <1>2, <1>4, <1>5 DEF IInv, Offered

LEMMA NextIInv == IInv /\ [TicketNext]_ticketVars => IInv'
<1> SUFFICES ASSUME IInv, [TicketNext]_ticketVars PROVE IInv'
  OBVIOUS
<1>1. ASSUME NEW doc \in Documents, Open(doc) PROVE IInv'
  BY <1>1, OpenStep
<1>2. ASSUME \/ \E m \in Modes : SetMode(m)
             \/ \E i \in Inputs : SetInput(i)
             \/ \E d \in Pipeline : SetResolution(d)
             \/ \E r \in Regions : SetRegion(r)
             \/ AutoBottom
      PROVE  IInv'
  BY <1>2, OptionsStep
<1>3. ASSUME NextPage \/ NewJob \/ NoNewJob \/ BadNumbers \/ EndPage \/ EndScan
      PROVE  IInv'
  BY <1>3, JobsStep
<1>4. ASSUME Close PROVE IInv'
  BY <1>4, CloseStep
<1>5. ASSUME UNCHANGED ticketVars PROVE IInv'
  <2>1. UNCHANGED <<caps, mode, input, dpi, region, scanning, job, pending, geometry>>
    BY <1>5 DEF ticketVars, options, held
  <2> QED BY <2>1, JobStep DEF IInv, TicketTypeOK
<1> QED BY <1>1, <1>2, <1>3, <1>4, <1>5 DEF TicketNext

LEMMA AlwaysIInv == TicketSpec => []IInv
<1> QED BY InitIInv, NextIInv, PTL DEF TicketSpec

-----------------------------------------------------------------------------
(* Theorems *)

\* Types: in particular every ticket has its numbers in range, and the capabilities are
\* those of a device with a source.
THEOREM TicketTypeCorrect == TicketSpec => []TicketTypeOK
<1>1. IInv => TicketTypeOK
  BY DEF IInv
<1> QED BY <1>1, AlwaysIInv, PTL

\* sane_start does not refuse what the options offered.
THEOREM OffersAccepted == TicketSpec => []OffersAreAccepted
<1>1. IInv => OffersAreAccepted
  BY SelectedGood, TicketMade DEF OffersAreAccepted
<1> QED BY <1>1, AlwaysIInv, PTL

\* Only NewJob and BadNumbers make a ticket, and they make NewTicket.
LEMMA TicketedIsNew ==
    ASSUME IInv, [TicketNext]_ticketVars, Ticketed
    PROVE  Opened /\ job' = NewTicket
<1>1. CASE NewJob
  BY <1>1 DEF NewJob, Between
<1>2. CASE BadNumbers
  BY <1>2 DEF BadNumbers, Between
<1>3. CASE ~NewJob /\ ~BadNumbers
  <2>1. job' = job \/ job' = NoTicket
    BY <1>3 DEF TicketNext, Open, SetMode, SetInput, SetResolution, SetRegion, AutoBottom,
                NextPage, NoNewJob, EndPage, EndScan, Close, held, ticketVars
  <2> QED BY <2>1 DEF Ticketed
<1> QED BY <1>1, <1>2, <1>3

\* The ticket covers the area asked for, for every source, area and resolution.
THEOREM RegionIsKept == TicketSpec => RegionKept
<1>1. ASSUME IInv, [TicketNext]_ticketVars, Ticketed
      PROVE  LET s == Selected IN
             /\ Covers(job'.x, job'.w, ExtentX(region, s), s.max[1], s.max[1])
             /\ Covers(job'.y, job'.h, ExtentY(region, s), s.max[2],
                       OrdinaryOr(s.max[2], input))
  <2>1. Opened /\ job' = NewTicket
    BY <1>1, TicketedIsNew
  <2> QED BY <1>1, <2>1, TicketMade
<1>2. IInv /\ [TicketNext]_ticketVars =>
        [Ticketed =>
           LET s == Selected IN
           /\ Covers(job'.x, job'.w, ExtentX(region, s), s.max[1], s.max[1])
           /\ Covers(job'.y, job'.h, ExtentY(region, s), s.max[2],
                     OrdinaryOr(s.max[2], input))]_ticketVars
  BY <1>1
<1> QED BY <1>2, AlwaysIInv, PTL DEF TicketSpec, RegionKept

LEMMA SameClipping ==
    ASSUME NEW size \in Nat, NEW max \in Nat, NEW offset \in Nat
    PROVE  ClippedEstimate(size, max, offset) = Clipped(size, max, offset)
BY SMT DEF ClippedEstimate, Clipped, Least

LEMMA SameLength ==
    ASSUME NEW max \in Nat, NEW i
    PROVE  EstimatedLength(max, i) = OrdinaryOr(max, i)
BY SMT DEF EstimatedLength, OrdinaryOr, OrdinaryHeight, Least

\* The two computations of the estimate and the ticket agree.
LEMMA EstimateIsTicket ==
    ASSUME IInv, Opened
    PROVE  Estimate = <<(NewTicket.w * NewTicket.dpi) \div 1000,
                        (NewTicket.h * NewTicket.dpi) \div 1000>>
<1> DEFINE s == Selected
           ex == ExtentX(region, s)
           ey == ExtentY(region, s)
           w == Clipped(SizeOr(ex, s.max[1]), s.max[1], Offset(ex))
           h == Clipped(SizeOr(ey, OrdinaryOr(s.max[2], input)), s.max[2], Offset(ey))
           d == SourceDpi(s, dpi)
<1>1. /\ s \in Source /\ GoodSource(s) /\ InRange(region, s)
      /\ region \in Region /\ input \in Inputs
  BY SelectedGood DEF IInv, TicketTypeOK
<1>2. /\ Offset(ex) \in Nat /\ SizeOr(ex, s.max[1]) \in Nat
      /\ Offset(ey) \in Nat /\ SizeOr(ey, OrdinaryOr(s.max[2], input)) \in Nat
  BY <1>1, BothAxes
<1>3. s.max[1] \in Nat /\ s.max[2] \in Nat
  BY <1>1, GoodParts
<1>4. ClippedEstimate(SizeOr(ex, s.max[1]), s.max[1], Offset(ex)) = w
  BY <1>2, <1>3, SameClipping
<1>5. ClippedEstimate(SizeOr(ey, EstimatedLength(s.max[2], input)), s.max[2], Offset(ey)) = h
  BY <1>2, <1>3, SameClipping, SameLength
<1>6. NewTicket.w = w /\ NewTicket.h = h /\ NewTicket.dpi = d
  BY DEF NewTicket
<1> HIDE DEF w, h
<1>7. Estimate = <<(w * d) \div 1000, (h * d) \div 1000>>
  BY <1>4, <1>5 DEF Estimate
<1> QED BY <1>6, <1>7

\* What is announced before the job is what the job asks for.
THEOREM AnnouncedRequested == TicketSpec => AnnouncedIsRequested
<1> DEFINE Agrees ==
      /\ Parameters.pixels = (job'.w * job'.dpi) \div 1000
      /\ Parameters.lines = (job'.h * job'.dpi) \div 1000
      /\ Parameters.bytes = Parameters.pixels * Channels(job'.mode)
<1>1. ASSUME IInv, [TicketNext]_ticketVars, Ticketed, geometry = NoGeometry
      PROVE  Agrees
  <2>1. Opened /\ job' = NewTicket
    BY <1>1, TicketedIsNew
  <2>2. Estimate = <<(job'.w * job'.dpi) \div 1000, (job'.h * job'.dpi) \div 1000>>
    BY <1>1, <2>1, EstimateIsTicket
  <2>3. Parameters = [pixels |-> Estimate[1], lines |-> Estimate[2],
                      bytes |-> Estimate[1] * Channels(mode)]
    BY <1>1 DEF Parameters
  <2>4. job'.mode = mode
    BY <2>1 DEF NewTicket
  <2> QED BY <2>2, <2>3, <2>4
<1>2. IInv /\ [TicketNext]_ticketVars =>
        [Ticketed /\ geometry = NoGeometry => Agrees]_ticketVars
  BY <1>1
<1> QED BY <1>2, AlwaysIInv, PTL DEF TicketSpec, AnnouncedIsRequested

-----------------------------------------------------------------------------
(* eSCL settings: one axis *)

\* l is the exact length of u three hundredths (2080768 / 375 each), truncated, and then
\* less than two units off.
Down(u, l) == l \in Nat /\ 375 * l <= 2080768 * u /\ 2080768 * u < 375 * l + 375
Read(u, l) == l \in Nat /\ 375 * l <= 2080768 * u /\ 2080768 * u < 375 * l + 750

LEMMA MillimetresBounds ==
    ASSUME NEW u \in Nat
    PROVE  Down(u, Millimetres(u))
<1> DEFINE q == (268 * u) \div 375
<1>1. q \in Nat /\ 375 * q <= 268 * u /\ 268 * u < 375 * q + 375
  BY SMT
<1>2. Millimetres(u) = 5548 * u + q
  BY SMT DEF Millimetres
<1> HIDE DEF q
<1> QED BY SMT, <1>1, <1>2 DEF Down

LEMMA ReadBounds ==
    ASSUME NEW u \in Nat, NEW l \in ReadBack(Millimetres(u))
    PROVE  Read(u, l)
<1> DEFINE f == Millimetres(u)
<1>1. Down(u, f)
  BY MillimetresBounds
<1>2. l \in Nat /\ (l = f \/ l = f - 1)
  BY DEF ReadBack
<1> HIDE DEF f
<1> QED BY SMT, <1>1, <1>2 DEF Down, Read

LEMMA PrintedBounds ==
    ASSUME NEW v \in Nat
    PROVE  /\ Precision(v) \in {12500, 1250, 125}
           /\ Printed(v) \in Nat
           /\ 8192 * Printed(v) <= Precision(v) * v + 4096
<1> DEFINE a == v \div 8192
           b == v % 8192
<1>1. a \in Nat /\ b \in 0..8191 /\ v = 8192 * a + b
  BY SMT
<1>2. Precision(v) \in {12500, 1250, 125}
  BY SMT DEF Precision
<1> HIDE DEF a, b
<1>3. ASSUME NEW p \in {12500, 1250, 125}
      PROVE  LET n == p * a + (p * b + 4096) \div 8192 IN
             n \in Nat /\ 8192 * n <= p * v + 4096
  <2> DEFINE c == (p * b + 4096) \div 8192
  <2>1. c \in Nat /\ 8192 * c <= p * b + 4096
    BY SMT, <1>1
  <2> HIDE DEF c
  <2>2. p * a + c \in Nat /\ 8192 * (p * a + c) <= p * v + 4096
    <3>1. CASE p = 12500
      BY SMT, <1>1, <2>1, <3>1
    <3>2. CASE p = 1250
      BY SMT, <1>1, <2>1, <3>2
    <3>3. CASE p = 125
      BY SMT, <1>1, <2>1, <3>3
    <3> QED BY <3>1, <3>2, <3>3
  <2> QED BY <2>2 DEF c
<1>4. Printed(v) = Precision(v) * a + (Precision(v) * b + 4096) \div 8192
  BY DEF Printed, a, b
<1> QED BY SMT, <1>2, <1>3, <1>4

\* The bridge never takes a source for longer than it is, although scanimage rounds what
\* it prints.
LEMMA UnitsWithin ==
    ASSUME NEW t \in Nat
    PROVE  Units(ThouToFixed(t)) \in Nat /\ 10 * Units(ThouToFixed(t)) <= 3 * t
<1> DEFINE v == ThouToFixed(t)
           p == Precision(v)
           n == Printed(v)
<1>1. Truncated(t, v)
  BY Zenon, ThouBounds
<1>0. v \in Nat
  BY SMT, <1>1 DEF Truncated
<1> HIDE DEF v
<1>2. p \in {12500, 1250, 125} /\ n \in Nat /\ 8192 * n <= p * v + 4096
  BY SMT, <1>0, PrintedBounds
<1>3. Units(v) = (1500 * n + 127 * (p \div 125)) \div (1016 * p)
  BY Zenon DEF Units
<1> HIDE DEF p, n
<1> DEFINE u == Units(v)
<1>4. u \in Nat /\ 10 * u <= 3 * t
  <2>1. CASE p = 12500
    <3>1. u = (1500 * n + 12700) \div 12700000
      BY SMT, <1>2, <1>3, <2>1
    <3> HIDE DEF u
    <3>2. u \in Nat /\ 12700000 * u <= 1500 * n + 12700
      BY SMT, <1>2, <3>1
    <3> QED BY SMT, <1>0, <1>1, <1>2, <2>1, <3>2 DEF Truncated
  <2>2. CASE p = 1250
    <3>1. u = (1500 * n + 1270) \div 1270000
      BY SMT, <1>2, <1>3, <2>2
    <3> HIDE DEF u
    <3>2. u \in Nat /\ 1270000 * u <= 1500 * n + 1270
      BY SMT, <1>2, <3>1
    <3> QED BY SMT, <1>0, <1>1, <1>2, <2>2, <3>2 DEF Truncated
  <2>3. CASE p = 125
    <3>1. u = (1500 * n + 127) \div 127000
      BY SMT, <1>2, <1>3, <2>3
    <3> HIDE DEF u
    <3>2. u \in Nat /\ 127000 * u <= 1500 * n + 127
      BY SMT, <1>2, <3>1
    <3> QED BY SMT, <1>0, <1>1, <1>2, <2>3, <3>2 DEF Truncated
  <2> QED BY <1>2, <2>1, <2>2, <2>3
<1> QED BY <1>4 DEF v

\* An axis the bridge has accepted lies in the range of the option.
LEMMA AxisFits ==
    ASSUME NEW max \in Nat, NEW x \in Nat, NEW w \in Nat, 10 * (x + w) <= 3 * max,
           NEW l \in ReadBack(Millimetres(x)), NEW d \in ReadBack(Millimetres(w))
    PROVE  /\ l \in Nat /\ d \in Nat
           /\ l <= ThouToFixed(max) /\ l + d <= ThouToFixed(max)
<1> DEFINE M == ThouToFixed(max)
<1>1. Read(x, l) /\ Read(w, d)
  BY Zenon, ReadBounds
<1>2. Truncated(max, M)
  BY Zenon, ThouBounds
<1> HIDE DEF M
<1>3. l \in Nat /\ d \in Nat /\ l <= M /\ l + d <= M
  BY SMT, <1>1, <1>2 DEF Truncated, Read
<1> QED BY <1>3 DEF M

\* It is long enough for the plugin, and is rounded to the nearest thousandths, which fit
\* the source.
LEMMA AxisAsked ==
    ASSUME NEW max \in Nat \ {0}, NEW min \in Nat \ {0}, NEW default \in Nat,
           NEW x \in Nat, NEW w \in Nat, 10 * (x + w) <= 3 * max, 10 * w > 3 * min,
           NEW l \in ReadBack(Millimetres(x)), NEW d \in ReadBack(Millimetres(w)),
           NEW strict \in BOOLEAN,
           NEW e, e = Extent(l, l + d, ThouToFixed(min), strict),
           NEW size, size = Clipped(SizeOr(e, default), max, Offset(e))
    PROVE  AxisAsRequested(Offset(e), size, x, w, min, max)
<1> DEFINE m == ThouToFixed(min)
           o == FixedToThou(l)
           s == FixedToThou(d)
<1>1. Read(x, l) /\ Read(w, d)
  BY Zenon, ReadBounds
<1>2. Truncated(min, m)
  BY Zenon, ThouBounds
<1>0. l \in Nat /\ d \in Nat
  BY SMT, <1>1 DEF Read
<1>3. Rounded(l, o) /\ Rounded(d, s)
  BY Zenon, <1>0, FixedBounds
<1>4. e = Extent(l, l + d, m, strict)
  OBVIOUS
<1> HIDE DEF m
<1>6. d > m /\ m \in Nat
  BY SMT, <1>1, <1>2 DEF Truncated, Read
<1>7. e = <<l, l + d>>
  BY SMT, <1>0, <1>4, <1>6 DEF Extent
<1>8. e[1] = l /\ e[2] - e[1] = d
  BY SMT, <1>0, <1>7
<1>9. Offset(e) = o /\ FixedToThou(e[2] - e[1]) = s
  BY <1>8 DEF Offset
<1> HIDE DEF o, s
<1>10. o \in Nat /\ s \in Nat
  BY SMT, <1>3 DEF Rounded
<1>11. 3 * o - 10 * x <= 1 /\ 3 * o - 10 * x >= -1
  BY SMT, <1>1, <1>3, <1>10 DEF Rounded, Read
<1>12. 3 * s - 10 * w <= 1 /\ 3 * s - 10 * w >= -1
  BY SMT, <1>1, <1>3, <1>10 DEF Rounded, Read
<1>13. s > 0 /\ min <= s /\ o + s <= max
  BY SMT, <1>10, <1>11, <1>12
<1>14. SizeOr(e, default) = s
  BY SMT, <1>9, <1>10, <1>13 DEF SizeOr
<1>15. size = s
  BY SMT, <1>9, <1>10, <1>13, <1>14 DEF Clipped, Least
<1>16. AxisAsRequested(o, s, x, w, min, max)
  BY SMT, <1>10, <1>11, <1>12, <1>13 DEF AxisAsRequested, NearestThou
<1> QED BY Zenon, <1>9, <1>15, <1>16

-----------------------------------------------------------------------------
(* eSCL settings: what the bridge knows and accepts *)

SizesOK(src) ==
    /\ src.width \in Nat /\ src.height \in Nat /\ src.defaultHeight \in Nat
    /\ src.minWidth \in Nat /\ src.minHeight \in Nat

\* The settings s fit one of the sources d.
Fits(s, d) ==
    /\ s.input \in Inputs /\ d[s.input] # NoEscl
    /\ s.dpi \in d[s.input].dpis
    /\ s.mode \in d[s.input].modes
    /\ s.x \in Nat /\ s.y \in Nat /\ s.w \in Nat /\ s.h \in Nat
    /\ d[s.input].minWidth <= s.w /\ s.x + s.w <= d[s.input].width
    /\ d[s.input].minHeight <= s.h /\ s.y + s.h <= d[s.input].height

LEMMA AcceptedFit ==
    ASSUME NEW req \in Requests, NEW d, \A i \in Inputs : SizesOK(d[i]),
           Accepted(req, d)
    PROVE  Fits(Parsed(req, d[SourceName(req)]), d)
<1> DEFINE i == SourceName(req)
           src == d[i]
           r == IF req.regions = <<>>
                THEN [units |-> "300ths", x |-> 0, y |-> 0, w |-> src.width,
                      h |-> src.defaultHeight]
                ELSE req.regions[1]
           s == Parsed(req, src)
<1>1. i \in Inputs /\ src # NoEscl
  BY DEF Accepted
<1>2. SizesOK(src)
  BY <1>1
<1>3. r.x \in Int /\ r.y \in Int /\ r.w \in Int /\ r.h \in Int
  <2>1. CASE req.regions = <<>>
    BY SMT, <1>2, <2>1 DEF SizesOK
  <2>2. CASE req.regions # <<>>
    <3>1. req.regions \in Seq(Area300)
      BY SettingsAssumption DEF Request
    <3>2. req.regions[1] \in Area300
      BY SMT, <2>2, <3>1
    <3> QED BY <2>2, <3>2 DEF Area300
  <2> QED BY <2>1, <2>2
<1>4. s.input = i /\ s.x = r.x /\ s.y = r.y /\ s.w = r.w /\ s.h = r.h
  BY DEF Parsed
<1>5. /\ s.dpi \in src.dpis /\ s.mode \in src.modes
      /\ Within(s.x, s.w, src.minWidth, src.width) /\ Within(s.y, s.h, src.minHeight, src.height)
  BY DEF Accepted
<1> HIDE DEF s, r, src, i
<1>6. /\ s.x \in Nat /\ s.w \in Nat /\ src.minWidth <= s.w /\ s.x + s.w <= src.width
  BY SMT, <1>2, <1>3, <1>4, <1>5 DEF Within, SizesOK
<1>7. /\ s.y \in Nat /\ s.h \in Nat /\ src.minHeight <= s.h /\ s.y + s.h <= src.height
  BY SMT, <1>2, <1>3, <1>4, <1>5 DEF Within, SizesOK
<1>8. d[s.input] = src
  BY <1>4 DEF src
<1> QED BY <1>1, <1>4, <1>5, <1>6, <1>7, <1>8 DEF Fits, s, src, i

LEMMA NoSizes == SizesOK(NoEscl)
BY SMT DEF SizesOK, NoEscl

\* A source scanimage lists, in the bridge's words.
LEMMA ListedSource ==
    ASSUME NEW doc \in Documents, ParseStatus(doc) = "GOOD", NEW i \in Inputs,
           SourceOf(Capabilities(doc), i).present
    PROVE  LET c == Capabilities(doc)  s == SourceOf(c, i)  src == Listed(c, i) IN
           /\ s \in Source /\ GoodSource(s)
           /\ SizesOK(src)
           /\ 10 * src.width <= 3 * s.max[1] /\ 10 * src.height <= 3 * s.max[2]
           /\ 10 * src.minWidth > 3 * s.min[1] /\ 10 * src.minHeight > 3 * s.min[2]
           /\ src.dpis = s.dpis
           /\ src.modes = CommonModes(c)
<1> DEFINE c == Capabilities(doc)
           s == SourceOf(c, i)
           src == Listed(c, i)
<1>1. /\ c \in [platen : Source, adf : Source]
      /\ c.platen.present => GoodSource(c.platen)
      /\ c.adf.present => GoodSource(c.adf)
      /\ CommonModes(c) # {} /\ CommonModes(c) \subseteq Modes
  BY DocumentRead
<1>2. s \in Source /\ GoodSource(s)
  BY <1>1 DEF SourceOf
<1>3. s.max[1] \in Nat /\ s.max[2] \in Nat /\ s.min[1] \in Nat /\ s.min[2] \in Nat
  BY <1>2, GoodParts
<1> DEFINE m == CommonModes(c)
<1>4. /\ src.width = Units(ThouToFixed(s.max[1])) /\ src.height = Units(ThouToFixed(s.max[2]))
      /\ src.defaultHeight = Units(DefaultBottom(s, i, 0))
      /\ src.minWidth = Minimum(s.min[1]) /\ src.minHeight = Minimum(s.min[2])
      /\ src.dpis = s.dpis /\ src.modes = m
  BY Zenon DEF Listed, RangeX, RangeY
<1>5. m # {} /\ m \subseteq Modes
  BY <1>1
<1>6. DefaultBottom(s, i, 0) = ThouToFixed(s.max[2])
        \/ DefaultBottom(s, i, 0) = ThouToFixed(OrdinaryHeight)
  BY Zenon DEF DefaultBottom, RangeY, Least
<1> HIDE DEF s, src, c, m
<1>7. OrdinaryHeight \in Nat
  BY SMT DEF OrdinaryHeight
<1>8. /\ src.width \in Nat /\ src.height \in Nat /\ src.defaultHeight \in Nat
      /\ 10 * src.width <= 3 * s.max[1] /\ 10 * src.height <= 3 * s.max[2]
  BY Zenon, <1>3, <1>4, <1>6, <1>7, UnitsWithin
<1>9. ASSUME NEW t \in Nat
      PROVE  Minimum(t) \in Nat /\ 10 * Minimum(t) > 3 * t
  BY SMT DEF Minimum
<1>10. /\ src.minWidth \in Nat /\ src.minHeight \in Nat
       /\ 10 * src.minWidth > 3 * s.min[1] /\ 10 * src.minHeight > 3 * s.min[2]
  BY <1>3, <1>4, <1>9
<1>11. SizesOK(src)
  BY <1>8, <1>10 DEF SizesOK
<1> QED BY <1>2, <1>4, <1>8, <1>10, <1>11 DEF s, src, c, m

LEMMA UsbSizes ==
    ASSUME NEW doc \in Documents, ParseStatus(doc) = "GOOD", NEW i \in Inputs
    PROVE  SizesOK(UsbDevice(Capabilities(doc))[i])
<1>1. UsbDevice(Capabilities(doc))[i] =
        IF SourceOf(Capabilities(doc), i).present THEN Listed(Capabilities(doc), i) ELSE NoEscl
  BY DEF UsbDevice
<1> QED BY <1>1, ListedSource, NoSizes

LEMMA WsdListedSource ==
    ASSUME NEW cfg \in Configurations, WsdUsable(cfg), NEW i \in Inputs,
           cfg.sources[i].present
    PROVE  LET s == cfg.sources[i]  src == WsdListed(s) IN
           /\ s.min[1] \in Nat /\ s.min[2] \in Nat /\ s.max[1] \in Nat /\ s.max[2] \in Nat
           /\ SizesOK(src)
           /\ 10 * src.width <= 3 * s.max[1] /\ 10 * src.height <= 3 * s.max[2]
           /\ 10 * src.minWidth >= 3 * s.min[1] /\ 10 * src.minHeight >= 3 * s.min[2]
           /\ src.dpis \subseteq WsdDpis
<1> DEFINE s == cfg.sources[i]
           src == WsdListed(s)
<1>1. ~Unsized(s.min) /\ ~Unsized(s.max)
  BY DEF WsdUsable
<1>2. s.min \in Int \X Int /\ s.max \in Int \X Int
  <2>1. cfg \in Configuration
    BY SettingsAssumption
  <2>2. s \in WsdSource
    BY <2>1 DEF Configuration
  <2> QED BY <2>2 DEF WsdSource
<1> DEFINE height == (3 * s.max[2]) \div 10
<1>3. /\ src.width = (3 * s.max[1]) \div 10 /\ src.height = height
      /\ src.defaultHeight = Least(height, 3507)
      /\ src.minWidth = WsdMinimum(s.min[1]) /\ src.minHeight = WsdMinimum(s.min[2])
      /\ src.dpis \subseteq WsdDpis
  BY Zenon DEF WsdListed
<1> HIDE DEF s, src
<1>4. s.min[1] \in Nat /\ s.min[2] \in Nat /\ s.max[1] \in Nat /\ s.max[2] \in Nat
  <2>1. \A j \in {1, 2} : s.min[j] \in 1..Limit /\ s.max[j] \in 1..Limit
    BY <1>1 DEF Unsized
  <2>2. \A n \in 1..Limit : n \in Nat
    BY SMT DEF Limit
  <2> QED BY Zenon, <2>1, <2>2
<1>5. /\ src.width \in Nat /\ 10 * src.width <= 3 * s.max[1]
      /\ height \in Nat /\ 10 * height <= 3 * s.max[2]
  BY SMT, <1>3, <1>4
<1>6. /\ src.minWidth \in Nat /\ 10 * src.minWidth >= 3 * s.min[1]
      /\ src.minHeight \in Nat /\ 10 * src.minHeight >= 3 * s.min[2]
  BY SMT, <1>3, <1>4 DEF WsdMinimum
<1> HIDE DEF height
<1>7. Least(height, 3507) \in Nat
  BY SMT, <1>5 DEF Least
<1>8. SizesOK(src)
  BY <1>3, <1>5, <1>6, <1>7 DEF SizesOK
<1> QED BY <1>3, <1>4, <1>5, <1>6, <1>8 DEF s, src

LEMMA WsdSizes ==
    ASSUME NEW cfg \in Configurations, WsdUsable(cfg), NEW i \in Inputs
    PROVE  SizesOK(WsdDevice(cfg)[i])
<1>1. WsdDevice(cfg)[i] =
        IF cfg.sources[i].present THEN WsdListed(cfg.sources[i]) ELSE NoEscl
  BY DEF WsdDevice
<1> QED BY <1>1, WsdListedSource, NoSizes

-----------------------------------------------------------------------------
(* eSCL settings: the invariant *)

Setting == {"source", "mode", "resolution", "area", "start"}

\* The bridge was started for a scanner it understands.
Understood ==
    \/ /\ scanner.kind = "usb" /\ scanner.says \in Documents
       /\ ParseStatus(scanner.says) = "GOOD"
       /\ device = UsbDevice(Capabilities(scanner.says))
    \/ /\ scanner.kind = "wsd" /\ scanner.says \in Configurations
       /\ WsdUsable(scanner.says)
       /\ device = WsdDevice(scanner.says)

\* The options that were set have kept their values.
Progress ==
    /\ step \in Setting \ {"source"} => input = settings.input
    /\ step \in {"resolution", "area", "start"} => mode = settings.mode
    /\ step \in {"area", "start"} => dpi = settings.dpi
    /\ step = "start" => region \in AskedRegions(settings)

Wired ==
    /\ step \in Steps
    /\ step # "off" => Understood
    /\ step \in {"off", "idle", "posted"} => caps = NoCaps
    /\ step \notin {"off", "idle"} => Fits(settings, device)
    /\ step \in Setting \cup {"scanning"} =>
         scanner.kind = "usb" /\ caps = Capabilities(scanner.says)
    /\ Progress

EInv == IInv /\ Wired

\* While scanimage sets options: the source of the settings is the one the bridge has
\* listed.
LEMMA SettingSource ==
    ASSUME EInv, step \in Setting
    PROVE  LET s == SourceOf(caps, settings.input) IN
           /\ Opened /\ settings.input \in Inputs
           /\ s \in Source /\ s.present /\ GoodSource(s)
           /\ settings.mode \in CommonModes(caps) /\ settings.dpi \in s.dpis
           /\ settings.x \in Nat /\ settings.y \in Nat /\ settings.w \in Nat /\ settings.h \in Nat
           /\ 10 * (settings.x + settings.w) <= 3 * s.max[1] /\ 10 * settings.w > 3 * s.min[1]
           /\ 10 * (settings.y + settings.h) <= 3 * s.max[2] /\ 10 * settings.h > 3 * s.min[2]
<1> DEFINE doc == scanner.says
           i == settings.input
           s == SourceOf(caps, i)
           src == device[i]
<1>1. /\ scanner.kind = "usb" /\ caps = Capabilities(doc) /\ Understood
      /\ Fits(settings, device)
  BY DEF EInv, Wired, Setting
<1>2. doc \in Documents /\ ParseStatus(doc) = "GOOD" /\ device = UsbDevice(caps)
  BY <1>1 DEF Understood
<1>3. i \in Inputs /\ src # NoEscl
  BY <1>1 DEF Fits
<1>4. s.present /\ src = Listed(caps, i)
  BY <1>2, <1>3 DEF UsbDevice
<1>5. /\ s \in Source /\ GoodSource(s)
      /\ SizesOK(src)
      /\ 10 * src.width <= 3 * s.max[1] /\ 10 * src.height <= 3 * s.max[2]
      /\ 10 * src.minWidth > 3 * s.min[1] /\ 10 * src.minHeight > 3 * s.min[2]
      /\ src.dpis = s.dpis
      /\ src.modes = CommonModes(caps)
  BY <1>1, <1>2, <1>3, <1>4, ListedSource
<1>6. Opened
  BY <1>1, <1>2, DocumentRead DEF Opened, NoCaps, NoSource
<1>7. /\ settings.dpi \in src.dpis
      /\ settings.mode \in src.modes
      /\ settings.x \in Nat /\ settings.y \in Nat /\ settings.w \in Nat /\ settings.h \in Nat
      /\ src.minWidth <= settings.w /\ settings.x + settings.w <= src.width
      /\ src.minHeight <= settings.h /\ settings.y + settings.h <= src.height
  BY <1>1 DEF Fits
<1>8. s.max[1] \in Nat /\ s.max[2] \in Nat /\ s.min[1] \in Nat /\ s.min[2] \in Nat
  BY <1>5, GoodParts
<1>9. settings.mode \in CommonModes(caps) /\ settings.dpi \in s.dpis
  BY <1>5, <1>7
<1> HIDE DEF s, src, i, doc
<1>10. /\ 10 * (settings.x + settings.w) <= 3 * s.max[1] /\ 10 * settings.w > 3 * s.min[1]
       /\ 10 * (settings.y + settings.h) <= 3 * s.max[2] /\ 10 * settings.h > 3 * s.min[2]
  BY SMT, <1>5, <1>7, <1>8 DEF SizesOK
<1> QED BY <1>3, <1>4, <1>5, <1>6, <1>7, <1>9, <1>10 DEF s, i
\* Every area scanimage may ask for lies in the range, whatever the decimals lose.
LEMMA AskedInRange ==
    ASSUME EInv, step \in Setting, NEW r \in AskedRegions(settings)
    PROVE  r \in Region /\ InRange(r, SourceOf(caps, settings.input))
<1> DEFINE s == SourceOf(caps, settings.input)
           x == settings.x  y == settings.y  w == settings.w  h == settings.h
<1>1. PICK l \in ReadBack(Millimetres(x)), t \in ReadBack(Millimetres(y)),
           d \in ReadBack(Millimetres(w)), b \in ReadBack(Millimetres(h)) :
             r = [left |-> l, top |-> t, right |-> l + d, bottom |-> t + b]
  BY DEF AskedRegions
<1>2. /\ s \in Source /\ GoodSource(s)
      /\ x \in Nat /\ y \in Nat /\ w \in Nat /\ h \in Nat
      /\ 10 * (x + w) <= 3 * s.max[1] /\ 10 * w > 3 * s.min[1]
      /\ 10 * (y + h) <= 3 * s.max[2] /\ 10 * h > 3 * s.min[2]
  BY SettingSource
<1>3. /\ s.min[1] \in Nat \ {0} /\ s.min[2] \in Nat \ {0}
      /\ s.max[1] \in Nat \ {0} /\ s.max[2] \in Nat \ {0}
  BY <1>2, GoodParts
<1> HIDE DEF s, x, y, w, h
<1>5. l \in Nat /\ d \in Nat /\ l <= ThouToFixed(s.max[1]) /\ l + d <= ThouToFixed(s.max[1])
  BY <1>2, <1>3, AxisFits
<1>6. t \in Nat /\ b \in Nat /\ t <= ThouToFixed(s.max[2]) /\ t + b <= ThouToFixed(s.max[2])
  BY <1>2, <1>3, AxisFits
<1>7. l + d \in Nat /\ t + b \in Nat
  BY SMT, <1>5, <1>6
<1>8. r \in Region
  BY <1>1, <1>5, <1>6, <1>7 DEF Region
<1>9. r.left = l /\ r.top = t /\ r.right = l + d /\ r.bottom = t + b
  BY <1>1
<1>10. InRange(r, s)
  BY <1>5, <1>6, <1>9 DEF InRange, RangeX, RangeY
<1> QED BY <1>8, <1>10 DEF s

\* The ticket made of such an area is the one the settings ask for.
LEMMA TicketOfSettings ==
    ASSUME EInv, step = "start"
    PROVE  AsRequested(NewTicket, settings, Selected)
<1> DEFINE s == Selected
           x == settings.x  y == settings.y  w == settings.w  h == settings.h
           ex == ExtentX(region, s)
           ey == ExtentY(region, s)
<1>1. input = settings.input /\ mode = settings.mode /\ dpi = settings.dpi
      /\ region \in AskedRegions(settings)
  BY DEF EInv, Wired, Progress, Setting
<1>2. s = SourceOf(caps, settings.input)
  BY <1>1 DEF Selected
<1>3. PICK l \in ReadBack(Millimetres(x)), t \in ReadBack(Millimetres(y)),
           d \in ReadBack(Millimetres(w)), b \in ReadBack(Millimetres(h)) :
             region = [left |-> l, top |-> t, right |-> l + d, bottom |-> t + b]
  BY <1>1 DEF AskedRegions
<1>4. region.left = l /\ region.top = t /\ region.right = l + d /\ region.bottom = t + b
  BY <1>3
<1>5. /\ Opened /\ s \in Source /\ GoodSource(s)
      /\ x \in Nat /\ y \in Nat /\ w \in Nat /\ h \in Nat
      /\ 10 * (x + w) <= 3 * s.max[1] /\ 10 * w > 3 * s.min[1]
      /\ 10 * (y + h) <= 3 * s.max[2] /\ 10 * h > 3 * s.min[2]
  BY <1>2, SettingSource DEF Setting
<1>6. /\ s.min[1] \in Nat \ {0} /\ s.min[2] \in Nat \ {0}
      /\ s.max[1] \in Nat \ {0} /\ s.max[2] \in Nat \ {0}
  BY <1>5, GoodParts
<1>7. SourceDpi(s, dpi) = dpi
  BY <1>5, SelectedGood DEF EInv
<1> DEFINE dw == s.max[1]
           dh == OrdinaryOr(s.max[2], input)
           tw == Clipped(SizeOr(ex, dw), s.max[1], Offset(ex))
           th == Clipped(SizeOr(ey, dh), s.max[2], Offset(ey))
<1>8. NewTicket = [input |-> input, mode |-> mode, dpi |-> dpi,
                   x |-> Offset(ex), y |-> Offset(ey), w |-> tw, h |-> th]
  BY <1>7 DEF NewTicket
<1>9. /\ ex = Extent(l, l + d, ThouToFixed(s.min[1]), FALSE)
      /\ ey = Extent(t, t + b, ThouToFixed(s.min[2]), TRUE)
  BY <1>4 DEF ExtentX, ExtentY
<1>10. dw \in Nat /\ dh \in Nat
  BY SMT, <1>6, OrdinaryHeightOK
<1> HIDE DEF s, x, y, w, h, ex, ey, dw, dh
<1>11. AxisAsRequested(Offset(ex), tw, x, w, s.min[1], s.max[1])
  BY Zenon, <1>5, <1>6, <1>9, <1>10, AxisAsked
<1>12. AxisAsRequested(Offset(ey), th, y, h, s.min[2], s.max[2])
  BY Zenon, <1>5, <1>6, <1>9, <1>10, AxisAsked
<1> HIDE DEF tw, th
<1>13. /\ NewTicket.input = input /\ NewTicket.mode = mode /\ NewTicket.dpi = dpi
       /\ NewTicket.x = Offset(ex) /\ NewTicket.y = Offset(ey)
       /\ NewTicket.w = tw /\ NewTicket.h = th
  BY <1>8
<1> QED BY <1>1, <1>11, <1>12, <1>13 DEF AsRequested, s, x, y, w, h

LEMMA InitEInv == TicketInit /\ SettingsInit => EInv
<1> SUFFICES ASSUME TicketInit, SettingsInit PROVE EInv
  OBVIOUS
<1>1. IInv
  BY InitIInv
<1>2. Wired
  BY DEF TicketInit, SettingsInit, Wired, Steps, Progress, Setting
<1> QED BY <1>1, <1>2 DEF EInv

LEMMA SameIInv ==
    ASSUME IInv, UNCHANGED ticketVars
    PROVE  IInv'
BY NextIInv

LEMMA StartStep ==
    ASSUME EInv, \/ \E doc \in Documents : StartUsb(doc)
                 \/ \E cfg \in Configurations : StartWsd(cfg)
    PROVE  EInv'
<1>1. step = "off" /\ step' = "idle" /\ UNCHANGED ticketVars
  BY DEF StartUsb, StartWsd
<1>2. IInv'
  BY <1>1, SameIInv DEF EInv
<1>3. caps' = NoCaps
  BY <1>1 DEF EInv, Wired, ticketVars
<1>4. Understood'
  <2>1. ASSUME NEW doc \in Documents, StartUsb(doc) PROVE Understood'
    <3>1. scanner' = [kind |-> "usb", says |-> doc] /\ ParseStatus(doc) = "GOOD"
          /\ device' = UsbDevice(Capabilities(doc))
      BY <2>1 DEF StartUsb
    <3> QED BY <3>1 DEF Understood
  <2>2. ASSUME NEW cfg \in Configurations, StartWsd(cfg) PROVE Understood'
    <3>1. scanner' = [kind |-> "wsd", says |-> cfg] /\ WsdUsable(cfg)
          /\ device' = WsdDevice(cfg)
      BY <2>2 DEF StartWsd
    <3> QED BY <3>1 DEF Understood
  <2> QED BY <2>1, <2>2
<1>5. Wired'
  BY <1>1, <1>3, <1>4 DEF Wired, Steps, Progress, Setting
<1> QED BY <1>2, <1>5 DEF EInv

LEMMA PostStep ==
    ASSUME EInv, NEW req \in Requests, Post(req)
    PROVE  EInv'
<1>1. /\ step = "idle" /\ step' = "posted" /\ UNCHANGED <<scanner, device, ticketVars>>
      /\ Accepted(req, device) /\ settings' = Parsed(req, device[SourceName(req)])
  BY DEF Post
<1>2. IInv'
  BY <1>1, SameIInv DEF EInv
<1>3. Understood /\ caps = NoCaps
  BY <1>1 DEF EInv, Wired
<1>4. \A i \in Inputs : SizesOK(device[i])
  BY <1>3, UsbSizes, WsdSizes DEF Understood
<1>5. Fits(settings', device)
  BY <1>1, <1>4, AcceptedFit
<1>6. Understood' /\ caps' = NoCaps
  BY <1>1, <1>3 DEF Understood, ticketVars
<1>7. Fits(settings, device)'
  BY <1>1, <1>5 DEF Fits
<1>8. Wired'
  BY <1>1, <1>6, <1>7 DEF Wired, Steps, Progress, Setting
<1> QED BY <1>2, <1>8 DEF EInv

LEMMA SendStep ==
    ASSUME EInv, SendWsd
    PROVE  EInv'
<1>1. step = "posted" /\ step' = "idle" /\ UNCHANGED <<scanner, device, ticketVars>>
  BY DEF SendWsd
<1>2. IInv'
  BY <1>1, SameIInv DEF EInv
<1>3. Understood' /\ caps' = NoCaps
  BY <1>1 DEF EInv, Wired, Understood, ticketVars
<1>4. Wired'
  BY <1>1, <1>3 DEF Wired, Steps, Progress, Setting
<1> QED BY <1>2, <1>4 DEF EInv

LEMMA OpenPluginStep ==
    ASSUME EInv, OpenPlugin
    PROVE  EInv'
<1>1. /\ step = "posted" /\ scanner.kind = "usb" /\ Open(scanner.says)
      /\ step' = "source" /\ UNCHANGED <<scanner, device, settings>>
  BY DEF OpenPlugin
<1>2. Understood /\ Fits(settings, device)
  BY <1>1 DEF EInv, Wired
<1>3. scanner.says \in Documents
  BY <1>1, <1>2 DEF Understood
<1>4. IInv'
  BY <1>1, <1>3, OpenStep DEF EInv
<1>5. caps' = Capabilities(scanner.says)
  BY <1>1 DEF Open
<1>6. Understood' /\ Fits(settings, device)'
  BY <1>1, <1>2 DEF Understood, Fits
<1>7. Wired'
  BY <1>1, <1>5, <1>6 DEF Wired, Steps, Progress, Setting
<1> QED BY <1>4, <1>7 DEF EInv

LEMMA SetOptionStep ==
    ASSUME EInv, SetOption
    PROVE  EInv'
<1>1. step \in Setting /\ step' \in Setting /\ UNCHANGED <<scanner, device, settings, caps>>
  BY DEF SetOption, Setting, SetInput, SetMode, SetResolution, SetRegion
<1>2. Understood' /\ Fits(settings, device)'
  BY <1>1 DEF EInv, Wired, Setting, Understood, Fits
<1>3. scanner'.kind = "usb" /\ caps' = Capabilities(scanner'.says)
  BY <1>1 DEF EInv, Wired
<1>4. /\ Opened /\ settings.input \in Inputs
      /\ settings.mode \in CommonModes(caps)
      /\ settings.dpi \in SourceOf(caps, settings.input).dpis
  BY <1>1, SettingSource
<1>5. IInv' /\ Progress'
  <2>0. IInv /\ Progress
    BY DEF EInv, Wired
  <2>1. CASE step = "source" /\ SetInput(settings.input) /\ step' = "mode"
    <3>1. IInv'
      BY <1>4, <2>0, <2>1, OptionsStep
    <3>2. input' = settings'.input
      BY <1>1, <2>1 DEF SetInput
    <3> QED BY <2>1, <3>1, <3>2 DEF Progress, Setting
  <2>2. CASE step = "mode" /\ SetMode(settings.mode) /\ step' = "resolution"
    <3>1. IInv' /\ input' = input /\ mode' = settings'.mode
      <4>1. settings.mode \in Modes
        BY <1>4, <2>0 DEF IInv, TicketTypeOK, CommonModes, Source
      <4>2. input' = input /\ mode' = settings'.mode
        BY <1>1, <2>2 DEF SetMode
      <4> QED BY <2>0, <2>2, <4>1, <4>2, OptionsStep
    <3> QED BY <1>1, <2>0, <2>2, <3>1 DEF Progress, Setting
  <2>3. CASE step = "resolution" /\ SetResolution(settings.dpi) /\ step' = "area"
    <3>1. IInv'
      <4>1. settings.dpi \in Pipeline
        BY <1>1, <1>4, SettingSource, GoodParts
      <4> QED BY <2>0, <2>3, <4>1, OptionsStep
    <3>2. input' = input /\ mode' = mode /\ dpi' = settings'.dpi
      BY <1>1, <2>3 DEF SetResolution
    <3> QED BY <1>1, <2>0, <2>3, <3>1, <3>2 DEF Progress, Setting
  <2>4. CASE /\ step = "area" /\ step' = "start"
             /\ \E r \in AskedRegions(settings) : SetRegion(r)
    <3>1. PICK r \in AskedRegions(settings) : SetRegion(r)
      BY <2>4
    <3>2. region' = r /\ UNCHANGED <<caps, mode, input, dpi, scanning, held>>
      BY <3>1 DEF SetRegion
    <3>3. input = settings.input /\ mode = settings.mode /\ dpi = settings.dpi
      BY <2>0, <2>4 DEF Progress, Setting
    <3>4. r \in Region /\ InRange(r, SourceOf(caps, settings.input))
      BY <1>1, AskedInRange
    <3>5. SourceOf(caps, settings.input).present
      BY <1>1, SettingSource
    <3>6. IInv'
      BY <1>4, <2>0, <3>2, <3>3, <3>4, <3>5, OptionStep
    <3> QED BY <1>1, <2>4, <3>2, <3>3, <3>6 DEF Progress, Setting
  <2> QED BY <2>1, <2>2, <2>3, <2>4 DEF SetOption
<1>6. Wired'
  BY <1>1, <1>2, <1>3, <1>5 DEF Wired, Steps, Setting
<1> QED BY <1>5, <1>6 DEF EInv

LEMMA RunStep ==
    ASSUME EInv, StartScan \/ ScanimageEnds
    PROVE  EInv'
<1>1. IInv /\ Understood /\ Fits(settings, device)
  BY DEF EInv, Wired, StartScan, ScanimageEnds
<1>2. CASE StartScan
  <2>1. /\ step = "start" /\ step' = "scanning" /\ UNCHANGED <<scanner, device, settings>>
        /\ NewJob \/ NoNewJob \/ BadNumbers
    BY <1>2 DEF StartScan
  <2>2. IInv'
    BY <1>1, <2>1, JobsStep
  <2>3. caps' = caps
    BY <2>1 DEF NewJob, NoNewJob, BadNumbers
  <2>4. Understood' /\ Fits(settings, device)'
    BY <1>1, <2>1 DEF Understood, Fits
  <2>5. scanner.kind = "usb" /\ caps = Capabilities(scanner.says)
    BY <2>1 DEF EInv, Wired, Setting
  <2>6. Wired'
    BY <2>1, <2>3, <2>4, <2>5 DEF Wired, Steps, Progress, Setting
  <2> QED BY <2>2, <2>6 DEF EInv
<1>3. CASE ScanimageEnds
  <2>1. step' = "idle" /\ Close /\ UNCHANGED <<scanner, device>>
    BY <1>3 DEF ScanimageEnds
  <2>2. IInv'
    BY <1>1, <2>1, CloseStep
  <2>3. caps' = NoCaps /\ Understood'
    BY <1>1, <2>1 DEF Close, Understood
  <2>4. Wired'
    BY <2>1, <2>3 DEF Wired, Steps, Progress, Setting
  <2> QED BY <2>2, <2>4 DEF EInv
<1> QED BY <1>2, <1>3

LEMMA NextEInv == EInv /\ [SettingsNext]_esclVars => EInv'
<1> SUFFICES ASSUME EInv, [SettingsNext]_esclVars PROVE EInv'
  OBVIOUS
<1>1. CASE UNCHANGED esclVars
  <2>1. IInv' /\ UNCHANGED <<caps, mode, input, dpi, region>> /\ UNCHANGED settingsVars
    BY <1>1, SameIInv DEF EInv, esclVars, ticketVars, options
  <2>2. Wired'
    BY <2>1 DEF EInv, Wired, Understood, Fits, Progress, settingsVars
  <2> QED BY <2>1, <2>2 DEF EInv
<1> QED BY <1>1, StartStep, PostStep, SendStep, OpenPluginStep, SetOptionStep, RunStep
        DEF SettingsNext

LEMMA AlwaysEInv == SettingsSpec => []EInv
<1> QED BY InitEInv, NextEInv, PTL DEF SettingsSpec

-----------------------------------------------------------------------------
(* eSCL settings: types *)

\* A USB scanner's sources in the bridge's words.
LEMMA UsbTyped ==
    ASSUME NEW doc \in Documents, ParseStatus(doc) = "GOOD"
    PROVE  UsbDevice(Capabilities(doc)) \in [Inputs -> EsclSource]
<1> DEFINE c == Capabilities(doc)
<1>0. NoEscl \in EsclSource
  BY SMT DEF NoEscl, EsclSource, Modes
<1>1. ASSUME NEW i \in Inputs, SourceOf(c, i).present
      PROVE  Listed(c, i) \in EsclSource
  <2> DEFINE src == Listed(c, i)
  <2>1. SizesOK(src) /\ src.dpis = SourceOf(c, i).dpis /\ src.modes = CommonModes(c)
        /\ GoodSource(SourceOf(c, i)) /\ SourceOf(c, i) \in Source
    BY <1>1, ListedSource
  <2>2. src.dpis \subseteq Nat
    <3>1. src.dpis \subseteq Pipeline
      BY <2>1, GoodParts
    <3> QED BY SMT, <3>1 DEF Pipeline
  <2>3. src.modes \subseteq Modes /\ src.mode \in Modes
    <3>1. src.mode = FirstMode(CommonModes(c))
      BY DEF Listed
    <3>2. CommonModes(c) \subseteq Modes
      BY DocumentRead
    <3> QED BY <2>1, <3>1, <3>2 DEF FirstMode, Modes
  <2>4. src = [width |-> src.width, height |-> src.height,
               defaultHeight |-> src.defaultHeight, minWidth |-> src.minWidth,
               minHeight |-> src.minHeight, dpis |-> src.dpis, modes |-> src.modes,
               mode |-> src.mode]
    BY DEF Listed
  <2> HIDE DEF src
  <2>5. src \in EsclSource
    BY <2>1, <2>2, <2>3, <2>4 DEF SizesOK, EsclSource
  <2> QED BY <2>5 DEF src
<1> QED BY <1>0, <1>1 DEF UsbDevice

\* Those of a network scanner.
LEMMA WsdTyped ==
    ASSUME NEW cfg \in Configurations, WsdUsable(cfg)
    PROVE  WsdDevice(cfg) \in [Inputs -> EsclSource]
<1>0. NoEscl \in EsclSource
  BY SMT DEF NoEscl, EsclSource, Modes
<1>1. ASSUME NEW i \in Inputs, cfg.sources[i].present
      PROVE  WsdListed(cfg.sources[i]) \in EsclSource
  <2> DEFINE s == cfg.sources[i]
             src == WsdListed(s)
  <2>1. SizesOK(src) /\ src.dpis \subseteq WsdDpis
    BY <1>1, WsdListedSource
  <2>2. src.dpis \subseteq Nat
    BY SMT, <2>1 DEF WsdDpis
  <2>3. src.modes \subseteq Modes /\ src.mode \in Modes
    <3>1. src.modes = WsdModes(s) /\ src.mode = WsdFirstMode(s)
      BY DEF WsdListed
    <3> HIDE DEF src, s
    <3> QED BY <3>1 DEF WsdModes, WsdFirstMode, Modes
  <2>4. src = [width |-> src.width, height |-> src.height,
               defaultHeight |-> src.defaultHeight, minWidth |-> src.minWidth,
               minHeight |-> src.minHeight, dpis |-> src.dpis, modes |-> src.modes,
               mode |-> src.mode]
    BY DEF WsdListed
  <2> HIDE DEF src
  <2>5. src \in EsclSource
    BY <2>1, <2>2, <2>3, <2>4 DEF SizesOK, EsclSource
  <2> QED BY <2>5 DEF src
<1> QED BY <1>0, <1>1 DEF WsdDevice

LEMMA TypedInit == TicketInit /\ SettingsInit => SettingsTypeOK
<1>1. NoEscl \in EsclSource
  BY SMT DEF NoEscl, EsclSource, Modes
<1> QED BY <1>1 DEF SettingsInit, SettingsTypeOK, Scanners, NoDevice, Steps

\* The settings of an accepted request.
LEMMA PostTyped ==
    ASSUME EInv, SettingsTypeOK, NEW req \in Requests, Post(req)
    PROVE  SettingsTypeOK'
<1>1. /\ step = "idle" /\ step' = "posted" /\ UNCHANGED <<scanner, device>>
      /\ Accepted(req, device) /\ settings' = Parsed(req, device[SourceName(req)])
  BY DEF Post
<1>2. Understood
  BY <1>1 DEF EInv, Wired
<1>3. \A i \in Inputs : SizesOK(device[i])
  BY <1>2, UsbSizes, WsdSizes DEF Understood
<1> DEFINE s == Parsed(req, device[SourceName(req)])
<1>4. Fits(s, device)
  BY <1>1, <1>3, AcceptedFit
<1>5. s = [input |-> s.input, mode |-> s.mode, dpi |-> s.dpi, x |-> s.x, y |-> s.y,
           w |-> s.w, h |-> s.h]
  BY DEF Parsed
<1>6. settings' = s
  BY <1>1
<1> HIDE DEF s
<1>7. s.input \in Inputs /\ device[s.input] \in EsclSource
  BY <1>4 DEF Fits, SettingsTypeOK
<1>8. s.mode \in Modes /\ s.dpi \in Nat
  BY <1>4, <1>7 DEF Fits, EsclSource
<1>9. s.x \in Nat /\ s.y \in Nat /\ s.w \in Nat /\ s.h \in Nat
  BY <1>4 DEF Fits
<1>10. s \in Settings
  BY <1>5, <1>7, <1>8, <1>9 DEF Settings
<1> QED BY <1>1, <1>6, <1>10 DEF SettingsTypeOK, Steps

LEMMA TypedNext == EInv /\ SettingsTypeOK /\ [SettingsNext]_esclVars => SettingsTypeOK'
<1> SUFFICES ASSUME EInv, SettingsTypeOK, [SettingsNext]_esclVars PROVE SettingsTypeOK'
  OBVIOUS
<1>1. ASSUME NEW doc \in Documents, StartUsb(doc) PROVE SettingsTypeOK'
  BY <1>1, UsbTyped DEF StartUsb, SettingsTypeOK, Scanners, Steps
<1>2. ASSUME NEW cfg \in Configurations, StartWsd(cfg) PROVE SettingsTypeOK'
  BY <1>2, WsdTyped DEF StartWsd, SettingsTypeOK, Scanners, Steps
<1>3. ASSUME SendWsd \/ ScanimageEnds PROVE SettingsTypeOK'
  BY <1>3 DEF SendWsd, ScanimageEnds, SettingsTypeOK, Steps
<1>4. ASSUME OpenPlugin \/ SetOption \/ StartScan PROVE SettingsTypeOK'
  BY <1>4 DEF OpenPlugin, SetOption, StartScan, SettingsTypeOK, Steps
<1>5. CASE UNCHANGED esclVars
  BY <1>5 DEF SettingsTypeOK, esclVars, settingsVars
<1> QED BY <1>1, <1>2, <1>3, <1>4, <1>5, PostTyped DEF SettingsNext

-----------------------------------------------------------------------------
(* eSCL settings: theorems *)

\* Types: what the bridge knows of any scanner, and the settings it made of any request.
THEOREM SettingsTypeCorrect == SettingsSpec => []SettingsTypeOK
<1> QED BY TypedInit, TypedNext, AlwaysEInv, PTL DEF SettingsSpec

\* Settings that parseSettings accepts pass scanimage and the plugin, for every scanner,
\* every request and every way the decimals of an argument are read.
THEOREM AcceptedScannable == SettingsSpec => []AcceptedIsScannable
<1>1. EInv => AcceptedIsScannable
  <2> SUFFICES ASSUME EInv PROVE AcceptedIsScannable
    OBVIOUS
  <2>1. CASE step \in Setting
    <3>1. /\ Opened /\ SourceOf(caps, settings.input).present
          /\ settings.mode \in CommonModes(caps)
          /\ settings.dpi \in SourceOf(caps, settings.input).dpis
      BY <2>1, SettingSource
    <3>2. \A r \in AskedRegions(settings) : InRange(r, SourceOf(caps, settings.input))
      BY <2>1, AskedInRange
    <3>3. ~Refused
      BY <3>1, TicketMade DEF EInv
    <3>4. step # "source" => Selected = SourceOf(caps, settings.input)
      BY <2>1 DEF EInv, Wired, Progress, Selected
    <3> QED BY <2>1, <3>1, <3>2, <3>3, <3>4 DEF AcceptedIsScannable, Setting
  <2>2. CASE step \notin Setting
    BY <2>2 DEF AcceptedIsScannable, Setting
  <2> QED BY <2>1, <2>2
<1> QED BY <1>1, AlwaysEInv, PTL

\* The ticket is the client's, to the nearest thousandth of an inch.
THEOREM TicketsAsRequested == SettingsSpec => TicketAsRequested
<1>1. ASSUME EInv, [SettingsNext]_esclVars, step = "start", Ticketed
      PROVE  AsRequested(job', settings, Selected)
  <2>1. job' = NewTicket
    <3>1. CASE StartScan
      <4>1. NewJob \/ NoNewJob \/ BadNumbers
        BY <3>1 DEF StartScan
      <4> QED BY <1>1, <4>1 DEF NewJob, NoNewJob, BadNumbers, Ticketed
    <3>2. CASE ~StartScan
      <4>1. job' = job
        BY <1>1, <3>2 DEF SettingsNext, StartUsb, StartWsd, Post, SendWsd, OpenPlugin, SetOption,
                          ScanimageEnds, esclVars, ticketVars, held
      <4> QED BY <1>1, <4>1 DEF Ticketed
    <3> QED BY <3>1, <3>2
  <2> QED BY <1>1, <2>1, TicketOfSettings
<1>2. EInv /\ [SettingsNext]_esclVars =>
        [step = "start" /\ Ticketed => AsRequested(job', settings, Selected)]_esclVars
  BY <1>1
<1> QED BY <1>2, AlwaysEInv, PTL DEF SettingsSpec, TicketAsRequested

\* One axis of a WSD ticket.
LEMMA WsdAxis ==
    ASSUME NEW x \in Nat, NEW w \in Nat, NEW min \in Nat, NEW max \in Nat,
           10 * (x + w) <= 3 * max, 10 * w >= 3 * min
    PROVE  /\ (10 * w) \div 3 \in Nat
           /\ min <= (10 * w) \div 3
           /\ (10 * x) \div 3 + (10 * w) \div 3 <= max
BY SMT

\* Its pixels are those that are expected, or one less.
Expects(e, n) == n \in Nat /\ e \in Nat /\ n <= e /\ e <= n + 1

LEMMA RasterNear ==
    ASSUME NEW w \in Nat, NEW d \in WsdDpis
    PROVE  Expects((w * d) \div 300, (((10 * w) \div 3) * d) \div 1000)
<1> DEFINE t == (10 * w) \div 3
           n == (t * d) \div 1000
           e == (w * d) \div 300
<1>1. t \in Nat /\ 3 * t <= 10 * w /\ 10 * w <= 3 * t + 2
  BY SMT
<1> HIDE DEF t
<1>2. n \in Nat /\ e \in Nat /\ n <= e /\ e <= n + 1
  <2>1. CASE d = 75
    BY SMT, <1>1, <2>1
  <2>2. CASE d = 150
    BY SMT, <1>1, <2>2
  <2>3. CASE d = 300
    BY SMT, <1>1, <2>3
  <2>4. CASE d = 600
    BY SMT, <1>1, <2>4
  <2> QED BY <2>1, <2>2, <2>3, <2>4 DEF WsdDpis
<1> QED BY <1>2 DEF Expects, t

\* A network scanner is asked for nothing it does not have, and its raster is taken.
THEOREM WsdTicketsFit == SettingsSpec => []WsdTicketFits
<1>1. EInv => WsdTicketFits
  <2> SUFFICES ASSUME EInv, scanner.kind = "wsd", step = "posted" PROVE WsdTicketFits
    BY DEF WsdTicketFits
  <2> DEFINE cfg == scanner.says
             i == settings.input
             s == cfg.sources[i]
             src == device[i]
             t == WsdTicket(settings)
             raster == Nominal(t)
             e == Expected(settings)
  <2>1. /\ cfg \in Configurations /\ WsdUsable(cfg) /\ device = WsdDevice(cfg)
        /\ Fits(settings, device)
    BY DEF EInv, Wired, Understood
  <2>2. i \in Inputs /\ src # NoEscl
    BY <2>1 DEF Fits
  <2>3. s.present /\ src = WsdListed(s)
    BY <2>1, <2>2 DEF WsdDevice
  <2>4. /\ s.min[1] \in Nat /\ s.min[2] \in Nat /\ s.max[1] \in Nat /\ s.max[2] \in Nat
        /\ SizesOK(src)
        /\ 10 * src.width <= 3 * s.max[1] /\ 10 * src.height <= 3 * s.max[2]
        /\ 10 * src.minWidth >= 3 * s.min[1] /\ 10 * src.minHeight >= 3 * s.min[2]
        /\ src.dpis \subseteq WsdDpis
    BY <2>1, <2>2, <2>3, WsdListedSource
  <2>5. /\ settings.dpi \in WsdDpis
        /\ settings.x \in Nat /\ settings.y \in Nat /\ settings.w \in Nat /\ settings.h \in Nat
        /\ src.minWidth <= settings.w /\ settings.x + settings.w <= src.width
        /\ src.minHeight <= settings.h /\ settings.y + settings.h <= src.height
    BY <2>1, <2>4 DEF Fits
  <2>6. /\ t.dpi = settings.dpi /\ t.x = (10 * settings.x) \div 3 /\ t.y = (10 * settings.y) \div 3
        /\ t.w = (10 * settings.w) \div 3 /\ t.h = (10 * settings.h) \div 3
    BY Zenon DEF WsdTicket
  <2>7. /\ raster[1] = (t.w * t.dpi) \div 1000 /\ raster[2] = (t.h * t.dpi) \div 1000
        /\ raster = <<raster[1], raster[2]>>
        /\ e[1] = (settings.w * settings.dpi) \div 300
        /\ e[2] = (settings.h * settings.dpi) \div 300
    BY SMT DEF Nominal, Expected
  <2> HIDE DEF t, raster, e, src, s, i, cfg
  <2>8. /\ 10 * (settings.x + settings.w) <= 3 * s.max[1] /\ 10 * settings.w >= 3 * s.min[1]
        /\ 10 * (settings.y + settings.h) <= 3 * s.max[2] /\ 10 * settings.h >= 3 * s.min[2]
    BY SMT, <2>4, <2>5 DEF SizesOK
  <2>9. /\ s.min[1] <= t.w /\ t.x + t.w <= s.max[1]
        /\ s.min[2] <= t.h /\ t.y + t.h <= s.max[2]
    <3>1. /\ s.min[1] <= (10 * settings.w) \div 3
          /\ (10 * settings.x) \div 3 + (10 * settings.w) \div 3 <= s.max[1]
      BY <2>4, <2>5, <2>8, WsdAxis
    <3>2. /\ s.min[2] <= (10 * settings.h) \div 3
          /\ (10 * settings.y) \div 3 + (10 * settings.h) \div 3 <= s.max[2]
      BY <2>4, <2>5, <2>8, WsdAxis
    <3> QED BY Zenon, <2>6, <3>1, <3>2
  <2>10. /\ raster[1] \in Nat /\ e[1] \in Nat /\ raster[1] <= e[1] /\ e[1] <= raster[1] + 1
         /\ raster[2] \in Nat /\ e[2] \in Nat /\ raster[2] <= e[2] /\ e[2] <= raster[2] + 1
    <3>1. /\ raster[1] = (((10 * settings.w) \div 3) * settings.dpi) \div 1000
          /\ raster[2] = (((10 * settings.h) \div 3) * settings.dpi) \div 1000
      BY <2>6, <2>7
    <3>2. /\ Expects((settings.w * settings.dpi) \div 300,
                     (((10 * settings.w) \div 3) * settings.dpi) \div 1000)
          /\ Expects((settings.h * settings.dpi) \div 300,
                     (((10 * settings.h) \div 3) * settings.dpi) \div 1000)
      BY <2>5, RasterNear
    <3>3. Expects(e[1], raster[1]) /\ Expects(e[2], raster[2])
      BY <2>7, <3>1, <3>2
    <3> QED BY <3>3 DEF Expects
  <2>11. ASSUME raster[1] >= 1, raster[2] >= 1
         PROVE  ~RasterRefused(raster, settings) /\ PageBounds(raster, settings) = raster
    <3> DEFINE a == e[1]
               b == e[2]
               m == raster[1]
               n == raster[2]
    <3>1. /\ m \in Nat /\ a \in Nat /\ m <= a /\ a <= m + 1 /\ m >= 1
          /\ n \in Nat /\ b \in Nat /\ n <= b /\ b <= n + 1 /\ n >= 1
      BY <2>10, <2>11
    <3>2. RasterRefused(raster, settings) <=>
            \/ a < 1 \/ b < 1
            \/ m < AtLeastOne(a - 63) \/ m > a + 63
            \/ n < 1 \/ n > b + 8
            \/ settings.input = "Platen" /\ n < AtLeastOne(b - 8)
      BY DEF RasterRefused, e
    <3>3. PageBounds(raster, settings) = <<Least(a, m), Least(b, n)>>
      BY DEF PageBounds, e
    <3>4. raster = <<m, n>>
      BY <2>7
    <3> HIDE DEF a, b, m, n
    <3>5. /\ ~(m < AtLeastOne(a - 63)) /\ ~(n < AtLeastOne(b - 8))
      BY SMT, <3>1 DEF AtLeastOne
    <3>6. ~(a < 1) /\ ~(b < 1) /\ ~(m > a + 63) /\ ~(n < 1) /\ ~(n > b + 8)
      BY SMT, <3>1
    <3>7. Least(a, m) = m /\ Least(b, n) = n
      BY SMT, <3>1 DEF Least
    <3> QED BY Zenon, <3>2, <3>3, <3>4, <3>5, <3>6, <3>7
  <2> QED BY <2>9, <2>11 DEF WsdTicketFits, t, raster, s, i, cfg
<1> QED BY <1>1, AlwaysEInv, PTL
=============================================================================
