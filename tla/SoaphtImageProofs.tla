------------------------- MODULE SoaphtImageProofs --------------------------
(***************************************************************************)
(* Proofs about replies and the buffer.  What a reply says is computed by  *)
(* recursive functions over its cells, from each cell to later ones:       *)
(* Downward is induction over them, RecursionExists that they are defined. *)
(***************************************************************************)
EXTENDS SoaphtImageProps, SequenceTheorems, WellFoundedInduction, TLAPS

-----------------------------------------------------------------------------
(* Recursion that goes forward through 1..N *)

LEMMA LeastElement ==
    ASSUME NEW T, T \subseteq Nat, T # {}
    PROVE  \E x \in T : \A y \in T : x <= y
<1> DEFINE R == OpToRel(<, Nat)
<1>1. IsWellFoundedOn(R, Nat)
  BY NatLessThanWellFounded
<1>2. \A x, y \in Nat : <<x, y>> \in R <=> x < y
  BY DEF OpToRel
<1> HIDE DEF R
<1>3. PICK x \in T : \A y \in T : ~(<<y, x>> \in R)
  BY <1>1, WFMin
<1>4. ASSUME NEW y \in T PROVE x <= y
  <2>1. x \in Nat /\ y \in Nat /\ ~(y < x)
    BY <1>2, <1>3
  <2> QED BY SMT, <2>1
<1> QED BY <1>4

LEMMA Downward ==
    ASSUME NEW N \in Nat, NEW Good,
           \A p \in 1..N : (\A q \in 1..N : p < q => q \in Good) => p \in Good
    PROVE  \A p \in 1..N : p \in Good
<1> SUFFICES ASSUME NEW bad \in 1..N, bad \notin Good PROVE FALSE
  OBVIOUS
<1> DEFINE T == {N - p : p \in {q \in 1..N : q \notin Good}}
<1>1. T \subseteq Nat /\ T # {}
  BY SMT
<1>2. PICK x \in T : \A y \in T : x <= y
  BY <1>1, LeastElement
<1>3. PICK p \in 1..N : p \notin Good /\ x = N - p
  OBVIOUS
<1>4. ASSUME NEW q \in 1..N, p < q PROVE q \in Good
  <2>1. N - q < x
    BY SMT, <1>3, <1>4
  <2>2. q \notin Good => N - q \in T
    OBVIOUS
  <2> HIDE DEF T
  <2> QED BY SMT, <1>1, <1>2, <2>1, <2>2
<1> QED BY <1>3, <1>4

\* There is a function that makes a step from what it is at next, where that is later.
Defined(N, S, base, next, step) ==
    \E f \in [1..N -> S] : \A p \in 1..N :
      f[p] = IF p < next[p] /\ next[p] <= N THEN step[<<p, f[next[p]]>>] ELSE base[p]

LEMMA RecursionExists ==
    ASSUME NEW N \in Nat, NEW S, NEW base \in [1..N -> S], NEW next \in [1..N -> Nat],
           NEW step \in [(1..N) \X S -> S]
    PROVE  Defined(N, S, base, next, step)
<1> DEFINE Value(f, p) ==
      IF p < next[p] /\ next[p] <= N THEN step[<<p, f[next[p]]>>] ELSE base[p]
    Good == {p \in 1..N : \E f \in [1..N -> S] : \A r \in p..N : f[r] = Value(f, r)}
<1>1. ASSUME NEW p \in 1..N, \A q \in 1..N : p < q => q \in Good
      PROVE  p \in Good
  <2>1. PICK f \in [1..N -> S] : \A r \in (p + 1)..N : f[r] = Value(f, r)
    <3>1. CASE p = N
      <4>1. (p + 1)..N = {}
        BY SMT, <3>1
      <4> QED BY <4>1
    <3>2. CASE p # N
      <4>1. p + 1 \in 1..N /\ p < p + 1
        BY SMT, <3>2
      <4> QED BY <1>1, <4>1
    <3> QED BY <3>1, <3>2
  <2>2. Value(f, p) \in S
    <3>1. CASE p < next[p] /\ next[p] <= N
      <4>1. next[p] \in 1..N
        BY SMT, <3>1
      <4> QED BY <3>1, <4>1
    <3>2. CASE ~(p < next[p] /\ next[p] <= N)
      BY <3>2
    <3> QED BY <3>1, <3>2
  <2> DEFINE g == [f EXCEPT ![p] = Value(f, p)]
  <2>3. g \in [1..N -> S]
    BY <2>2
  <2>4. ASSUME NEW r \in p..N PROVE g[r] = Value(g, r)
    <3>1. r \in 1..N
      BY SMT
    <3>2. Value(g, r) = Value(f, r)
      <4>1. CASE r < next[r] /\ next[r] <= N
        <5>1. next[r] \in 1..N /\ next[r] # p
          BY SMT, <3>1, <4>1
        <5> QED BY <4>1, <5>1
      <4>2. CASE ~(r < next[r] /\ next[r] <= N)
        BY <4>2
      <4> QED BY <4>1, <4>2
    <3>3. r = p \/ r \in (p + 1)..N
      BY SMT
    <3> HIDE DEF Value
    <3>4. g[r] = Value(f, r)
      BY <2>1, <3>1, <3>3
    <3> QED BY <3>2, <3>4
  <2> HIDE DEF Value, g
  <2> QED BY <2>3, <2>4
<1>2. \A p \in 1..N : p \in Good
  <2> HIDE DEF Good
  <2> QED BY <1>1, Downward
<1>3. CASE N = 0
  <2>1. 1..N = {}
    BY SMT, <1>3
  <2> QED BY <2>1 DEF Defined
<1>4. CASE N # 0
  <2>1. 1 \in 1..N
    BY SMT, <1>4
  <2>2. PICK f \in [1..N -> S] : \A r \in 1..N : f[r] = Value(f, r)
    BY <1>2, <2>1
  <2> QED BY <2>2 DEF Defined
<1> QED BY <1>3, <1>4
-----------------------------------------------------------------------------
(* DIME records *)

Found == [ok : BOOLEAN, data : Seq(Cell)]

LEMMA CellParts ==
    ASSUME NEW body \in Seq(Cell), NEW p \in 1..Len(body)
    PROVE  /\ body[p] \in Cell /\ body[p].kind \in Kinds /\ body[p].n \in Nat
           /\ body[p].more \in BOOLEAN
<1>1. body[p] \in Cell
  BY ElementOfSeq
<1> QED BY <1>1 DEF Cell

LEMMA RecordParts ==
    ASSUME NEW body \in Seq(Cell), NEW p \in 1..Len(body) + 1, RecordAt(body, p)
    PROVE  /\ p \in 1..Len(body) /\ RecordData(body, p) \in Seq(Cell)
           /\ NextRecord(body, p) \in 1..Len(body) + 1 /\ p < NextRecord(body, p)
<1>1. Len(body) \in Nat
  BY LenProperties
<1>2. p \in 1..Len(body)
  BY SMT, <1>1 DEF RecordAt
<1>3. body[p].n \in Nat /\ p + body[p].n <= Len(body)
  BY <1>2, CellParts DEF RecordAt
<1> DEFINE n == body[p].n
<1>4. n \in Nat /\ p + n <= Len(body)
  BY <1>3
<1>5. RecordData(body, p) = SubSeq(body, p + 1, p + n) /\ NextRecord(body, p) = p + n + 1
  BY DEF RecordData, NextRecord
<1> HIDE DEF n
<1>6. p + n + 1 \in 1..Len(body) + 1 /\ p < p + n + 1
  BY SMT, <1>1, <1>2, <1>4
<1>7. SubSeq(body, p + 1, p + n) \in Seq(Cell)
  <2>1. \A i \in (p + 1)..(p + n) : i \in 1..Len(body)
    BY SMT, <1>1, <1>2, <1>4
  <2>2. p + 1 \in Int /\ p + n \in Int
    BY SMT, <1>2, <1>4
  <2>3. \A i \in (p + 1)..(p + n) : body[i] \in Cell
    BY <2>1, ElementOfSeq
  <2> QED BY <2>1, <2>2, SubSeqProperties
<1> QED BY <1>2, <1>5, <1>6, <1>7

LEMMA NoRecordOK == NoRecord \in Found
<1>1. <<>> \in Seq(Cell)
  BY EmptySeq
<1> QED BY <1>1 DEF NoRecord, Found

LEMMA ContinuedDef ==
    ASSUME NEW body \in Seq(Cell)
    PROVE  \A p \in 1..Len(body) + 1 :
             /\ Continued(body)[p] =
                  IF ~RecordAt(body, p) THEN NoRecord
                  ELSE IF ~body[p].more THEN [ok |-> TRUE, data |-> RecordData(body, p)]
                  ELSE [Continued(body)[NextRecord(body, p)]
                          EXCEPT !.data = RecordData(body, p) \o @]
             /\ Continued(body)[p] \in Found
<1> DEFINE N == Len(body) + 1
           Equation(f, p) ==
             IF ~RecordAt(body, p) THEN NoRecord
             ELSE IF ~body[p].more THEN [ok |-> TRUE, data |-> RecordData(body, p)]
             ELSE [f[NextRecord(body, p)] EXCEPT !.data = RecordData(body, p) \o @]
           goes(p) == RecordAt(body, p) /\ body[p].more
           next == [p \in 1..N |-> IF goes(p) THEN NextRecord(body, p) ELSE 0]
           base == [p \in 1..N |-> IF RecordAt(body, p)
                                   THEN [ok |-> TRUE, data |-> RecordData(body, p)] ELSE NoRecord]
           step == [x \in (1..N) \X Found |->
                     IF RecordAt(body, x[1]) THEN [x[2] EXCEPT !.data = RecordData(body, x[1]) \o @]
                     ELSE x[2]]
<1>1. N \in Nat
  BY LenProperties
<1>2. ASSUME NEW p \in 1..N, RecordAt(body, p)
      PROVE  /\ RecordData(body, p) \in Seq(Cell)
             /\ NextRecord(body, p) \in 1..N /\ p < NextRecord(body, p)
             /\ NextRecord(body, p) \in Nat /\ NextRecord(body, p) <= N
  <2>1. /\ RecordData(body, p) \in Seq(Cell)
        /\ NextRecord(body, p) \in 1..N /\ p < NextRecord(body, p)
    BY <1>2, RecordParts
  <2> QED BY SMT, <1>1, <2>1
<1>3. ASSUME NEW p \in 1..N, RecordAt(body, p), NEW r \in Found
      PROVE  [r EXCEPT !.data = RecordData(body, p) \o @] \in Found
  <2>1. r.data \in Seq(Cell)
    BY DEF Found
  <2>2. RecordData(body, p) \o r.data \in Seq(Cell)
    BY <1>2, <1>3, <2>1, ConcatProperties
  <2> QED BY <2>2 DEF Found
<1>4. base \in [1..N -> Found]
  <2>1. ASSUME NEW p \in 1..N, RecordAt(body, p)
        PROVE  [ok |-> TRUE, data |-> RecordData(body, p)] \in Found
    BY <1>2, <2>1 DEF Found
  <2> QED BY <2>1, NoRecordOK
<1>5. next \in [1..N -> Nat]
  BY <1>2
<1>6. step \in [(1..N) \X Found -> Found]
  BY <1>3
<1>7. \E f : f = [p \in 1..N |-> Equation(f, p)]
  <2> HIDE DEF next, base, step, N
  <2>1. PICK f \in [1..N -> Found] : \A p \in 1..N :
          f[p] = IF p < next[p] /\ next[p] <= N THEN step[<<p, f[next[p]]>>] ELSE base[p]
    <3>1. Defined(N, Found, base, next, step)
      BY <1>1, <1>4, <1>5, <1>6, RecursionExists
    <3> QED BY <3>1 DEF Defined
  <2>2. ASSUME NEW p \in 1..N PROVE f[p] = Equation(f, p)
    <3>1. CASE goes(p)
      <4>1. next[p] = NextRecord(body, p) /\ p < next[p] /\ next[p] <= N /\ next[p] \in 1..N
        BY <1>2, <3>1 DEF next
      <4>2. f[next[p]] \in Found
        BY <4>1
      <4>3. step[<<p, f[next[p]]>>] = [f[next[p]] EXCEPT !.data = RecordData(body, p) \o @]
        BY <3>1, <4>2 DEF step
      <4> QED BY <2>1, <3>1, <4>1, <4>3
    <3>2. CASE ~goes(p)
      <4>1. next[p] = 0
        BY <3>2 DEF next
      <4>2. ~(p < next[p])
        BY SMT, <1>1, <4>1
      <4>3. f[p] = base[p]
        BY <2>1, <4>2
      <4> QED BY <3>2, <4>3 DEF base
    <3> QED BY <3>1, <3>2
  <2> HIDE DEF Equation
  <2>3. f = [p \in 1..N |-> Equation(f, p)]
    BY <2>2
  <2> QED BY <2>3
<1>8. Continued(body) = [p \in 1..N |-> Equation(Continued(body), p)]
  BY Zenon, <1>7 DEF Continued
<1>9. \A p \in 1..N : Continued(body)[p] = Equation(Continued(body), p)
  BY <1>8
<1> DEFINE Good == {p \in 1..N : Continued(body)[p] \in Found}
<1>10. ASSUME NEW p \in 1..N, \A q \in 1..N : p < q => q \in Good
       PROVE  p \in Good
  <2>1. CASE ~goes(p)
    <3>1. Continued(body)[p] = Equation(Continued(body), p)
      BY <1>9
    <3>2. CASE RecordAt(body, p)
      <4>1. Continued(body)[p] = [ok |-> TRUE, data |-> RecordData(body, p)]
        BY <2>1, <3>1, <3>2
      <4>2. RecordData(body, p) \in Seq(Cell)
        BY <1>2, <3>2
      <4>3. [ok |-> TRUE, data |-> RecordData(body, p)] \in Found
        BY <4>2 DEF Found
      <4> QED BY <4>1, <4>3
    <3>3. CASE ~RecordAt(body, p)
      BY <3>1, <3>3, NoRecordOK
    <3> QED BY <3>2, <3>3
  <2>2. CASE goes(p)
    <3>1. Continued(body)[NextRecord(body, p)] \in Found
      BY <1>2, <1>10, <2>2
    <3>2. Continued(body)[p] = [Continued(body)[NextRecord(body, p)]
                                  EXCEPT !.data = RecordData(body, p) \o @]
      BY <1>9, <2>2
    <3> QED BY <1>3, <2>2, <3>1, <3>2
  <2> QED BY <2>1, <2>2
<1>11. \A p \in 1..N : p \in Good
  <2> HIDE DEF Good, N
  <2> QED BY <1>1, <1>10, Downward
<1> QED BY <1>9, <1>11

LEMMA FirstImageDef ==
    ASSUME NEW body \in Seq(Cell)
    PROVE  \A p \in 1..Len(body) + 1 :
             /\ FirstImage(body)[p] =
                  IF ~RecordAt(body, p) THEN NoRecord
                  ELSE IF body[p].kind = "image" THEN Continued(body)[p]
                  ELSE FirstImage(body)[NextRecord(body, p)]
             /\ FirstImage(body)[p] \in Found
<1> DEFINE N == Len(body) + 1
           Equation(f, p) ==
             IF ~RecordAt(body, p) THEN NoRecord
             ELSE IF body[p].kind = "image" THEN Continued(body)[p]
             ELSE f[NextRecord(body, p)]
           goes(p) == RecordAt(body, p) /\ body[p].kind # "image"
           next == [p \in 1..N |-> IF goes(p) THEN NextRecord(body, p) ELSE 0]
           base == [p \in 1..N |-> IF RecordAt(body, p) THEN Continued(body)[p] ELSE NoRecord]
           step == [x \in (1..N) \X Found |-> x[2]]
<1>1. N \in Nat
  BY LenProperties
<1>2. ASSUME NEW p \in 1..N, RecordAt(body, p)
      PROVE  /\ NextRecord(body, p) \in 1..N /\ p < NextRecord(body, p)
             /\ NextRecord(body, p) \in Nat /\ NextRecord(body, p) <= N
  <2>1. NextRecord(body, p) \in 1..N /\ p < NextRecord(body, p)
    BY <1>2, RecordParts
  <2> QED BY SMT, <1>1, <2>1
<1>3. \A p \in 1..N : Continued(body)[p] \in Found
  BY ContinuedDef
<1>4. base \in [1..N -> Found]
  BY <1>3, NoRecordOK
<1>5. next \in [1..N -> Nat]
  BY <1>2
<1>6. step \in [(1..N) \X Found -> Found]
  OBVIOUS
<1>7. \E f : f = [p \in 1..N |-> Equation(f, p)]
  <2> HIDE DEF next, base, step, N
  <2>1. PICK f \in [1..N -> Found] : \A p \in 1..N :
          f[p] = IF p < next[p] /\ next[p] <= N THEN step[<<p, f[next[p]]>>] ELSE base[p]
    <3>1. Defined(N, Found, base, next, step)
      BY <1>1, <1>4, <1>5, <1>6, RecursionExists
    <3> QED BY <3>1 DEF Defined
  <2>2. ASSUME NEW p \in 1..N PROVE f[p] = Equation(f, p)
    <3>1. CASE goes(p)
      <4>1. next[p] = NextRecord(body, p) /\ p < next[p] /\ next[p] <= N /\ next[p] \in 1..N
        BY <1>2, <3>1 DEF next
      <4>2. step[<<p, f[next[p]]>>] = f[next[p]]
        BY <4>1 DEF step
      <4> QED BY <2>1, <3>1, <4>1, <4>2
    <3>2. CASE ~goes(p)
      <4>1. next[p] = 0
        BY <3>2 DEF next
      <4>2. ~(p < next[p])
        BY SMT, <1>1, <4>1
      <4>3. f[p] = base[p]
        BY <2>1, <4>2
      <4> QED BY <3>2, <4>3 DEF base
    <3> QED BY <3>1, <3>2
  <2> HIDE DEF Equation
  <2>3. f = [p \in 1..N |-> Equation(f, p)]
    BY <2>2
  <2> QED BY <2>3
<1>8. FirstImage(body) = [p \in 1..N |-> Equation(FirstImage(body), p)]
  BY Zenon, <1>7 DEF FirstImage
<1>9. \A p \in 1..N : FirstImage(body)[p] = Equation(FirstImage(body), p)
  BY <1>8
<1> DEFINE Good == {p \in 1..N : FirstImage(body)[p] \in Found}
<1>10. ASSUME NEW p \in 1..N, \A q \in 1..N : p < q => q \in Good
       PROVE  p \in Good
  <2>1. CASE ~goes(p)
    BY <1>3, <1>9, <2>1, NoRecordOK
  <2>2. CASE goes(p)
    BY <1>2, <1>9, <1>10, <2>2
  <2> QED BY <2>1, <2>2
<1>11. \A p \in 1..N : p \in Good
  <2> HIDE DEF Good, N
  <2> QED BY <1>1, <1>10, Downward
<1> QED BY <1>9, <1>11

LEMMA OneIn ==
    ASSUME NEW s \in Seq(Cell)
    PROVE  1 \in 1..Len(s) + 1 /\ Len(s) \in Nat
<1>1. Len(s) \in Nat
  BY LenProperties
<1> QED BY SMT, <1>1

\* What is taken for an image is a sequence of cells between the two markers.
LEMMA ImageForm ==
    ASSUME NEW body \in Seq(Cell)
    PROVE  /\ ExtractImage(body) \in Seq(Cell)
           /\ ExtractImage(body) # <<>> =>
                /\ ExtractImage(body)[1].kind = "soi"
                /\ ExtractImage(body)[Len(ExtractImage(body))].kind = "eoi"
<1> DEFINE found == FirstImage(body)[1]
<1>1. found \in Found
  BY FirstImageDef, OneIn
<1>2. ExtractImage(body) = IF found.ok THEN WholeImage(found.data) ELSE <<>>
  BY DEF ExtractImage
<1> HIDE DEF found
<1>3. found.data \in Seq(Cell) /\ <<>> \in Seq(Cell)
  BY <1>1, EmptySeq DEF Found
<1> QED BY <1>2, <1>3 DEF WholeImage

-----------------------------------------------------------------------------
(* Chunks *)

Verdict == [verdict : {"incomplete", "malformed", "complete"}, body : Seq(Cell)]

LEMMA VerdictsOK ==
    /\ Incomplete \in Verdict /\ Malformed \in Verdict
    /\ \A b \in Seq(Cell) : Complete(b) \in Verdict
BY EmptySeq DEF Incomplete, Malformed, Complete, Verdict

LEMMA NoSizeOK ==
    ASSUME NEW raw, NEW p
    PROVE  NoSize(raw, p) \in Verdict /\ LastChunk(raw, p) \in Verdict
BY VerdictsOK, EmptySeq DEF NoSize, LastChunk

\* Where a whole chunk begins.
ChunkAt(raw, p) ==
    /\ p <= Len(raw) /\ raw[p].kind = "line" /\ raw[p].n <= MaxResponse /\ raw[p].n # 0
    /\ p + raw[p].n + 1 <= Len(raw) /\ raw[p + raw[p].n + 1].kind = "crlf"

NextChunk(raw, p) == p + raw[p].n + 2
ChunkData(raw, p) == SubSeq(raw, p + 1, p + raw[p].n)

\* The verdict where none does.
Stops(raw, p) ==
    IF p > Len(raw) \/ raw[p].kind # "line" THEN NoSize(raw, p)
    ELSE IF raw[p].n > MaxResponse THEN Malformed
    ELSE IF raw[p].n = 0 THEN LastChunk(raw, p + raw[p].n + 1)
    ELSE IF p + raw[p].n + 1 > Len(raw) THEN Incomplete
    ELSE Malformed

\* That of a chunk before the verdict on the rest.
Before(raw, p, rest) ==
    [rest EXCEPT !.body = IF rest.verdict = "complete" THEN ChunkData(raw, p) \o @ ELSE @]

LEMMA StopsOK ==
    ASSUME NEW raw, NEW p
    PROVE  Stops(raw, p) \in Verdict
BY VerdictsOK, NoSizeOK DEF Stops

LEMMA ChunkParts ==
    ASSUME NEW raw \in Seq(Cell), NEW p \in 1..Len(raw) + 1, ChunkAt(raw, p)
    PROVE  /\ ChunkData(raw, p) \in Seq(Cell)
           /\ NextChunk(raw, p) \in 1..Len(raw) + 1 /\ p < NextChunk(raw, p)
<1>1. Len(raw) \in Nat
  BY LenProperties
<1>2. p \in 1..Len(raw)
  BY SMT, <1>1 DEF ChunkAt
<1> DEFINE n == raw[p].n
<1>3. n \in Nat /\ p + n + 1 <= Len(raw)
  BY <1>2, CellParts DEF ChunkAt
<1>4. ChunkData(raw, p) = SubSeq(raw, p + 1, p + n) /\ NextChunk(raw, p) = p + n + 2
  BY DEF ChunkData, NextChunk
<1> HIDE DEF n
<1>5. p + n + 2 \in 1..Len(raw) + 1 /\ p < p + n + 2
  BY SMT, <1>1, <1>2, <1>3
<1>6. SubSeq(raw, p + 1, p + n) \in Seq(Cell)
  <2>1. \A i \in (p + 1)..(p + n) : i \in 1..Len(raw)
    BY SMT, <1>1, <1>2, <1>3
  <2>2. p + 1 \in Int /\ p + n \in Int
    BY SMT, <1>2, <1>3
  <2>3. \A i \in (p + 1)..(p + n) : raw[i] \in Cell
    BY <2>1, ElementOfSeq
  <2> QED BY <2>1, <2>2, SubSeqProperties
<1> QED BY <1>4, <1>5, <1>6

\* The body of the recursion, in these words.
LEMMA ChunkBody ==
    ASSUME NEW raw \in Seq(Cell), NEW p \in 1..Len(raw) + 1, NEW f
    PROVE  (IF p > Len(raw) \/ raw[p].kind # "line" THEN NoSize(raw, p)
            ELSE LET end == p + raw[p].n + 1 IN
                 IF raw[p].n > MaxResponse THEN Malformed
                 ELSE IF raw[p].n = 0 THEN LastChunk(raw, end)
                 ELSE IF end > Len(raw) THEN Incomplete
                 ELSE IF raw[end].kind # "crlf" THEN Malformed
                 ELSE LET rest == f[end + 1] IN
                      [rest EXCEPT !.body = IF rest.verdict = "complete"
                                            THEN SubSeq(raw, p + 1, end - 1) \o @ ELSE @])
           = IF ChunkAt(raw, p) THEN Before(raw, p, f[NextChunk(raw, p)]) ELSE Stops(raw, p)
<1>1. Len(raw) \in Nat /\ MaxResponse \in Nat
  BY LenProperties, ImageAssumption
<1>2. CASE p > Len(raw)
  <2>1. ~(p <= Len(raw))
    BY SMT, <1>1, <1>2
  <2> QED BY <1>2, <2>1 DEF ChunkAt, Stops
<1>3. CASE p <= Len(raw)
  <2> DEFINE n == raw[p].n
             end == p + n + 1
  <2>1. n \in Nat /\ ~(p > Len(raw))
    <3>1. p \in 1..Len(raw)
      BY SMT, <1>1, <1>3
    <3>2. n \in Nat
      BY <3>1, CellParts
    <3> QED BY SMT, <1>1, <1>3, <3>2
  <2>2. end + 1 = NextChunk(raw, p) /\ SubSeq(raw, p + 1, end - 1) = ChunkData(raw, p)
    <3>1. end + 1 = p + n + 2 /\ end - 1 = p + n
      BY SMT, <2>1
    <3> QED BY <3>1 DEF NextChunk, ChunkData
  <2>3. n > MaxResponse <=> ~(n <= MaxResponse)
    BY SMT, <1>1, <2>1
  <2>4. end > Len(raw) <=> ~(end <= Len(raw))
    BY SMT, <1>1, <2>1
  <2>5. ChunkAt(raw, p) <=> /\ raw[p].kind = "line" /\ n <= MaxResponse /\ n # 0
                            /\ end <= Len(raw) /\ raw[end].kind = "crlf"
    BY <1>3 DEF ChunkAt
  <2>6. Stops(raw, p) = IF raw[p].kind # "line" THEN NoSize(raw, p)
                        ELSE IF n > MaxResponse THEN Malformed
                        ELSE IF n = 0 THEN LastChunk(raw, end)
                        ELSE IF end > Len(raw) THEN Incomplete
                        ELSE Malformed
    BY <2>1 DEF Stops
  <2>7. Before(raw, p, f[NextChunk(raw, p)]) =
          [f[end + 1] EXCEPT !.body = IF f[end + 1].verdict = "complete"
                                      THEN SubSeq(raw, p + 1, end - 1) \o @ ELSE @]
    BY <2>2 DEF Before
  <2> QED BY Zenon, <2>1, <2>3, <2>4, <2>5, <2>6, <2>7
<1> QED BY SMT, <1>1, <1>2, <1>3

LEMMA BeforeOK ==
    ASSUME NEW raw \in Seq(Cell), NEW p \in 1..Len(raw) + 1, ChunkAt(raw, p),
           NEW rest \in Verdict
    PROVE  Before(raw, p, rest) \in Verdict
<1>1. rest.body \in Seq(Cell) /\ ChunkData(raw, p) \in Seq(Cell)
  BY ChunkParts DEF Verdict
<1>2. ChunkData(raw, p) \o rest.body \in Seq(Cell)
  BY <1>1, ConcatProperties
<1> QED BY <1>1, <1>2 DEF Before, Verdict

LEMMA ChunksDef ==
    ASSUME NEW raw \in Seq(Cell)
    PROVE  \A p \in 1..Len(raw) + 1 :
             /\ Chunks(raw)[p] =
                  IF ChunkAt(raw, p) THEN Before(raw, p, Chunks(raw)[NextChunk(raw, p)])
                  ELSE Stops(raw, p)
             /\ Chunks(raw)[p] \in Verdict
<1> DEFINE N == Len(raw) + 1
           Body(f, p) ==
             IF p > Len(raw) \/ raw[p].kind # "line" THEN NoSize(raw, p)
             ELSE LET end == p + raw[p].n + 1 IN
                  IF raw[p].n > MaxResponse THEN Malformed
                  ELSE IF raw[p].n = 0 THEN LastChunk(raw, end)
                  ELSE IF end > Len(raw) THEN Incomplete
                  ELSE IF raw[end].kind # "crlf" THEN Malformed
                  ELSE LET rest == f[end + 1] IN
                       [rest EXCEPT !.body = IF rest.verdict = "complete"
                                             THEN SubSeq(raw, p + 1, end - 1) \o @ ELSE @]
           Equation(f, p) == IF ChunkAt(raw, p) THEN Before(raw, p, f[NextChunk(raw, p)])
                             ELSE Stops(raw, p)
           next == [p \in 1..N |-> IF ChunkAt(raw, p) THEN NextChunk(raw, p) ELSE 0]
           base == [p \in 1..N |-> Stops(raw, p)]
           step == [x \in (1..N) \X Verdict |->
                     IF ChunkAt(raw, x[1]) THEN Before(raw, x[1], x[2]) ELSE x[2]]
<1>1. N \in Nat
  BY LenProperties
<1>2. ASSUME NEW p \in 1..N, ChunkAt(raw, p)
      PROVE  /\ NextChunk(raw, p) \in 1..N /\ p < NextChunk(raw, p)
             /\ NextChunk(raw, p) \in Nat /\ NextChunk(raw, p) <= N
  <2>1. NextChunk(raw, p) \in 1..N /\ p < NextChunk(raw, p)
    BY <1>2, ChunkParts
  <2> QED BY SMT, <1>1, <2>1
<1>3. \A f : \A p \in 1..N : Body(f, p) = Equation(f, p)
  <2> TAKE f
  <2> TAKE p \in 1..N
  <2> QED BY Zenon, ChunkBody
<1>4. base \in [1..N -> Verdict]
  BY StopsOK
<1>5. next \in [1..N -> Nat]
  BY <1>2
<1>6. step \in [(1..N) \X Verdict -> Verdict]
  BY BeforeOK
<1>7. \E f : f = [p \in 1..N |-> Body(f, p)]
  <2> HIDE DEF next, base, step, N
  <2>1. PICK f \in [1..N -> Verdict] : \A p \in 1..N :
          f[p] = IF p < next[p] /\ next[p] <= N THEN step[<<p, f[next[p]]>>] ELSE base[p]
    <3>1. Defined(N, Verdict, base, next, step)
      BY <1>1, <1>4, <1>5, <1>6, RecursionExists
    <3> QED BY <3>1 DEF Defined
  <2>2. ASSUME NEW p \in 1..N PROVE f[p] = Equation(f, p)
    <3>1. CASE ChunkAt(raw, p)
      <4>1. next[p] = NextChunk(raw, p) /\ p < next[p] /\ next[p] <= N /\ next[p] \in 1..N
        BY <1>2, <3>1 DEF next
      <4>2. step[<<p, f[next[p]]>>] = Before(raw, p, f[next[p]])
        BY <3>1, <4>1 DEF step
      <4> QED BY <2>1, <3>1, <4>1, <4>2
    <3>2. CASE ~ChunkAt(raw, p)
      <4>1. next[p] = 0
        BY <3>2 DEF next
      <4>2. ~(p < next[p])
        BY SMT, <1>1, <4>1
      <4>3. f[p] = base[p]
        BY <2>1, <4>2
      <4> QED BY <3>2, <4>3 DEF base
    <3> QED BY <3>1, <3>2
  <2> HIDE DEF Body, Equation
  <2>3. f = [p \in 1..N |-> Body(f, p)]
    BY <1>3, <2>2
  <2> QED BY <2>3
<1>8. Chunks(raw) = [p \in 1..N |-> Body(Chunks(raw), p)]
  BY Zenon, <1>7 DEF Chunks
<1>9. \A p \in 1..N : Chunks(raw)[p] = Equation(Chunks(raw), p)
  <2> HIDE DEF Body, Equation
  <2> QED BY <1>3, <1>8
<1> DEFINE Good == {p \in 1..N : Chunks(raw)[p] \in Verdict}
<1>10. ASSUME NEW p \in 1..N, \A q \in 1..N : p < q => q \in Good
       PROVE  p \in Good
  <2>1. CASE ~ChunkAt(raw, p)
    BY <1>9, <2>1, StopsOK
  <2>2. CASE ChunkAt(raw, p)
    BY <1>2, <1>9, <1>10, <2>2, BeforeOK
  <2> QED BY <2>1, <2>2
<1>11. \A p \in 1..N : p \in Good
  <2> HIDE DEF Good, N
  <2> QED BY <1>1, <1>10, Downward
<1> QED BY <1>9, <1>11

LEMMA DechunkOK ==
    ASSUME NEW raw \in Seq(Cell)
    PROVE  Dechunk(raw).body \in Seq(Cell)
<1>1. Dechunk(raw) \in Verdict
  BY ChunksDef, OneIn DEF Dechunk
<1> QED BY <1>1 DEF Verdict

\* The beginning of a reply.
LEMMA PrefixParts ==
    ASSUME NEW raw \in Seq(Cell), NEW k \in 0..Len(raw), NEW pre, pre = SubSeq(raw, 1, k)
    PROVE  /\ Len(raw) \in Nat /\ k \in Nat /\ k <= Len(raw)
           /\ pre \in Seq(Cell) /\ Len(pre) = k /\ \A i \in 1..k : pre[i] = raw[i]
<1>1. Len(raw) \in Nat
  BY LenProperties
<1>2. k \in Nat /\ k <= Len(raw)
  BY SMT, <1>1
<1>3. \A i \in 1..k : i \in 1..Len(raw) /\ 1 + i - 1 = i
  BY SMT, <1>1, <1>2
<1>4. \A i \in 1..k : raw[i] \in Cell
  BY <1>3, ElementOfSeq
<1>5. 1 \in Int /\ k \in Int /\ k - 1 + 1 = k
  BY SMT, <1>2
<1>6. pre \in Seq(Cell)
  BY <1>4, <1>5, SubSeqProperties
<1>7. Len(pre) = k /\ \A i \in 1..k : pre[i] = raw[i]
  BY SMT, <1>2 DEF Cell
<1> QED BY <1>1, <1>2, <1>6, <1>7

LEMMA SameSubSeq ==
    ASSUME NEW s, NEW t, NEW m \in Int, NEW n \in Int,
           \A i \in m..n : s[i] = t[i] /\ t[i] \in Cell
    PROVE  SubSeq(s, m, n) = SubSeq(t, m, n)
<1> DEFINE a == SubSeq(s, m, n)
           b == SubSeq(t, m, n)
           l == IF m <= n THEN n - m + 1 ELSE 0
<1>1. \A i \in m..n : s[i] \in Cell /\ t[i] \in Cell
  OBVIOUS
<1>2. /\ a \in Seq(Cell) /\ Len(a) = l /\ \A i \in 1..n - m + 1 : a[i] = s[m + i - 1]
  BY <1>1, SubSeqProperties
<1>3. /\ b \in Seq(Cell) /\ Len(b) = l /\ \A i \in 1..n - m + 1 : b[i] = t[m + i - 1]
  BY <1>1, SubSeqProperties
<1>4. \A i \in 1..l : i \in 1..n - m + 1 /\ m + i - 1 \in m..n
  BY SMT
<1> HIDE DEF a, b, l
<1>5. \A i \in 1..Len(a) : a[i] = b[i]
  BY <1>2, <1>3, <1>4
<1>6. a = b
  BY <1>2, <1>3, <1>5, SeqEqual
<1> QED BY <1>6 DEF a, b

\* A verdict on the beginning of a reply, other than that it is incomplete, stands
\* whatever is read after it: where reads cut a reply does not matter to dechunk_try.
THEOREM EarlyVerdictsStand ==
    ASSUME NEW raw \in Seq(Cell), NEW k \in 0..Len(raw),
           Dechunk(SubSeq(raw, 1, k)).verdict # "incomplete"
    PROVE  Dechunk(raw) = Dechunk(SubSeq(raw, 1, k))
<1> DEFINE pre == SubSeq(raw, 1, k)
           N == k + 1
<1>1. /\ Len(raw) \in Nat /\ k \in Nat /\ k <= Len(raw)
      /\ pre \in Seq(Cell) /\ Len(pre) = k /\ \A i \in 1..k : pre[i] = raw[i]
  BY Zenon, PrefixParts
<1> HIDE DEF pre
<1>2. N \in Nat /\ 1 \in 1..N /\ \A p \in 1..N : p \in 1..Len(raw) + 1 /\ p \in 1..Len(pre) + 1
  BY SMT, <1>1
<1> DEFINE Good == {p \in 1..N : Chunks(pre)[p].verdict # "incomplete"
                                 => Chunks(raw)[p] = Chunks(pre)[p]}
<1>3. ASSUME NEW p \in 1..N, \A q \in 1..N : p < q => q \in Good
      PROVE  p \in Good
  <2> SUFFICES ASSUME Chunks(pre)[p].verdict # "incomplete"
               PROVE  Chunks(raw)[p] = Chunks(pre)[p]
    OBVIOUS
  <2>1. p \in 1..Len(raw) + 1 /\ p \in 1..Len(pre) + 1
    BY <1>2
  <2>2. /\ Chunks(raw)[p] = IF ChunkAt(raw, p) THEN Before(raw, p, Chunks(raw)[NextChunk(raw, p)])
                             ELSE Stops(raw, p)
        /\ Chunks(pre)[p] = IF ChunkAt(pre, p) THEN Before(pre, p, Chunks(pre)[NextChunk(pre, p)])
                             ELSE Stops(pre, p)
    BY <1>1, <2>1, ChunksDef
  <2>3. CASE p > Len(pre)
    <3>1. ~ChunkAt(pre, p) /\ p..Len(pre) = {}
      BY SMT, <1>1, <2>1, <2>3 DEF ChunkAt
    <3>2. Stops(pre, p) = Incomplete
      BY <2>3, <3>1 DEF Stops, NoSize
    <3> QED BY <2>2, <3>1, <3>2 DEF Incomplete
  <2>4. CASE p <= Len(pre)
    <3> DEFINE n == raw[p].n
               end == p + n + 1
    <3>1. p \in 1..k /\ p \in 1..Len(raw) /\ p <= Len(raw) /\ ~(p > Len(pre)) /\ ~(p > Len(raw))
      BY SMT, <1>1, <2>1, <2>4
    <3>2. pre[p] = raw[p] /\ n \in Nat
      BY <1>1, <3>1, CellParts
    <3>3. CASE raw[p].kind # "line"
      <4>1. Chunks(pre)[p] = NoSize(pre, p) /\ Chunks(raw)[p] = NoSize(raw, p)
        BY <2>2, <3>2, <3>3 DEF ChunkAt, Stops
      <4>2. PICK q \in p..Len(pre) : pre[q].kind \in {"line", "junk", "crlf"}
        BY <4>1 DEF NoSize, Incomplete
      <4>3. q \in 1..k /\ q \in p..Len(raw)
        BY SMT, <1>1, <3>1
      <4>4. raw[q].kind \in {"line", "junk", "crlf"}
        BY <1>1, <4>2, <4>3
      <4>5. NoSize(pre, p) = Malformed /\ NoSize(raw, p) = Malformed
        BY <4>2, <4>3, <4>4 DEF NoSize
      <4> QED BY <4>1, <4>5
    <3>4. CASE raw[p].kind = "line" /\ (n > MaxResponse \/ n = 0)
      <4>1. MaxResponse \in Nat
        BY ImageAssumption
      <4>2. ~ChunkAt(pre, p) /\ ~ChunkAt(raw, p)
        <5>1. ~(n <= MaxResponse /\ n # 0)
          BY SMT, <3>2, <3>4, <4>1
        <5> QED BY <3>2, <5>1 DEF ChunkAt
      <4>3. CASE n > MaxResponse
        BY <2>2, <3>1, <3>2, <3>4, <4>2, <4>3 DEF Stops
      <4>4. CASE n = 0 /\ ~(n > MaxResponse)
        <5>1. Chunks(pre)[p] = LastChunk(pre, end) /\ Chunks(raw)[p] = LastChunk(raw, end)
          BY <2>2, <3>1, <3>2, <3>4, <4>2, <4>4 DEF Stops
        <5>2. ~(end > Len(pre))
          BY <5>1 DEF LastChunk, Incomplete
        <5>3. end \in 1..k /\ ~(end > Len(raw))
          BY SMT, <1>1, <3>1, <3>2, <5>2
        <5> QED BY <1>1, <5>1, <5>2, <5>3 DEF LastChunk
      <4> QED BY <3>4, <4>3, <4>4
    <3>5. CASE raw[p].kind = "line" /\ ~(n > MaxResponse) /\ n # 0
      <4>1. ChunkAt(pre, p) \/ Stops(pre, p) = IF end > Len(pre) THEN Incomplete ELSE Malformed
        BY <3>1, <3>2, <3>5 DEF Stops
      <4>2. end <= Len(pre)
        <5>1. end \in Int
          BY SMT, <3>1, <3>2
        <5>2. CASE ChunkAt(pre, p)
          BY <3>2, <5>2 DEF ChunkAt
        <5>3. CASE ~ChunkAt(pre, p)
          <6>1. ~(end > Len(pre))
            BY <2>2, <4>1, <5>3 DEF Incomplete
          <6> QED BY SMT, <1>1, <5>1, <6>1
        <5> QED BY <5>2, <5>3
      <4>3. end \in 1..k /\ end <= Len(raw) /\ ~(end > Len(raw)) /\ ~(end > Len(pre))
        BY SMT, <1>1, <3>1, <3>2, <4>2
      <4>4. pre[end] = raw[end]
        BY <1>1, <4>3
      <4>5. ChunkAt(raw, p) <=> ChunkAt(pre, p)
        BY <2>4, <3>1, <3>2, <4>2, <4>3, <4>4 DEF ChunkAt
      <4>6. CASE ~ChunkAt(pre, p)
        <5>1. Stops(pre, p) = Malformed /\ Stops(raw, p) = Malformed
          BY <3>1, <3>2, <3>5, <4>3 DEF Stops
        <5> QED BY <2>2, <4>5, <4>6, <5>1
      <4>7. CASE ChunkAt(pre, p)
        <5> DEFINE q == NextChunk(pre, p)
        <5>1. q = NextChunk(raw, p)
          BY <3>2 DEF NextChunk
        <5>2. q \in 1..N /\ p < q
          BY <1>1, <2>1, <4>7, ChunkParts
        <5>3. ChunkData(pre, p) = ChunkData(raw, p)
          <6>1. \A i \in (p + 1)..(p + n) : i \in 1..k /\ i \in 1..Len(raw)
            BY SMT, <1>1, <3>1, <3>2, <4>3
          <6>2. p + 1 \in Int /\ p + n \in Int
            BY SMT, <3>1, <3>2
          <6>3. \A i \in (p + 1)..(p + n) : pre[i] = raw[i] /\ raw[i] \in Cell
            BY <1>1, <6>1, ElementOfSeq
          <6>4. SubSeq(pre, p + 1, p + n) = SubSeq(raw, p + 1, p + n)
            <7> HIDE DEF n
            <7> QED BY <6>2, <6>3, SameSubSeq
          <6> QED BY <3>2, <6>4 DEF ChunkData
        <5> DEFINE F == Chunks(raw)[q]
                   G == Chunks(pre)[q]
        <5>4. G \in Verdict
          BY <1>1, <1>2, <5>2, ChunksDef
        <5>5. Chunks(pre)[p] = Before(pre, p, G) /\ Chunks(raw)[p] = Before(raw, p, F)
          BY <2>2, <4>5, <4>7, <5>1
        <5>6. G.verdict # "incomplete" => F = G
          BY <1>3, <5>2
        <5> HIDE DEF F, G, q
        <5>7. Before(pre, p, G).verdict = G.verdict
          BY <5>4 DEF Before, Verdict
        <5>8. F = G
          BY <5>5, <5>6, <5>7
        <5> QED BY <5>3, <5>5, <5>8 DEF Before
      <4> QED BY <4>6, <4>7
    <3> QED BY <3>3, <3>4, <3>5
  <2> QED BY SMT, <1>1, <2>1, <2>3, <2>4
<1>4. \A p \in 1..N : p \in Good
  <2> HIDE DEF Good, N
  <2> QED BY <1>2, <1>3, Downward
<1>5. 1 \in Good
  <2> HIDE DEF Good, N
  <2> QED BY <1>2, <1>4
<1> QED BY <1>5 DEF Dechunk, pre

-----------------------------------------------------------------------------
(* What the scanner has made of its image *)

LEMMA ReplyParts ==
    ASSUME NEW r \in Reply
    PROVE  /\ r.cells \in Seq(Cell) /\ r.body \in Seq(Cell) /\ r.image \in Seq(Cell)
           /\ Len(r.cells) \in Nat /\ Len(r.body) \in Nat /\ Len(r.image) \in Nat
           /\ r.before \subseteq Nat \ {0}
           /\ \A m \in r.heads \cup r.lines : m[1] \in Nat \ {0} /\ m[2] \in Nat
<1>1. /\ r.cells \in Seq(Cell) /\ r.body \in Seq(Cell) /\ r.image \in Seq(Cell)
      /\ r.before \subseteq Nat \ {0} /\ r.heads \in Marks /\ r.lines \in Marks
  BY DEF Reply
<1>2. \A m \in r.heads \cup r.lines : m[1] \in Nat \ {0} /\ m[2] \in Nat
  BY <1>1 DEF Marks
<1> QED BY <1>1, <1>2, LenProperties

\* The same n cells at two places.
SameAt(s, p, t, i, n) ==
    p + n <= Len(s) /\ i + n <= Len(t) /\ \A k \in 1..n : s[p + k] = t[i + k]

LEMMA SameCells ==
    ASSUME NEW s \in Seq(Cell), NEW t \in Seq(Cell), NEW p \in Nat, NEW i \in Nat,
           NEW n \in Nat, SameAt(s, p, t, i, n)
    PROVE  SubSeq(s, p + 1, p + n) = SubSeq(t, i + 1, i + n)
<1> DEFINE a == SubSeq(s, p + 1, p + n)
           b == SubSeq(t, i + 1, i + n)
<1>1. Len(s) \in Nat /\ Len(t) \in Nat /\ p + n <= Len(s) /\ i + n <= Len(t)
  BY LenProperties DEF SameAt
<1>2. /\ p + 1 \in Int /\ p + n \in Int /\ i + 1 \in Int /\ i + n \in Int
      /\ \A j \in (p + 1)..(p + n) : j \in 1..Len(s)
      /\ \A j \in (i + 1)..(i + n) : j \in 1..Len(t)
      /\ 1..p + n - (p + 1) + 1 = 1..n /\ 1..i + n - (i + 1) + 1 = 1..n
      /\ n = (IF p + 1 <= p + n THEN p + n - (p + 1) + 1 ELSE 0)
      /\ n = (IF i + 1 <= i + n THEN i + n - (i + 1) + 1 ELSE 0)
  BY SMT, <1>1
<1>3. /\ \A j \in (p + 1)..(p + n) : s[j] \in Cell
      /\ \A j \in (i + 1)..(i + n) : t[j] \in Cell
  BY <1>2, ElementOfSeq
<1>4. a \in Seq(Cell) /\ Len(a) = n /\ \A k \in 1..n : a[k] = s[p + 1 + k - 1]
  BY <1>2, <1>3, SubSeqProperties
<1>5. b \in Seq(Cell) /\ Len(b) = n /\ \A k \in 1..n : b[k] = t[i + 1 + k - 1]
  BY <1>2, <1>3, SubSeqProperties
<1>6. \A k \in 1..n : p + 1 + k - 1 = p + k /\ i + 1 + k - 1 = i + k
  BY SMT
<1> HIDE DEF a, b
<1>7. ASSUME NEW k \in 1..n PROVE a[k] = b[k]
  <2>1. s[p + 1 + k - 1] = s[p + k] /\ t[i + 1 + k - 1] = t[i + k]
    BY <1>6
  <2>2. s[p + k] = t[i + k]
    BY DEF SameAt
  <2>3. a[k] = s[p + 1 + k - 1] /\ b[k] = t[i + 1 + k - 1]
    BY <1>4, <1>5
  <2> QED BY <2>1, <2>2, <2>3
<1>8. a = b
  BY Zenon, <1>4, <1>5, <1>7, SeqEqual
<1> QED BY <1>8 DEF a, b

\* A part of the image before the next.
LEMMA PartsJoin ==
    ASSUME NEW s \in Seq(Cell), NEW i \in Nat, NEW j \in Nat, NEW e \in Nat,
           i <= j, j <= e, e <= Len(s)
    PROVE  SubSeq(s, i + 1, j) \o SubSeq(s, j + 1, e) = SubSeq(s, i + 1, e)
<1>1. Len(s) \in Nat
  BY LenProperties
<1>2. i + 1 \in 1..Len(s) + 1 /\ j \in i + 1 - 1..Len(s) /\ e \in j..Len(s)
  BY SMT, <1>1
<1> QED BY <1>2, ConcatAdjacentSubSeq

\* The data of a record of the image and of those it is continued by are the image from
\* there, up to where it has been cut.
RestOf(r, found, i) ==
    /\ found.ok => \E e \in i..Len(r.image) :
                      /\ found.data = SubSeq(r.image, i + 1, e)
                      /\ r.intact => e = Len(r.image)
    /\ r.intact => found.ok

LEMMA ContinuedIsRest ==
    ASSUME NEW r \in Reply, FromScanner(r)
    PROVE  \A m \in r.heads : m[1] <= Len(r.body) + 1
             => RestOf(r, Continued(r.body)[m[1]], m[2])
<1> DEFINE body == r.body
           N == Len(body) + 1
           Good == {p \in 1..N : \A m \in r.heads :
                      m[1] = p => RestOf(r, Continued(body)[p], m[2])}
<1>1. /\ body \in Seq(Cell) /\ r.image \in Seq(Cell)
      /\ Len(body) \in Nat /\ Len(r.image) \in Nat /\ N \in Nat
      /\ \A m \in r.heads : m[1] \in Nat \ {0} /\ m[2] \in Nat
  BY ReplyParts
<1>2. ASSUME NEW p \in 1..N, \A q \in 1..N : p < q => q \in Good
      PROVE  p \in Good
  <2> SUFFICES ASSUME NEW m \in r.heads, m[1] = p
               PROVE  RestOf(r, Continued(body)[p], m[2])
    OBVIOUS
  <2> DEFINE i == m[2]
             n == body[p].n
  <2>1. i \in Nat /\ PartSent(r, p, i)
    BY <1>1 DEF FromScanner
  <2>2. Continued(body)[p] =
          IF ~RecordAt(body, p) THEN NoRecord
          ELSE IF ~body[p].more THEN [ok |-> TRUE, data |-> RecordData(body, p)]
          ELSE [Continued(body)[NextRecord(body, p)]
                  EXCEPT !.data = RecordData(body, p) \o @]
    BY <1>1, ContinuedDef
  <2>3. CASE ~RecordAt(body, p)
    <3>1. ~r.intact
      BY <1>1, <2>1, <2>3 DEF PartSent, HeaderLost, HeaderSent, RecordAt
    <3> QED BY <2>2, <2>3, <3>1 DEF RestOf, NoRecord
  <2>4. CASE RecordAt(body, p)
    <3>1. p \in 1..Len(body) /\ NextRecord(body, p) \in 1..N /\ p < NextRecord(body, p)
      BY <1>1, <2>4, RecordParts
    <3>2. n \in Nat /\ p + n <= Len(body) /\ p \in Nat
      BY <1>1, <2>4, <3>1, CellParts DEF RecordAt
    <3>3. /\ i + n <= Len(r.image)
          /\ \A k \in 1..n : p + k <= Len(body) => body[p + k] = r.image[i + k]
          /\ IF body[p].more THEN <<p + n + 1, i + n>> \in r.heads
             ELSE r.intact => i + n = Len(r.image)
      BY <2>1, <2>4 DEF PartSent, HeaderLost, RecordAt
    <3> HIDE DEF n, body, i
    <3>4. SameAt(body, p, r.image, i, n)
      <4>1. \A k \in 1..n : p + k <= Len(body)
        BY SMT, <1>1, <3>2
      <4> QED BY <3>2, <3>3, <4>1 DEF SameAt
    <3>5. RecordData(body, p) = SubSeq(r.image, i + 1, i + n)
      <4>1. RecordData(body, p) = SubSeq(body, p + 1, p + n)
        BY DEF RecordData, n
      <4>2. SubSeq(body, p + 1, p + n) = SubSeq(r.image, i + 1, i + n)
        <5>1. body \in Seq(Cell) /\ r.image \in Seq(Cell) /\ i \in Nat
          BY <1>1, <2>1
        <5> QED BY <3>2, <3>4, <5>1, SameCells
      <4> QED BY <4>1, <4>2
    <3>6. i + n \in i..Len(r.image) /\ i + n \in Nat /\ i <= i + n
      BY SMT, <1>1, <2>1, <3>2, <3>3
    <3>7. CASE ~body[p].more
      <4>1. Continued(body)[p] = [ok |-> TRUE, data |-> SubSeq(r.image, i + 1, i + n)]
        BY <2>2, <2>4, <3>5, <3>7
      <4>2. /\ Continued(body)[p].ok
            /\ Continued(body)[p].data = SubSeq(r.image, i + 1, i + n)
        <5> DEFINE c == Continued(body)[p]
        <5>1. c = [ok |-> TRUE, data |-> SubSeq(r.image, i + 1, i + n)]
          BY <4>1
        <5> HIDE DEF c
        <5>2. c.ok /\ c.data = SubSeq(r.image, i + 1, i + n)
          BY <5>1
        <5> QED BY <5>2 DEF c
      <4> QED BY <3>3, <3>6, <3>7, <4>2 DEF RestOf, i
    <3>8. CASE body[p].more
      <4> DEFINE q == NextRecord(body, p)
                 c == Continued(body)[q]
      <4>1. q = p + n + 1 /\ <<q, i + n>> \in r.heads
        BY <3>3, <3>8 DEF NextRecord, n
      <4>2. RestOf(r, c, i + n)
        <5>1. q \in Good
          BY <1>2, <3>1
        <5>2. \A m2 \in r.heads : m2[1] = q => RestOf(r, Continued(body)[q], m2[2])
          BY <5>1
        <5>3. <<q, i + n>>[1] = q /\ <<q, i + n>>[2] = i + n
          OBVIOUS
        <5> HIDE DEF q
        <5> QED BY <4>1, <5>2, <5>3
      <4>3. c \in Found
        BY <1>1, <3>1, ContinuedDef
      <4>4. Continued(body)[p] = [c EXCEPT !.data = RecordData(body, p) \o @]
        BY <2>2, <2>4, <3>8
      <4> HIDE DEF c, q
      <4>5. /\ Continued(body)[p].ok = c.ok
            /\ Continued(body)[p].data = SubSeq(r.image, i + 1, i + n) \o c.data
        BY <3>5, <4>3, <4>4 DEF Found
      <4>6. ASSUME c.ok
            PROVE  \E e \in i..Len(r.image) :
                     /\ Continued(body)[p].data = SubSeq(r.image, i + 1, e)
                     /\ r.intact => e = Len(r.image)
        <5>1. PICK e \in (i + n)..Len(r.image) :
                /\ c.data = SubSeq(r.image, i + n + 1, e)
                /\ r.intact => e = Len(r.image)
          BY <4>2, <4>6 DEF RestOf
        <5>2. e \in i..Len(r.image) /\ e \in Nat /\ i + n <= e /\ e <= Len(r.image)
          BY SMT, <1>1, <2>1, <3>2, <3>6
        <5>3. SubSeq(r.image, i + 1, i + n) \o SubSeq(r.image, i + n + 1, e)
                = SubSeq(r.image, i + 1, e)
          <6>1. r.image \in Seq(Cell) /\ i \in Nat
            BY <1>1, <2>1
          <6> QED BY <3>6, <5>2, <6>1, PartsJoin
        <5> QED BY <4>5, <5>1, <5>2, <5>3
      <4> QED BY <4>2, <4>5, <4>6 DEF RestOf, i
    <3> QED BY <3>7, <3>8
  <2> QED BY <2>3, <2>4
<1>3. \A p \in 1..N : p \in Good
  <2> HIDE DEF Good, N
  <2> QED BY <1>1, <1>2, Downward
<1>4. ASSUME NEW m \in r.heads, m[1] <= Len(body) + 1
      PROVE  RestOf(r, Continued(body)[m[1]], m[2])
  <2>1. m[1] \in 1..N
    <3>1. m[1] \in Nat \ {0} /\ N = Len(body) + 1
      BY <1>1
    <3> HIDE DEF N
    <3> QED BY SMT, <1>1, <1>4, <3>1
  <2> QED BY <1>3, <2>1
<1> QED BY <1>4

\* So are those of the first image record, from the beginning.
LEMMA FirstImageIsImage ==
    ASSUME NEW r \in Reply, FromScanner(r)
    PROVE  RestOf(r, FirstImage(r.body)[1], 0)
<1> DEFINE body == r.body
           N == Len(body) + 1
           Good == {p \in 1..N : p \in r.before => RestOf(r, FirstImage(body)[p], 0)}
<1>1. /\ body \in Seq(Cell) /\ Len(body) \in Nat /\ N \in Nat
      /\ r.before \subseteq Nat \ {0}
  BY ReplyParts
<1>2. ASSUME NEW p \in 1..N, \A q \in 1..N : p < q => q \in Good
      PROVE  p \in Good
  <2> SUFFICES ASSUME p \in r.before
               PROVE  RestOf(r, FirstImage(body)[p], 0)
    OBVIOUS
  <2>1. BeforeSent(r, p)
    BY DEF FromScanner
  <2>2. FirstImage(body)[p] =
          IF ~RecordAt(body, p) THEN NoRecord
          ELSE IF body[p].kind = "image" THEN Continued(body)[p]
          ELSE FirstImage(body)[NextRecord(body, p)]
    BY <1>1, FirstImageDef
  <2>3. CASE HeaderLost(r, p)
    <3>1. ~RecordAt(body, p) /\ ~r.intact
      BY <2>3 DEF HeaderLost, RecordAt
    <3> QED BY <2>2, <3>1 DEF RestOf, NoRecord
  <2>4. CASE HeaderSent(r, p) /\ body[p].kind = "image" /\ <<p, 0>> \in r.heads
    <3>1. RestOf(r, Continued(body)[p], 0)
      <4>1. p <= Len(body) + 1
        BY SMT, <1>1
      <4>2. \A m \in r.heads : m[1] <= Len(body) + 1 => RestOf(r, Continued(body)[m[1]], m[2])
        BY ContinuedIsRest
      <4>3. <<p, 0>>[1] = p /\ <<p, 0>>[2] = 0
        OBVIOUS
      <4> HIDE DEF body
      <4> QED BY <2>4, <4>1, <4>2, <4>3
    <3>2. CASE RecordAt(body, p)
      BY <2>2, <2>4, <3>1, <3>2
    <3>3. CASE ~RecordAt(body, p)
      <4>1. Continued(body)[p] = NoRecord
        BY <1>1, <3>3, ContinuedDef
      <4> QED BY <2>2, <3>1, <3>3, <4>1
    <3> QED BY <3>2, <3>3
  <2>5. CASE HeaderSent(r, p) /\ body[p].kind = "record" /\ p + body[p].n + 1 \in r.before
    <3> DEFINE q == NextRecord(body, p)
    <3>1. q \in r.before
      BY <2>5 DEF NextRecord
    <3>2. CASE RecordAt(body, p)
      <4>1. q \in 1..N /\ p < q
        BY <1>1, <3>2, RecordParts
      <4>2. RestOf(r, FirstImage(body)[q], 0)
        BY <1>2, <3>1, <4>1
      <4> QED BY <2>2, <2>5, <3>2, <4>2
    <3>3. CASE ~RecordAt(body, p)
      <4>1. ~(p + body[p].n <= Len(body)) /\ body[p].n \in Nat
        <5>1. p \in 1..Len(body)
          BY SMT, <1>1, <2>5 DEF HeaderSent
        <5> QED BY <1>1, <2>5, <3>3, <5>1, CellParts DEF HeaderSent, RecordAt
      <4>2. BeforeSent(r, q) /\ q = p + body[p].n + 1
        BY <3>1 DEF FromScanner, NextRecord
      <4>3. ~(q <= Len(body))
        <5> DEFINE n == body[p].n
        <5>1. n \in Nat /\ ~(p + n <= Len(body)) /\ q = p + n + 1
          BY <4>1, <4>2
        <5> HIDE DEF n, q
        <5> QED BY SMT, <1>1, <5>1
      <4>4. ~r.intact
        BY <4>2, <4>3 DEF BeforeSent, HeaderLost, HeaderSent
      <4> QED BY <2>2, <3>3, <4>4 DEF RestOf, NoRecord
    <3> QED BY <3>2, <3>3
  <2> QED BY <2>1, <2>3, <2>4, <2>5 DEF BeforeSent
<1>3. \A p \in 1..N : p \in Good
  <2> HIDE DEF Good, N
  <2> QED BY <1>1, <1>2, Downward
<1>4. 1 \in 1..N
  BY <1>1, OneIn
<1> QED BY <1>3, <1>4 DEF FromScanner

\* From a body the scanner has made comes its image or none: an image that has been cut
\* does not end in the marker.
LEMMA ExtractedIsImage ==
    ASSUME NEW r \in Reply, FromScanner(r)
    PROVE  /\ ExtractImage(r.body) \in {<<>>, r.image}
           /\ r.intact => ExtractImage(r.body) = r.image
<1> DEFINE found == FirstImage(r.body)[1]
           image == r.image
<1>1. image \in Seq(Cell) /\ Len(image) \in Nat /\ r.body \in Seq(Cell)
  BY ReplyParts
<1>2. RestOf(r, found, 0)
  BY FirstImageIsImage
<1>3. Len(image) >= 2 /\ image[1].kind = "soi"
      /\ \A i \in 1..Len(image) : image[i].kind = "eoi" <=> i = Len(image)
  BY DEF FromScanner, Jpeg
<1>4. ExtractImage(r.body) = IF found.ok THEN WholeImage(found.data) ELSE <<>>
  BY DEF ExtractImage
<1> HIDE DEF found
<1>5. CASE ~found.ok
  BY <1>2, <1>4, <1>5 DEF RestOf
<1>6. CASE found.ok
  <2>1. PICK e \in 0..Len(image) : /\ found.data = SubSeq(image, 0 + 1, e)
                                   /\ r.intact => e = Len(image)
    BY <1>2, <1>6 DEF RestOf
  <2>2. found.data = SubSeq(image, 1, e)
    <3>1. 0 + 1 = 1
      BY SMT
    <3> QED BY <2>1, <3>1
  <2>3. CASE e = Len(image)
    <3>1. found.data = image
      BY <1>1, <2>2, <2>3, SubSeqFull
    <3>2. Len(image) \in 1..Len(image)
      BY SMT, <1>1, <1>3
    <3>3. WholeImage(image) = image
      BY <1>3, <3>2 DEF WholeImage
    <3> QED BY <1>4, <1>6, <3>1, <3>3
  <2>4. CASE e # Len(image)
    <3> HIDE DEF image
    <3>1. /\ Len(image) \in Nat /\ e \in Nat /\ e <= Len(image)
          /\ found.data \in Seq(Cell) /\ Len(found.data) = e
          /\ \A i \in 1..e : found.data[i] = image[i]
      BY Zenon, <1>1, <2>2, PrefixParts
    <3>2. WholeImage(found.data) = <<>>
      <4>1. CASE e >= 2
        <5>1. e \in 1..e /\ e \in 1..Len(image)
          BY SMT, <1>1, <3>1, <4>1
        <5>2. found.data[e].kind # "eoi"
          BY <1>3, <2>4, <3>1, <5>1 DEF image
        <5> QED BY <3>1, <5>2 DEF WholeImage
      <4>2. CASE ~(e >= 2)
        BY <3>1, <4>2 DEF WholeImage
      <4> QED BY <4>1, <4>2
    <3>3. ~r.intact
      BY <2>1, <2>4
    <3> QED BY <1>4, <1>6, <3>2, <3>3
  <2> QED BY <2>3, <2>4
<1> QED BY <1>5, <1>6

\* What the first k cells of a reply hold from a chunk on, which comes after b cells of the
\* body: the rest of the body if they are all, and nothing is amiss before.
Carries(r, k, found, b) ==
    /\ found.verdict = "complete" =>
         k = Len(r.cells) /\ found.body = SubSeq(r.body, b + 1, Len(r.body))
    /\ r.intact /\ Len(r.cells) <= MaxResponse =>
         found.verdict = IF k < Len(r.cells) THEN "incomplete" ELSE "complete"

\* raw is the first k cells of a reply.
Received(raw, cells, k) ==
    raw \in Seq(Cell) /\ Len(raw) = k /\ \A i \in 1..k : raw[i] = cells[i]

\* Where nothing of a chunk has come, where its line is none, and where it is the last.
LEMMA StopsCarry ==
    ASSUME NEW r \in Reply, NEW k \in 0..Len(r.cells), NEW raw, Received(raw, r.cells, k),
           FromScanner(r), NEW m \in r.lines, m[1] <= k + 1, ~ChunkAt(raw, m[1])
    PROVE  Carries(r, k, Stops(raw, m[1]), m[2])
<1> DEFINE p == m[1]
           b == m[2]
           n == r.cells[p].n
           cells == r.cells
           body == r.body
<1>1. /\ cells \in Seq(Cell) /\ Len(cells) \in Nat /\ body \in Seq(Cell) /\ Len(body) \in Nat
      /\ p \in Nat \ {0} /\ b \in Nat /\ MaxResponse \in Nat
  BY ReplyParts, ImageAssumption
<1>2. k \in Nat /\ k <= Len(cells) /\ Len(raw) = k /\ \A i \in 1..k : raw[i] = cells[i]
  <2>1. k \in Nat /\ k <= Len(cells)
    BY SMT, <1>1
  <2> QED BY <2>1 DEF Received
<1> ChunkSent(r, p, b)
  BY DEF FromScanner
<1>3. CASE p > k
  <2>1. p > Len(raw) /\ p..Len(raw) = {} /\ p = k + 1
    BY SMT, <1>1, <1>2, <1>3
  <2>2. Stops(raw, p) = Incomplete
    BY <2>1 DEF Stops, NoSize
  <2>3. r.intact => k < Len(cells)
    <3>1. r.intact => p <= Len(cells)
      BY DEF ChunkSent
    <3> QED BY SMT, <1>1, <1>2, <1>3, <3>1
  <2> QED BY <2>2, <2>3 DEF Carries, Incomplete
<1>4. CASE ~(p > k)
  <2>1. p \in 1..k /\ p \in 1..Len(cells) /\ p <= Len(cells) /\ p <= Len(raw) /\ ~(p > Len(raw))
    BY SMT, <1>1, <1>2, <1>4
  <2>2. raw[p] = cells[p] /\ n \in Nat
    BY <1>1, <1>2, <2>1, CellParts
  <2>3. CASE ~r.intact /\ cells[p].kind # "line"
    <3>1. Stops(raw, p) = NoSize(raw, p)
      BY <2>2, <2>3 DEF Stops
    <3>2. Stops(raw, p).verdict # "complete"
      BY <3>1 DEF NoSize, Incomplete, Malformed
    <3> QED BY <2>3, <3>2 DEF Carries
  <2>4. CASE /\ cells[p].kind = "line" /\ n = 0 /\ b = Len(body)
             /\ p + 1 <= Len(cells) => cells[p + 1].kind = "crlf"
             /\ Len(cells) <= p + 1 /\ (r.intact => Len(cells) = p + 1)
    <3>1. Stops(raw, p) = LastChunk(raw, p + 1)
      <4>1. ~(n > MaxResponse) /\ p + n + 1 = p + 1
        BY SMT, <1>1, <2>4
      <4> QED BY <2>1, <2>2, <2>4, <4>1 DEF Stops
    <3>2. CASE p + 1 > k
      <4>1. Stops(raw, p) = Incomplete
        BY <1>2, <3>1, <3>2 DEF LastChunk
      <4>2. r.intact => k < Len(cells)
        BY SMT, <1>1, <1>2, <2>4, <3>2
      <4> QED BY <4>1, <4>2 DEF Carries, Incomplete
    <3>3. CASE ~(p + 1 > k)
      <4>1. k = Len(cells) /\ ~(k < Len(cells)) /\ p + 1 \in 1..k /\ p + 1 <= Len(cells)
        BY SMT, <1>1, <1>2, <2>1, <2>4, <3>3
      <4>2. Stops(raw, p) = Complete(<<>>)
        BY <1>2, <2>4, <3>1, <3>3, <4>1 DEF LastChunk
      <4>3. SubSeq(body, b + 1, Len(body)) = <<>>
        <5>1. b + 1 \in Int /\ Len(body) \in Int /\ Len(body) < b + 1
          BY SMT, <1>1, <2>4
        <5> QED BY <5>1, SubSeqEmpty
      <4>4. Stops(raw, p).verdict = "complete" /\ Stops(raw, p).body = <<>>
        BY <4>2 DEF Complete
      <4> QED BY <4>1, <4>3, <4>4 DEF Carries
    <3> QED BY <3>2, <3>3
  <2>5. CASE /\ cells[p].kind = "line" /\ n # 0
             /\ p + n + 1 <= Len(cells) => cells[p + n + 1].kind = "crlf"
             /\ <<p + n + 2, b + n>> \in r.lines
    <3>1. Stops(raw, p).verdict # "complete"
      BY <2>1, <2>2, <2>5 DEF Stops, Incomplete, Malformed
    <3>2. ASSUME r.intact, Len(cells) <= MaxResponse
          PROVE  k < Len(cells) /\ Stops(raw, p) = Incomplete
      <4>1. p + n + 2 <= Len(cells)
        <5> DEFINE q == p + n + 2
        <5>1. ChunkSent(r, q, b + n)
          <6>1. \A x \in r.lines : ChunkSent(r, x[1], x[2])
            BY DEF FromScanner
          <6>2. <<q, b + n>>[1] = q /\ <<q, b + n>>[2] = b + n
            OBVIOUS
          <6> HIDE DEF q
          <6> QED BY <2>5, <6>1, <6>2 DEF q
        <5> QED BY <3>2, <5>1 DEF ChunkSent
      <4>2. ~(n > MaxResponse) /\ n <= MaxResponse /\ p + n + 1 <= Len(cells)
        <5> HIDE DEF n, cells
        <5> QED BY SMT, <1>1, <2>2, <3>2, <4>1
      <4>3. p + n + 1 > k
        <5>1. CASE p + n + 1 <= k
          <6>1. p + n + 1 \in 1..k
            BY SMT, <1>1, <1>2, <2>2, <5>1
          <6>2. ChunkAt(raw, p)
            BY <1>2, <2>1, <2>2, <2>5, <4>2, <5>1, <6>1 DEF ChunkAt
          <6> QED BY <6>2
        <5>2. p + n + 1 \in Int
          BY SMT, <1>1, <2>2
        <5> QED BY SMT, <1>2, <5>1, <5>2
      <4>4. k < Len(cells)
        BY SMT, <1>1, <1>2, <2>2, <4>2, <4>3
      <4> QED BY <1>2, <2>1, <2>2, <2>5, <4>2, <4>3, <4>4 DEF Stops
    <3> QED BY <3>1, <3>2 DEF Carries, Incomplete
  <2> QED BY <2>1, <2>3, <2>4, <2>5 DEF ChunkSent
<1> QED BY <1>3, <1>4

LEMMA ChunksCarry ==
    ASSUME NEW r \in Reply, FromScanner(r), NEW k \in 0..Len(r.cells),
           NEW raw, Received(raw, r.cells, k)
    PROVE  \A m \in r.lines : m[1] <= k + 1 => Carries(r, k, Chunks(raw)[m[1]], m[2])
<1> DEFINE cells == r.cells
           body == r.body
           N == k + 1
           Good == {p \in 1..N : \A m \in r.lines :
                      m[1] = p => Carries(r, k, Chunks(raw)[p], m[2])}
<1>1. /\ cells \in Seq(Cell) /\ Len(cells) \in Nat /\ body \in Seq(Cell) /\ Len(body) \in Nat
      /\ \A m \in r.lines : m[1] \in Nat \ {0} /\ m[2] \in Nat
  BY ReplyParts
<1>2. /\ k \in Nat /\ k <= Len(cells) /\ Len(raw) = k /\ raw \in Seq(Cell)
      /\ \A i \in 1..k : raw[i] = cells[i]
  <2>1. k \in Nat /\ k <= Len(cells)
    BY SMT, <1>1
  <2> QED BY <2>1 DEF Received
<1>3. N \in Nat
  BY SMT, <1>2
<1>4. ASSUME NEW p \in 1..N, \A q \in 1..N : p < q => q \in Good
      PROVE  p \in Good
  <2> SUFFICES ASSUME NEW m \in r.lines, m[1] = p
               PROVE  Carries(r, k, Chunks(raw)[p], m[2])
    OBVIOUS
  <2> DEFINE b == m[2]
             n == cells[p].n
  <2>1. b \in Nat /\ p \in Nat /\ p <= k + 1 /\ ChunkSent(r, p, b)
    <3>1. p \in Nat /\ p <= k + 1
      BY SMT, <1>2
    <3> QED BY <1>1, <3>1 DEF FromScanner
  <2>2. Chunks(raw)[p] =
          IF ChunkAt(raw, p) THEN Before(raw, p, Chunks(raw)[NextChunk(raw, p)])
          ELSE Stops(raw, p)
    BY <1>2, ChunksDef
  <2>3. CASE ~ChunkAt(raw, p)
    BY <2>1, <2>2, <2>3, StopsCarry
  <2>4. CASE ChunkAt(raw, p)
    <3>1. NextChunk(raw, p) \in 1..N /\ p < NextChunk(raw, p)
      BY <1>2, <2>4, ChunkParts
    <3>2. p \in 1..k /\ p \in 1..Len(cells)
      BY SMT, <1>1, <1>2, <2>4 DEF ChunkAt
    <3>3. raw[p] = cells[p] /\ n \in Nat
      BY <1>1, <1>2, <3>2, CellParts
    <3>4. n # 0 /\ cells[p].kind = "line" /\ p + n + 1 <= k
      BY <1>2, <2>4, <3>3 DEF ChunkAt
    <3>5. /\ b + n <= Len(body)
          /\ \A i \in 1..n : p + i <= Len(cells) => cells[p + i] = body[b + i]
          /\ <<p + n + 2, b + n>> \in r.lines
      BY <2>1, <3>2, <3>4 DEF ChunkSent
    <3> HIDE DEF n, b, cells, body
    <3>6. ChunkData(raw, p) = SubSeq(body, b + 1, b + n)
      <4>1. \A i \in 1..n : p + i \in 1..k /\ p + i <= Len(cells)
        BY SMT, <1>1, <1>2, <2>1, <3>3, <3>4
      <4>2. p + n <= Len(raw)
        BY SMT, <1>2, <2>1, <3>3, <3>4
      <4>3. SameAt(raw, p, body, b, n)
        BY <1>2, <3>5, <4>1, <4>2 DEF SameAt
      <4>4. /\ raw \in Seq(Cell) /\ body \in Seq(Cell)
            /\ p \in Nat /\ b \in Nat /\ n \in Nat
        BY <1>1, <1>2, <2>1, <3>3
      <4>5. SubSeq(raw, p + 1, p + n) = SubSeq(body, b + 1, b + n)
        BY <4>3, <4>4, SameCells
      <4> QED BY <3>3, <4>5 DEF ChunkData, n
    <3> DEFINE q == NextChunk(raw, p)
               c == Chunks(raw)[q]
    <3>7. <<q, b + n>> \in r.lines
      BY <3>3, <3>5 DEF NextChunk, n
    <3>8. Carries(r, k, c, b + n)
      <4>1. \A x \in r.lines : x[1] = q => Carries(r, k, Chunks(raw)[q], x[2])
        BY <1>4, <3>1
      <4>2. <<q, b + n>>[1] = q /\ <<q, b + n>>[2] = b + n
        OBVIOUS
      <4> HIDE DEF q
      <4> QED BY <3>7, <4>1, <4>2
    <3>9. c \in Verdict
      BY <1>2, <3>1, ChunksDef
    <3>10. Chunks(raw)[p] = Before(raw, p, c)
      BY <2>2, <2>4
    <3> HIDE DEF c, q
    <3>11. /\ Chunks(raw)[p].verdict = c.verdict
           /\ c.verdict = "complete" =>
                Chunks(raw)[p].body = SubSeq(body, b + 1, b + n) \o c.body
      BY <3>6, <3>9, <3>10 DEF Before, Verdict
    <3>12. SubSeq(body, b + 1, b + n) \o SubSeq(body, b + n + 1, Len(body))
             = SubSeq(body, b + 1, Len(body))
      <4>1. /\ b + n \in Nat /\ b <= b + n /\ b + n <= Len(body) /\ Len(body) \in Nat
            /\ Len(body) <= Len(body)
        BY SMT, <1>1, <2>1, <3>3, <3>5
      <4>2. body \in Seq(Cell) /\ b \in Nat
        BY <1>1, <2>1
      <4> QED BY <4>1, <4>2, PartsJoin
    <3> QED BY <3>8, <3>11, <3>12 DEF Carries, b, cells, body
  <2> QED BY <2>3, <2>4
<1>5. \A p \in 1..N : p \in Good
  <2> HIDE DEF Good, N
  <2> QED BY <1>3, <1>4, Downward
<1>6. ASSUME NEW m \in r.lines, m[1] <= k + 1
      PROVE  Carries(r, k, Chunks(raw)[m[1]], m[2])
  <2>1. m[1] \in 1..N
    <3>1. m[1] \in Nat \ {0}
      BY <1>1
    <3> QED BY SMT, <1>2, <1>6, <3>1
  <2> QED BY <1>5, <2>1
<1> QED BY <1>6

\* dechunk_try on the first k cells of what a scanner sent.
LEMMA DechunkedReply ==
    ASSUME NEW r \in Reply, FromScanner(r), NEW k \in 0..Len(r.cells)
    PROVE  LET found == Dechunk(SubSeq(r.cells, 1, k)) IN
           /\ found.verdict = "complete" => k = Len(r.cells) /\ found.body = r.body
           /\ r.intact /\ Len(r.cells) <= MaxResponse =>
                found.verdict = IF k < Len(r.cells) THEN "incomplete" ELSE "complete"
<1> DEFINE raw == SubSeq(r.cells, 1, k)
<1>1. r.body \in Seq(Cell) /\ SubSeq(r.body, 0 + 1, Len(r.body)) = r.body
  <2>1. r.body \in Seq(Cell) /\ 0 + 1 = 1
    BY SMT, ReplyParts
  <2> QED BY <2>1, SubSeqFull
<1>2. Carries(r, k, Chunks(raw)[1], 0)
  <2>1. <<1, 0>> \in r.lines /\ <<1, 0>>[1] = 1 /\ <<1, 0>>[2] = 0
    BY DEF FromScanner
  <2>2. 1 <= k + 1
    <3>1. Len(r.cells) \in Nat
      BY ReplyParts
    <3> QED BY SMT, <3>1
  <2>3. Received(raw, r.cells, k)
    <3>1. r.cells \in Seq(Cell)
      BY ReplyParts
    <3>2. raw \in Seq(Cell) /\ Len(raw) = k /\ \A i \in 1..k : raw[i] = r.cells[i]
      BY Zenon, <3>1, PrefixParts
    <3> QED BY <3>2 DEF Received
  <2>4. \A m \in r.lines : m[1] <= k + 1 => Carries(r, k, Chunks(raw)[m[1]], m[2])
    <3> HIDE DEF raw
    <3> QED BY <2>3, ChunksCarry
  <2> HIDE DEF raw
  <2> QED BY <2>1, <2>2, <2>4
<1> QED BY <1>1, <1>2 DEF Carries, Dechunk

-----------------------------------------------------------------------------
(* The buffer *)

\* No image is held, and nothing of one has been given, before its reply is complete.
Buffering ==
    /\ off <= Len(jpeg)
    /\ stage \in {"idle", "receive"} => taken = <<>>
    /\ stage \in {"idle", "receive", "failed"} => jpeg = <<>> /\ off = 0 /\ buf = <<>>

IInv == ImageTypeOK /\ Buffering /\ BufferedInOrder

LEMMA NoneHeld ==
    /\ <<>> \in Seq(Cell) /\ Len(<<>>) = 0 /\ 0 \in Nat /\ 0 <= 0
    /\ \A s \in Seq(Cell) : <<>> \o <<>> = SubSeq(s, 1, 0) /\ 0 <= Len(s)
<1>1. <<>> \in Seq(Cell) /\ Len(<<>>) = 0
  BY EmptySeq
<1>2. ASSUME NEW s \in Seq(Cell) PROVE <<>> \o <<>> = SubSeq(s, 1, 0) /\ 0 <= Len(s)
  <2>1. SubSeq(s, 1, 0) = <<>>
    BY SubSeqEmpty
  <2>2. <<>> \o <<>> = <<>>
    BY <1>1, ConcatEmptySeq
  <2>3. Len(s) \in Nat
    BY LenProperties
  <2>4. 0 <= Len(s)
    BY SMT, <2>3
  <2> QED BY <2>1, <2>2, <2>4
<1> QED BY SMT, <1>1, <1>2

LEMMA FailedKeeps ==
    ASSUME IInv, NEW status \in {"IO_ERROR", "JAMMED", "CANCELLED"}, Failed(status),
           reply' = reply, got' \in Nat, user_cancel' = user_cancel, taken' = taken
    PROVE  IInv'
<1>1. jpeg' = <<>> /\ off' = 0 /\ buf' = <<>> /\ stage' = "failed" /\ outcome' = status
  BY DEF Failed
<1>2. ImageTypeOK'
  BY <1>1, NoneHeld DEF IInv, ImageTypeOK
<1>3. Buffering'
  BY <1>1, NoneHeld DEF Buffering
<1>4. BufferedInOrder'
  BY <1>1 DEF BufferedInOrder
<1> QED BY <1>2, <1>3, <1>4 DEF IInv

LEMMA InitBuffer == ImageInit => IInv
<1> SUFFICES ASSUME ImageInit PROVE IInv
  OBVIOUS
<1>1. ImageTypeOK
  BY NoneHeld DEF ImageInit, ImageTypeOK
<1>2. Buffering
  BY NoneHeld DEF ImageInit, Buffering
<1>3. BufferedInOrder
  BY DEF ImageInit, BufferedInOrder
<1> QED BY <1>1, <1>2, <1>3 DEF IInv

LEMMA ReplyCells ==
    ASSUME ImageTypeOK
    PROVE  reply.cells \in Seq(Cell)
<1>1. CASE reply \in Replies
  <2>1. reply \in Reply
    BY <1>1, ImageAssumption
  <2> QED BY <2>1 DEF Reply
<1>2. CASE reply = NoReply
  BY <1>2, EmptySeq DEF NoReply
<1> QED BY <1>1, <1>2 DEF ImageTypeOK

\* The image of a complete reply is a sequence of cells.
LEMMA ImageRead ==
    ASSUME ImageTypeOK, NEW k \in 1..ReadSize, Reading(k)
    PROVE  ExtractImage(Read(k).body) \in Seq(Cell) /\ got' \in Nat
<1>1. ReadSize \in Nat
  BY ImageAssumption
<1>2. got' \in Nat /\ got + k \in Nat /\ got + k <= Len(reply.cells) /\ k \in Nat
  BY SMT, <1>1 DEF Reading, ImageTypeOK
<1>3. reply.cells \in Seq(Cell) /\ Len(reply.cells) \in Nat
  BY ReplyCells, LenProperties
<1> DEFINE n == got + k
<1>4. n \in 0..Len(reply.cells)
  BY SMT, <1>2, <1>3
<1>5. SubSeq(reply.cells, 1, n) \in Seq(Cell)
  <2> HIDE DEF n
  <2> QED BY <1>3, <1>4, PrefixParts
<1>6. Read(k).body \in Seq(Cell)
  BY <1>5, DechunkOK DEF Read
<1> QED BY <1>2, <1>6, ImageForm

LEMMA ReceiveKeeps ==
    ASSUME IInv, NEW k \in 1..ReadSize, ReceivePart(k) \/ ReceiveBad(k) \/ ReceiveEnd(k)
    PROVE  IInv'
<1>1. Reading(k) /\ ImageTypeOK /\ Buffering /\ stage = "receive"
  BY DEF ReceivePart, ReceiveBad, ReceiveEnd, Reading, IInv
<1>2. ExtractImage(Read(k).body) \in Seq(Cell) /\ got' \in Nat
  BY <1>1, ImageRead
<1>3. CASE ReceivePart(k)
  <2>1. ImageTypeOK'
    BY <1>1, <1>2, <1>3 DEF ReceivePart, ImageTypeOK
  <2>2. Buffering'
    BY <1>1, <1>3 DEF ReceivePart, Buffering
  <2>3. BufferedInOrder'
    BY <1>1, <1>3 DEF ReceivePart, BufferedInOrder
  <2> QED BY <2>1, <2>2, <2>3 DEF IInv
<1>4. CASE ReceiveBad(k)
  BY <1>2, <1>4, FailedKeeps DEF ReceiveBad
<1>5. CASE ReceiveEnd(k)
  <2> DEFINE image == ExtractImage(Read(k).body)
  <2>1. /\ reply' = reply /\ user_cancel' = user_cancel /\ taken' = taken
        /\ \/ \E status \in {"IO_ERROR", "JAMMED", "CANCELLED"} : Failed(status)
           \/ /\ jpeg' = image /\ off' = 0 /\ stage' = "serve"
              /\ buf' = buf /\ outcome' = outcome
    BY <1>5 DEF ReceiveEnd
  <2>2. CASE \E status \in {"IO_ERROR", "JAMMED", "CANCELLED"} : Failed(status)
    BY <1>2, <2>1, <2>2, FailedKeeps
  <2>3. CASE /\ jpeg' = image /\ off' = 0 /\ stage' = "serve"
             /\ buf' = buf /\ outcome' = outcome
    <3>1. buf = <<>> /\ taken = <<>> /\ image \in Seq(Cell)
      BY <1>1, <1>2 DEF Buffering
    <3> HIDE DEF image
    <3>2. ImageTypeOK'
      BY <1>1, <1>2, <2>1, <2>3, <3>1, NoneHeld DEF ImageTypeOK
    <3>3. Buffering'
      BY <2>3, <3>1, NoneHeld DEF Buffering
    <3>4. BufferedInOrder'
      BY <2>1, <2>3, <3>1, NoneHeld DEF BufferedInOrder
    <3> QED BY <3>2, <3>3, <3>4 DEF IInv
  <2> QED BY <2>1, <2>2, <2>3
<1> QED BY <1>3, <1>4, <1>5

\* A piece lies in the rest of the image.
LEMMA PieceFits ==
    ASSUME IInv, NEW max \in MaxLengths, off < Len(jpeg)
    PROVE  /\ Len(jpeg) \in Nat /\ off \in 0..Len(jpeg)
           /\ off + Piece(max) \in off..Len(jpeg) /\ off + Piece(max) \in Nat
<1>1. jpeg \in Seq(Cell) /\ off \in Nat
  BY DEF IInv, ImageTypeOK
<1>2. Len(jpeg) \in Nat
  BY <1>1, LenProperties
<1>3. BufferSize \in Nat /\ max \in Nat
  BY ImageAssumption
<1> QED BY SMT, <1>1, <1>2, <1>3 DEF Piece

LEMMA FillKeeps ==
    ASSUME IInv, NEW max \in MaxLengths, Fill(max)
    PROVE  IInv'
<1> DEFINE m == off + Piece(max)
<1>1. /\ stage = "serve" /\ off < Len(jpeg) /\ buf = <<>>
      /\ buf' = SubSeq(jpeg, off + 1, m) /\ off' = m
      /\ jpeg' = jpeg /\ taken' = taken /\ stage' = stage
  BY DEF Fill, BufferEmpty
<1>2. Len(jpeg) \in Nat /\ off \in 0..Len(jpeg) /\ m \in off..Len(jpeg) /\ m \in Nat
  BY <1>1, PieceFits
<1> HIDE DEF m
<1>3. jpeg \in Seq(Cell) /\ taken \in Seq(Cell)
  BY DEF IInv, ImageTypeOK
<1>4. SubSeq(jpeg, off + 1, m) \in Seq(Cell)
  <2>1. off + 1 \in Int /\ m \in Int /\ \A i \in (off + 1)..m : i \in 1..Len(jpeg)
    BY SMT, <1>2
  <2>2. \A i \in (off + 1)..m : jpeg[i] \in Cell
    BY <1>3, <2>1, ElementOfSeq
  <2> QED BY <2>1, <2>2, SubSeqProperties
<1>5. ImageTypeOK'
  BY <1>1, <1>2, <1>4 DEF Fill, IInv, ImageTypeOK
<1>6. Buffering'
  <2>1. m <= Len(jpeg)
    BY SMT, <1>2
  <2> QED BY <1>1, <2>1 DEF Buffering
<1>7. BufferedInOrder'
  <2>1. taken = SubSeq(jpeg, 1, off)
    <3>1. taken \o buf = SubSeq(jpeg, 1, off)
      BY <1>1 DEF IInv, BufferedInOrder
    <3> QED BY <1>1, <1>3, <3>1, ConcatEmptySeq
  <2>2. SubSeq(jpeg, 1, off) \o SubSeq(jpeg, off + 1, m) = SubSeq(jpeg, 1, m)
    <3>1. 1 \in 1..Len(jpeg) + 1 /\ off \in 1 - 1..Len(jpeg)
      BY SMT, <1>2
    <3> QED BY <1>2, <1>3, <3>1, ConcatAdjacentSubSeq
  <2> QED BY <1>1, <2>1, <2>2 DEF BufferedInOrder
<1> QED BY <1>5, <1>6, <1>7 DEF IInv

LEMMA TakeKeeps ==
    ASSUME IInv, NEW k \in 1..BufferSize, Take(k)
    PROVE  IInv'
<1> DEFINE a == SubSeq(buf, 1, k)
           b == SubSeq(buf, k + 1, Len(buf))
<1>1. buf \in Seq(Cell) /\ taken \in Seq(Cell)
  BY DEF IInv, ImageTypeOK
<1>2. /\ stage = "serve" /\ k <= Len(buf) /\ taken' = taken \o a /\ buf' = b
      /\ jpeg' = jpeg /\ off' = off /\ stage' = stage
  BY DEF Take
<1>3. Len(buf) \in Nat /\ BufferSize \in Nat
  BY <1>1, LenProperties, ImageAssumption
<1>4. /\ k \in 0..Len(buf) /\ k \in 1 - 1..Len(buf) /\ 1 \in 1..Len(buf) + 1
      /\ Len(buf) \in k..Len(buf)
  BY SMT, <1>2, <1>3
<1>5. a \in Seq(Cell)
  BY <1>1, <1>4, PrefixParts
<1>6. b \in Seq(Cell)
  <2>1. k + 1 \in Int /\ Len(buf) \in Int /\ \A i \in (k + 1)..Len(buf) : i \in 1..Len(buf)
    BY SMT, <1>3, <1>4
  <2>2. \A i \in (k + 1)..Len(buf) : buf[i] \in Cell
    BY <1>1, <2>1, ElementOfSeq
  <2> QED BY <2>1, <2>2, SubSeqProperties
<1>7. a \o b = buf
  <2>1. a \o b = SubSeq(buf, 1, Len(buf))
    BY <1>1, <1>4, ConcatAdjacentSubSeq
  <2> QED BY <1>1, <2>1, SubSeqFull
<1> HIDE DEF a, b
<1>8. taken \o a \in Seq(Cell)
  BY <1>1, <1>5, ConcatProperties
<1>9. ImageTypeOK'
  BY <1>2, <1>6, <1>8 DEF Take, IInv, ImageTypeOK
<1>10. Buffering'
  BY <1>2 DEF IInv, Buffering
<1>11. BufferedInOrder'
  <2>1. (taken \o a) \o b = taken \o buf
    <3>1. (taken \o a) \o b = taken \o (a \o b)
      BY <1>1, <1>5, <1>6, ConcatAssociative
    <3> QED BY Zenon, <1>7, <3>1
  <2> QED BY <1>2, <2>1 DEF IInv, BufferedInOrder
<1> QED BY <1>9, <1>10, <1>11 DEF IInv

LEMMA NextBuffer == IInv /\ [ImageNext]_imageVars => IInv'
<1> SUFFICES ASSUME IInv, [ImageNext]_imageVars PROVE IInv'
  OBVIOUS
<1>1. CASE UNCHANGED imageVars
  BY <1>1 DEF IInv, ImageTypeOK, Buffering, BufferedInOrder, imageVars
<1>2. CASE RetrieveImage
  <2>1. jpeg' = <<>> /\ off' = 0 /\ buf' = <<>> /\ taken' = <<>> /\ stage' = "receive"
    BY <1>2 DEF RetrieveImage, IInv, Buffering
  <2>2. ImageTypeOK'
    BY <1>2, <2>1, NoneHeld DEF RetrieveImage, IInv, ImageTypeOK
  <2>3. Buffering'
    BY <2>1, NoneHeld DEF Buffering
  <2>4. BufferedInOrder'
    BY <2>1 DEF BufferedInOrder
  <2> QED BY <2>2, <2>3, <2>4 DEF IInv
<1>3. ASSUME NEW k \in 1..ReadSize, ReceivePart(k) \/ ReceiveBad(k) \/ ReceiveEnd(k)
      PROVE  IInv'
  BY <1>3, ReceiveKeeps
<1>4. CASE ReceiveFails
  <2>1. got' \in Nat
    BY <1>4 DEF ReceiveFails, IInv, ImageTypeOK
  <2> QED BY <1>4, <2>1, FailedKeeps DEF ReceiveFails
<1>5. ASSUME NEW max \in MaxLengths, Fill(max) PROVE IInv'
  BY <1>5, FillKeeps
<1>6. CASE NoMore
  BY <1>6 DEF NoMore, IInv, ImageTypeOK, Buffering, BufferedInOrder
<1>7. ASSUME NEW k \in 1..BufferSize, Take(k) PROVE IInv'
  BY <1>7, TakeKeeps
<1>8. CASE Refuse
  <2>1. got' \in Nat
    BY <1>8 DEF Refuse, IInv, ImageTypeOK
  <2> QED BY <1>8, <2>1, FailedKeeps DEF Refuse
<1>9. CASE FreeImage
  <2>1. jpeg' = <<>> /\ off' = 0 /\ buf' = <<>> /\ taken' = <<>> /\ stage' = "idle"
    BY <1>9 DEF FreeImage
  <2>2. ImageTypeOK'
    BY <1>9, <2>1, NoneHeld DEF FreeImage, IInv, ImageTypeOK
  <2>3. Buffering'
    BY <2>1, NoneHeld DEF Buffering
  <2>4. BufferedInOrder'
    BY <2>1 DEF BufferedInOrder
  <2> QED BY <2>2, <2>3, <2>4 DEF IInv
<1>10. CASE Cancel
  BY <1>10 DEF Cancel, IInv, ImageTypeOK, Buffering, BufferedInOrder
<1> QED BY <1>1, <1>2, <1>3, <1>4, <1>5, <1>6, <1>7, <1>8, <1>9, <1>10 DEF ImageNext

LEMMA AlwaysIInv == ImageSpec => []IInv
BY InitBuffer, NextBuffer, PTL DEF ImageSpec

\* Types: whatever a scanner answers, the image held and the buffer are cells of replies.
THEOREM ImageTypeCorrect == ImageSpec => []ImageTypeOK
<1>1. IInv => ImageTypeOK
  BY DEF IInv
<1> QED BY <1>1, AlwaysIInv, PTL

\* Nothing of the image held is skipped, repeated or overwritten in the buffer.
THEOREM BufferedOrder == ImageSpec => []BufferedInOrder
<1>1. IInv => BufferedInOrder
  BY DEF IInv
<1> QED BY <1>1, AlwaysIInv, PTL

-----------------------------------------------------------------------------
(* The image held is the scanner's *)

\* A reply that has been read for an image was read to its end, and the image is what the
\* scanner made it of; what has been taken is a beginning of it.
TheImageHeld ==
    /\ IF stage = "idle" THEN reply = NoReply ELSE reply \in Replies
    /\ stage \in {"serve", "end"} => jpeg = reply.image /\ got = Len(reply.cells)
    /\ PageIsTheImage

LEMMA NoneTaken ==
    ASSUME NEW s \in Seq(Cell)
    PROVE  IsBeginning(<<>>, s)
<1>1. Len(<<>>) = 0 /\ SubSeq(s, 1, 0) = <<>> /\ 0 <= Len(s)
  BY NoneHeld, SubSeqEmpty
<1> QED BY <1>1 DEF IsBeginning

LEMMA TakenIsBeginning ==
    ASSUME NEW a \in Seq(Cell), NEW b \in Seq(Cell), NEW s \in Seq(Cell),
           NEW o \in Nat, o <= Len(s), a \o b = SubSeq(s, 1, o)
    PROVE  IsBeginning(a, s)
<1> DEFINE l == Len(a)
           t == SubSeq(s, 1, l)
<1>1. Len(a) \in Nat /\ Len(b) \in Nat /\ Len(s) \in Nat
  BY LenProperties
<1>2. o \in 0..Len(s)
  BY SMT, <1>1
<1>3. Len(a \o b) = o /\ \A i \in 1..o : (a \o b)[i] = s[i]
  BY Zenon, <1>2, PrefixParts
<1>4. Len(a \o b) = l + Len(b) /\ \A i \in 1..l : (a \o b)[i] = a[i]
  <2>1. \A i \in 1..l : i \in 1..Len(a) + Len(b) /\ i <= Len(a)
    BY SMT, <1>1
  <2> QED BY <2>1, ConcatProperties
<1> HIDE DEF l
<1>5. l \in Nat /\ l <= Len(s) /\ l \in 0..Len(s) /\ \A i \in 1..l : i \in 1..o
  BY SMT, <1>1, <1>2, <1>3, <1>4 DEF l
<1>6. t \in Seq(Cell) /\ Len(t) = l /\ \A i \in 1..l : t[i] = s[i]
  BY Zenon, <1>5, PrefixParts
<1> HIDE DEF t
<1>7. \A i \in 1..l : a[i] = t[i]
  BY <1>3, <1>4, <1>5, <1>6
<1>8. a = t
  BY <1>6, <1>7, SeqEqual DEF l
<1> QED BY <1>5, <1>8 DEF IsBeginning, l, t

\* What one more read makes of a scanner's reply.
LEMMA ReadReply ==
    ASSUME ImageTypeOK, reply \in Replies, NEW k \in 1..ReadSize,
           got + k <= Len(reply.cells)
    PROVE  /\ Read(k).verdict = "complete" =>
                /\ got + k = Len(reply.cells)
                /\ ExtractImage(Read(k).body) \in {<<>>, reply.image}
                /\ reply.intact => ExtractImage(Read(k).body) = reply.image
           /\ reply.intact /\ Len(reply.cells) <= MaxResponse =>
                Read(k).verdict = IF got + k < Len(reply.cells) THEN "incomplete"
                                  ELSE "complete"
<1>1. reply \in Reply /\ FromScanner(reply) /\ ReadSize \in Nat
  BY ImageAssumption, ScannerAssumption
<1> DEFINE n == got + k
           found == Dechunk(SubSeq(reply.cells, 1, n))
<1>2. n \in 0..Len(reply.cells)
  <2>1. Len(reply.cells) \in Nat /\ got \in Nat
    BY <1>1, ReplyParts DEF ImageTypeOK
  <2> QED BY SMT, <1>1, <2>1
<1>3. Read(k) = found
  BY DEF Read
<1> HIDE DEF n
<1>4. /\ found.verdict = "complete" => n = Len(reply.cells) /\ found.body = reply.body
      /\ reply.intact /\ Len(reply.cells) <= MaxResponse =>
           found.verdict = IF n < Len(reply.cells) THEN "incomplete" ELSE "complete"
  BY <1>1, <1>2, DechunkedReply
<1>5. /\ ExtractImage(reply.body) \in {<<>>, reply.image}
      /\ reply.intact => ExtractImage(reply.body) = reply.image
  BY <1>1, ExtractedIsImage
<1> HIDE DEF found
<1> QED BY <1>3, <1>4, <1>5 DEF n

LEMMA HeldInit == ImageInit => TheImageHeld
<1>1. <<>> \in Seq(Cell) /\ NoReply.image = <<>>
  BY EmptySeq DEF NoReply
<1> QED BY <1>1, NoneTaken DEF ImageInit, TheImageHeld, PageIsTheImage

LEMMA HeldUnlessRead ==
    ASSUME TheImageHeld, UNCHANGED <<reply, taken>>, stage # "idle",
           stage' \in {"receive", "failed"}
    PROVE  TheImageHeld'
BY DEF TheImageHeld, PageIsTheImage

LEMMA HeldNext ==
    ASSUME IInv, IInv', TheImageHeld, [ImageNext]_imageVars
    PROVE  TheImageHeld'
<1>1. CASE UNCHANGED imageVars
  BY <1>1 DEF imageVars, TheImageHeld, PageIsTheImage
<1>2. CASE RetrieveImage
  <2>1. taken' = <<>> /\ stage' = "receive" /\ reply' \in Replies
    BY <1>2 DEF RetrieveImage, IInv, Buffering
  <2>2. reply'.image \in Seq(Cell)
    BY <2>1, ImageAssumption, ReplyParts
  <2> QED BY <2>1, <2>2, NoneTaken DEF TheImageHeld, PageIsTheImage
<1>3. ASSUME NEW k \in 1..ReadSize, ReceivePart(k) \/ ReceiveBad(k) \/ ReceiveEnd(k)
      PROVE  TheImageHeld'
  <2>1. /\ stage = "receive" /\ got + k <= Len(reply.cells) /\ got' = got + k
        /\ reply' = reply /\ taken' = taken /\ reply \in Replies
    BY <1>3 DEF ReceivePart, ReceiveBad, ReceiveEnd, Reading, TheImageHeld
  <2>2. CASE stage' \in {"receive", "failed"}
    BY <2>1, <2>2, HeldUnlessRead
  <2>3. CASE /\ Read(k).verdict = "complete" /\ stage' = "serve"
             /\ jpeg' = ExtractImage(Read(k).body) /\ jpeg' # <<>>
    <3>1. got' = Len(reply.cells) /\ jpeg' = reply.image
      BY <2>1, <2>3, ReadReply DEF IInv
    <3> QED BY <2>1, <2>3, <3>1 DEF TheImageHeld, PageIsTheImage
  <2> QED BY <1>3, <2>1, <2>2, <2>3 DEF ReceivePart, ReceiveBad, ReceiveEnd, Failed
<1>4. CASE ReceiveFails \/ Refuse
  BY <1>4, HeldUnlessRead DEF ReceiveFails, Refuse, Failed
<1>5. ASSUME NEW max \in MaxLengths, Fill(max) PROVE TheImageHeld'
  BY <1>5 DEF Fill, TheImageHeld, PageIsTheImage
<1>6. CASE NoMore
  <2>1. /\ stage = "serve" /\ buf = <<>> /\ off >= Len(jpeg) /\ stage' = "end"
        /\ reply' = reply /\ got' = got /\ jpeg' = jpeg /\ taken' = taken
    BY <1>6 DEF NoMore, BufferEmpty
  <2>2. /\ jpeg \in Seq(Cell) /\ taken \in Seq(Cell) /\ Len(jpeg) \in Nat /\ off \in Nat
        /\ off <= Len(jpeg) /\ taken \o buf = SubSeq(jpeg, 1, off)
    BY <2>1, LenProperties DEF IInv, ImageTypeOK, Buffering, BufferedInOrder
  <2>3. off = Len(jpeg)
    BY SMT, <2>1, <2>2
  <2>4. taken = jpeg
    <3>1. taken \o buf = taken
      BY <2>1, <2>2, ConcatEmptySeq
    <3>2. SubSeq(jpeg, 1, off) = jpeg
      BY <2>2, <2>3, SubSeqFull
    <3> QED BY <2>2, <3>1, <3>2
  <2> QED BY <2>1, <2>4 DEF TheImageHeld, PageIsTheImage
<1>7. ASSUME NEW k \in 1..BufferSize, Take(k) PROVE TheImageHeld'
  <2>1. /\ stage = "serve" /\ stage' = "serve" /\ reply' = reply /\ got' = got
        /\ jpeg' = jpeg
    BY <1>7 DEF Take
  <2>2. /\ taken' \in Seq(Cell) /\ buf' \in Seq(Cell) /\ jpeg' \in Seq(Cell)
        /\ off' \in Nat /\ off' <= Len(jpeg') /\ taken' \o buf' = SubSeq(jpeg', 1, off')
    BY <2>1 DEF IInv, ImageTypeOK, Buffering, BufferedInOrder
  <2>3. IsBeginning(taken', jpeg')
    BY <2>2, TakenIsBeginning
  <2> QED BY <2>1, <2>3 DEF TheImageHeld, PageIsTheImage
<1>8. CASE FreeImage
  <2>1. <<>> \in Seq(Cell) /\ NoReply.image = <<>>
    BY EmptySeq DEF NoReply
  <2> QED BY <1>8, <2>1, NoneTaken DEF FreeImage, TheImageHeld, PageIsTheImage
<1>9. CASE Cancel
  BY <1>9 DEF Cancel, TheImageHeld, PageIsTheImage
<1> QED BY <1>1, <1>2, <1>3, <1>4, <1>5, <1>6, <1>7, <1>8, <1>9 DEF ImageNext

LEMMA AlwaysHeld == ImageSpec => []TheImageHeld
<1>1. IInv /\ IInv' /\ TheImageHeld /\ [ImageNext]_imageVars => TheImageHeld'
  BY HeldNext
<1> QED BY <1>1, HeldInit, AlwaysIInv, PTL DEF ImageSpec

\* The image processor sees beginnings of the scanner's image and nothing else, and all of
\* it before it is told that there is no more, whatever happens to replies on their way.
THEOREM PagesAreImages == ImageSpec => []PageIsTheImage
<1>1. TheImageHeld => PageIsTheImage
  BY DEF TheImageHeld
<1> QED BY <1>1, AlwaysHeld, PTL

\* However a scanner divides its image into records and chunks, and reads divide its
\* reply: a reply that nothing happened to is read to its end, and for its image.
THEOREM RepliesReadToTheEnd == ImageSpec => []ReplyReadToItsEnd
<1>1. IInv /\ TheImageHeld => ReplyReadToItsEnd
  <2> SUFFICES ASSUME IInv, TheImageHeld, reply.intact, Len(reply.cells) <= MaxResponse
               PROVE  /\ stage = "receive" =>
                           \A k \in 1..ReadSize : got + k <= Len(reply.cells) =>
                             IF got + k < Len(reply.cells) THEN Read(k).verdict = "incomplete"
                             ELSE /\ Read(k).verdict = "complete"
                                  /\ ExtractImage(Read(k).body) = reply.image
                      /\ stage \in {"serve", "end"} => got = Len(reply.cells)
    BY DEF ReplyReadToItsEnd
  <2>1. stage \in {"serve", "end"} => got = Len(reply.cells)
    BY DEF TheImageHeld
  <2>2. ASSUME stage = "receive", NEW k \in 1..ReadSize, got + k <= Len(reply.cells)
        PROVE  IF got + k < Len(reply.cells) THEN Read(k).verdict = "incomplete"
               ELSE /\ Read(k).verdict = "complete"
                    /\ ExtractImage(Read(k).body) = reply.image
    <3>1. reply \in Replies
      BY <2>2 DEF TheImageHeld
    <3> QED BY <2>2, <3>1, ReadReply DEF IInv
  <2> QED BY <2>1, <2>2
<1> QED BY <1>1, AlwaysIInv, AlwaysHeld, PTL
-----------------------------------------------------------------------------
(* The transfer of a page *)

LEMMA StreamInit == ImageInit => Stream!Init
<1>1. NoReply.image = <<>>
  BY DEF NoReply
<1> QED BY <1>1 DEF ImageInit, Stream!Init, Status

\* What is received, or fails, while nothing is handed over.
LEMMA ReceivingStep ==
    ASSUME TheImageHeld, NEW k \in 1..ReadSize,
           ReceivePart(k) \/ ReceiveBad(k) \/ ReceiveEnd(k)
    PROVE  [Stream!Next]_(Stream!svars)
<1>1. stage = "receive" /\ reply' = reply /\ taken' = taken
  BY DEF ReceivePart, ReceiveBad, ReceiveEnd, Reading
<1>2. stage' \in {"receive", "serve", "failed"}
  BY <1>1 DEF ReceivePart, ReceiveBad, ReceiveEnd, Failed
<1>3. CASE stage' = "receive"
  BY <1>1, <1>3 DEF Status, Stream!svars
<1>4. CASE stage' = "serve"
  BY <1>1, <1>4 DEF Status, Stream!Begin, Stream!Next
<1>5. CASE stage' = "failed"
  BY <1>1, <1>5 DEF Status, Stream!Break, Stream!Next
<1> QED BY <1>2, <1>3, <1>4, <1>5

\* A piece taken makes a longer beginning of the same image.
LEMMA TakingStep ==
    ASSUME IInv, TheImageHeld', NEW k \in 1..BufferSize, Take(k)
    PROVE  Stream!Give
<1>1. /\ stage = "serve" /\ stage' = "serve" /\ reply' = reply /\ k <= Len(buf)
      /\ taken' = taken \o SubSeq(buf, 1, k)
  BY DEF Take
<1>2. /\ taken \in Seq(Cell) /\ buf \in Seq(Cell)
      /\ Len(taken) \in Nat /\ Len(buf) \in Nat /\ k \in Nat /\ 1 <= k
  <2>1. BufferSize \in Nat
    BY ImageAssumption
  <2>2. k \in Nat /\ 1 <= k
    BY SMT, <2>1
  <2> QED BY <2>2, LenProperties DEF IInv, ImageTypeOK
<1>3. Len(taken') = Len(taken) + k
  <2>1. k \in 0..Len(buf)
    BY SMT, <1>1, <1>2
  <2>2. SubSeq(buf, 1, k) \in Seq(Cell) /\ Len(SubSeq(buf, 1, k)) = k
    BY <1>2, <2>1, PrefixParts
  <2> QED BY <1>1, <1>2, <2>2, ConcatProperties
<1>4. Len(taken) < Len(taken')
  BY SMT, <1>2, <1>3
<1>5. Len(taken') <= Len(reply.image) /\ taken' = SubSeq(reply.image, 1, Len(taken'))
  BY <1>1 DEF TheImageHeld, PageIsTheImage, IsBeginning
<1> QED BY <1>1, <1>4, <1>5 DEF Status, Stream!Give

LEMMA StreamStep ==
    ASSUME IInv, IInv', TheImageHeld, TheImageHeld', [ImageNext]_imageVars
    PROVE  [Stream!Next]_(Stream!svars)
<1>1. CASE UNCHANGED imageVars
  BY <1>1 DEF imageVars, Status, Stream!svars
<1>2. CASE RetrieveImage
  <2>1. reply'.image \in ScannerImages /\ taken' = taken
    BY <1>2 DEF RetrieveImage, ScannerImages
  <2> QED BY <1>2, <2>1 DEF RetrieveImage, Status, Stream!Ask, Stream!Next
<1>3. ASSUME NEW k \in 1..ReadSize, ReceivePart(k) \/ ReceiveBad(k) \/ ReceiveEnd(k)
      PROVE  [Stream!Next]_(Stream!svars)
  BY <1>3, ReceivingStep
<1>4. CASE ReceiveFails \/ Refuse
  BY <1>4 DEF ReceiveFails, Refuse, Failed, Status, Stream!Break, Stream!Next
<1>5. ASSUME NEW max \in MaxLengths, Fill(max) PROVE [Stream!Next]_(Stream!svars)
  BY <1>5 DEF Fill, Status, Stream!svars
<1>6. CASE NoMore
  <2>1. taken = reply.image
    BY <1>6 DEF NoMore, TheImageHeld, PageIsTheImage
  <2> QED BY <1>6, <2>1 DEF NoMore, Status, Stream!Complete, Stream!Next
<1>7. ASSUME NEW k \in 1..BufferSize, Take(k) PROVE [Stream!Next]_(Stream!svars)
  BY <1>7, TakingStep DEF Stream!Next
<1>8. CASE FreeImage
  BY <1>8 DEF FreeImage, NoReply, Status, Stream!Release, Stream!Next
<1>9. CASE Cancel
  BY <1>9 DEF Cancel, Status, Stream!svars
<1> QED BY <1>1, <1>2, <1>3, <1>4, <1>5, <1>6, <1>7, <1>8, <1>9 DEF ImageNext

\* Receiving, parsing and buffering a page implement PageStream, for every image, way to
\* send it, cut of the reads, buffer and damage.
THEOREM ImageImplementsStream == ImageSpec => ImplementsStream
<1>1. /\ IInv /\ IInv' /\ TheImageHeld /\ TheImageHeld' /\ [ImageNext]_imageVars
        => [Stream!Next]_(Stream!svars)
  BY StreamStep
<1> QED BY <1>1, StreamInit, AlwaysIInv, AlwaysHeld, PTL
        DEF ImageSpec, ImplementsStream, Stream!Spec
=============================================================================
