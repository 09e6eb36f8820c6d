---------------------------- MODULE SoaphtReply ----------------------------
(***************************************************************************)
(* What a scanner answers to RetrieveImage (external): its image in DIME   *)
(* records, and these in chunks of an HTTP body.                           *)
(*                                                                         *)
(* A reply is a sequence of cells: a cell is a chunk-size line, a CRLF, a  *)
(* DIME record header with its options, id and type, or a unit of its      *)
(* padded data, and n counts cells.                                        *)
(***************************************************************************)
EXTENDS Integers, Sequences

\* "line": the size n of a chunk; "junk": a line that is no size.  "image" and "record":
\* the header of a DIME record of n data units, of type image/jfif or another, chunked
\* when more is set; "flags": one with invalid flags.  Data units: the JPEG markers and
\* "data", which n tells apart.
Kinds == {"line", "junk", "crlf", "image", "record", "flags", "soi", "eoi", "data"}
Cell == [kind : Kinds, n : Nat, more : BOOLEAN]

\* adf: the job feeds sheets.  The rest is history, what the scanner has made the reply
\* of (external): its image, and the body of DIME records that went into chunks.  <<p, i>>
\* in heads: at p of the body begins a record of the image, whose data follow the first i
\* units of it; at those in before, the records until then.  <<p, b>> in lines: at p of
\* the cells begins a chunk, after b cells of the body.  intact: nothing happened to the
\* image or the reply on the way.
Marks == SUBSET ((Nat \ {0}) \X Nat)
Reply == [cells : Seq(Cell), adf : BOOLEAN, intact : BOOLEAN, image : Seq(Cell),
          body : Seq(Cell), before : SUBSET (Nat \ {0}), heads : Marks, lines : Marks]

NoReply == [cells |-> <<>>, adf |-> FALSE, intact |-> FALSE, image |-> <<>>,
            body |-> <<>>, before |-> {}, heads |-> {}, lines |-> {}]

-----------------------------------------------------------------------------
\* A JPEG: its end marker is where it ends and nowhere else.
Jpeg(image) ==
    /\ Len(image) >= 2 /\ image[1].kind = "soi"
    /\ \A i \in 1..Len(image) : image[i].kind = "eoi" <=> i = Len(image)

Headers == {"image", "record"}

\* At p of the body is a header, unless the feeder jammed before or within it.
HeaderSent(r, p) == p <= Len(r.body) /\ r.body[p].kind \in Headers
HeaderLost(r, p) == ~r.intact /\ (p <= Len(r.body) => r.body[p].kind \notin Headers)

\* Records of another type, then the first of the image.
BeforeSent(r, p) ==
    \/ HeaderLost(r, p)
    \/ HeaderSent(r, p) /\ r.body[p].kind = "image" /\ <<p, 0>> \in r.heads
    \/ HeaderSent(r, p) /\ r.body[p].kind = "record" /\ p + r.body[p].n + 1 \in r.before

\* A record with a part of the image after i units of it, and where it is continued.
PartSent(r, p, i) ==
    \/ HeaderLost(r, p)
    \/ LET n == r.body[p].n IN
       /\ HeaderSent(r, p)
       /\ i + n <= Len(r.image) /\ (r.intact => p + n <= Len(r.body))
       /\ \A k \in 1..n : p + k <= Len(r.body) => r.body[p + k] = r.image[i + k]
       /\ IF r.body[p].more THEN <<p + n + 1, i + n>> \in r.heads
          ELSE r.intact => i + n = Len(r.image)

\* A chunk after b cells of the body, of as many of them as its line says, and the next;
\* after all of them that of size 0.  Of a damaged reply a line may be none, or it ends.
ChunkSent(r, p, b) ==
    \/ ~r.intact /\ (p <= Len(r.cells) => r.cells[p].kind # "line")
    \/ LET n == r.cells[p].n
           crlf(q) == q <= Len(r.cells) => r.cells[q].kind = "crlf" IN
       /\ p <= Len(r.cells) /\ r.cells[p].kind = "line"
       /\ \/ /\ n = 0 /\ b = Len(r.body) /\ crlf(p + 1)
             /\ Len(r.cells) <= p + 1 /\ (r.intact => Len(r.cells) = p + 1)
          \/ /\ n # 0 /\ b + n <= Len(r.body) /\ crlf(p + n + 1)
             /\ \A k \in 1..n : p + k <= Len(r.cells) => r.cells[p + k] = r.body[b + k]
             /\ <<p + n + 2, b + n>> \in r.lines

FromScanner(r) ==
    /\ Jpeg(r.image)
    /\ 1 \in r.before /\ \A p \in r.before : BeforeSent(r, p)
    /\ \A m \in r.heads : PartSent(r, m[1], m[2])
    /\ <<1, 0>> \in r.lines /\ \A m \in r.lines : ChunkSent(r, m[1], m[2])
=============================================================================
