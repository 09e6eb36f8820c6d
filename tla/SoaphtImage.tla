---------------------------- MODULE SoaphtImage ----------------------------
(***************************************************************************)
(* One page image on its way through the plugin                            *)
(* (soapht-macos/bb_soapht_macos.c): the chunked HTTP body it arrives in,  *)
(* the DIME records inside it, the image held, and the buffer in which it  *)
(* is handed to the image processor piece by piece.                        *)
(*                                                                         *)
(* hpmud_read_channel may cut a reply between any two cells of it; a line  *)
(* of which only a part has come is like one of which nothing has.  The    *)
(* HTTP header, deadlines and the state of the channel are module          *)
(* SoaphtTransport, jobs and calls SoaphtSession.                          *)
(***************************************************************************)
EXTENDS SoaphtReply

CONSTANTS
    Replies,      \* answers to RetrieveImage (external)
    ReadSize,     \* cells one read returns at most (4096 bytes)
    MaxResponse,  \* longest reply kept (16 MiB)
    BufferSize,   \* ps->buf (64 KiB)
    MaxLengths    \* max_length of bb_get_image_data; 0 for no limit

ASSUME ImageAssumption ==
    /\ Replies \subseteq Reply
    /\ {ReadSize, MaxResponse, BufferSize} \subseteq Nat \ {0}
    /\ MaxLengths \subseteq Nat

\* Scanners make replies so; what happens to them afterwards is that they are cut short,
\* or that a header or a size is no longer one.
ASSUME ScannerAssumption == \A r \in Replies : FromScanner(r)

VARIABLES
    stage,        \* "idle", "receive", "serve", "end" (no more data), "failed"
    reply,        \* the reply under way
    got,          \* cells of it received
    jpeg, off,    \* the image held, and how much of it has been put into the buffer
    buf,          \* what the image processor has not taken of the buffer
    user_cancel,
    outcome,      \* status of the last bb_get_image_data
    taken         \* history: what the image processor has taken of this page

imageVars == <<stage, reply, got, jpeg, off, buf, user_cancel, outcome, taken>>

ImageTypeOK ==
    /\ stage \in {"idle", "receive", "serve", "end", "failed"}
    /\ reply \in Replies \cup {NoReply}
    /\ got \in Nat /\ off \in Nat
    /\ jpeg \in Seq(Cell) /\ buf \in Seq(Cell) /\ taken \in Seq(Cell)
    /\ user_cancel \in BOOLEAN
    /\ outcome \in {"GOOD", "IO_ERROR", "JAMMED", "CANCELLED"}

ImageInit ==
    /\ stage = "idle" /\ reply = NoReply /\ got = 0
    /\ jpeg = <<>> /\ off = 0 /\ buf = <<>> /\ taken = <<>>
    /\ user_cancel = FALSE /\ outcome = "GOOD"

-----------------------------------------------------------------------------
(* Chunks *)

Incomplete == [verdict |-> "incomplete", body |-> <<>>]
Malformed == [verdict |-> "malformed", body |-> <<>>]
Complete(body) == [verdict |-> "complete", body |-> body]

\* Mutant: the last size line ends the reply.
EndsAtLine(raw, p) == Complete(<<>>)

\* After the line of size 0, at p, its CRLF.
LastChunk(raw, p) ==
    IF p > Len(raw) THEN Incomplete
    ELSE IF raw[p].kind = "crlf" THEN Complete(<<>>)
    ELSE Malformed

\* No size where one must be: known when the line that is there has come to its CRLF.
NoSize(raw, p) ==
    IF \E q \in p..Len(raw) : raw[q].kind \in {"line", "junk", "crlf"} THEN Malformed
    ELSE Incomplete

\* The verdict on what begins at each cell, the size line of a chunk.  (The limit on the
\* body is implied by the one on the reply.)
Chunks(raw) ==
    LET from[p \in 1..Len(raw) + 1] ==
          IF p > Len(raw) \/ raw[p].kind # "line" THEN NoSize(raw, p)
          ELSE LET end == p + raw[p].n + 1 IN
               IF raw[p].n > MaxResponse THEN Malformed
               ELSE IF raw[p].n = 0 THEN LastChunk(raw, end)
               ELSE IF end > Len(raw) THEN Incomplete
               ELSE IF raw[end].kind # "crlf" THEN Malformed
               ELSE LET rest == from[end + 1] IN
                    [rest EXCEPT !.body = IF rest.verdict = "complete"
                                          THEN SubSeq(raw, p + 1, end - 1) \o @ ELSE @]
    IN  from

\* dechunk_try: every read starts again at the first chunk.
Dechunk(raw) == Chunks(raw)[1]

-----------------------------------------------------------------------------
(* DIME records *)

\* A valid header at p whose data the body holds.
RecordAt(body, p) ==
    /\ p <= Len(body) /\ body[p].kind \in Headers
    /\ p + body[p].n <= Len(body)

\* Mutant: markers are not looked at.
AnyImage(image) == image

\* The image if it is a JPEG from its first to its last marker, else none.
WholeImage(image) ==
    IF Len(image) >= 2 /\ image[1].kind = "soi" /\ image[Len(image)].kind = "eoi"
    THEN image ELSE <<>>

RecordData(body, p) == SubSeq(body, p + 1, p + body[p].n)
NextRecord(body, p) == p + body[p].n + 1
NoRecord == [ok |-> FALSE, data |-> <<>>]

\* The data of the record at each cell and of those it is continued by.
Continued(body) ==
    LET collect[p \in 1..Len(body) + 1] ==
          IF ~RecordAt(body, p) THEN NoRecord
          ELSE IF ~body[p].more THEN [ok |-> TRUE, data |-> RecordData(body, p)]
          ELSE [collect[NextRecord(body, p)] EXCEPT !.data = RecordData(body, p) \o @]
    IN  collect

\* That of the first image record at each cell or after it.
FirstImage(body) ==
    LET find[p \in 1..Len(body) + 1] ==
          IF ~RecordAt(body, p) THEN NoRecord
          ELSE IF body[p].kind = "image" THEN Continued(body)[p]
          ELSE find[NextRecord(body, p)]
    IN  find

\* extract_dime_jpeg; <<>> when it fails.  What stands where a header must be is not one:
\* its flags differ.
ExtractImage(body) ==
    LET found == FirstImage(body)[1] IN
    IF found.ok THEN WholeImage(found.data) ELSE <<>>

-----------------------------------------------------------------------------
(* bb_get_image_data: fetch_jpeg and read_http_response *)

Failed(status) ==
    /\ stage' = "failed" /\ outcome' = status
    /\ jpeg' = <<>> /\ off' = 0 /\ buf' = <<>>    \* bb_end_scan, or bb_end_page

\* RetrieveImage is sent and the scanner begins to answer.
RetrieveImage ==
    /\ stage = "idle" /\ ~user_cancel
    /\ reply' \in Replies /\ got' = 0
    /\ stage' = "receive" /\ outcome' = "GOOD"
    /\ UNCHANGED <<jpeg, off, buf, user_cancel, taken>>

\* One more read of k cells, and what the reply looks like then.
Reading(k) == stage = "receive" /\ got + k <= Len(reply.cells) /\ got' = got + k
Read(k) == Dechunk(SubSeq(reply.cells, 1, got + k))

ReceivePart(k) ==
    /\ Reading(k) /\ got + k <= MaxResponse /\ Read(k).verdict = "incomplete"
    /\ UNCHANGED <<stage, reply, jpeg, off, buf, user_cancel, outcome, taken>>

\* Too long or malformed.
ReceiveBad(k) ==
    /\ Reading(k) /\ (got + k > MaxResponse \/ Read(k).verdict = "malformed")
    /\ Failed("IO_ERROR")
    /\ UNCHANGED <<reply, user_cancel, taken>>

\* The reply is complete; a cancellation counts only now.
ReceiveEnd(k) ==
    /\ Reading(k) /\ got + k <= MaxResponse /\ Read(k).verdict = "complete"
    /\ LET image == ExtractImage(Read(k).body) IN
       \/ user_cancel /\ Failed("CANCELLED")
       \/ ~user_cancel /\ image = <<>> /\ Failed("IO_ERROR")
       \* a feeder may have jammed: the scanner is asked once
       \/ ~user_cancel /\ image = <<>> /\ reply.adf /\ Failed("JAMMED")
       \/ /\ ~user_cancel /\ image # <<>>
          /\ jpeg' = image /\ off' = 0 /\ stage' = "serve"
          /\ UNCHANGED <<buf, outcome>>
    /\ UNCHANGED <<reply, user_cancel, taken>>

\* The deadline, or a transfer that fails.
ReceiveFails ==
    /\ stage = "receive" /\ Failed("IO_ERROR")
    /\ UNCHANGED <<reply, got, user_cancel, taken>>

-----------------------------------------------------------------------------
(* bb_get_image_data: the buffer *)

\* The size of the next piece: the rest of the image, as far as there is room for it.
Piece(max) ==
    LET rest == Len(jpeg) - off
        room == IF max > 0 /\ max < BufferSize THEN max ELSE BufferSize
    IN  IF rest < room THEN rest ELSE room

\* Mutant: a call reloads over what is left of the last piece.
Always == TRUE

\* ps->cnt = 0
BufferEmpty == buf = <<>>

Fill(max) ==
    /\ stage = "serve" /\ ~user_cancel /\ BufferEmpty
    /\ off < Len(jpeg)
    /\ buf' = SubSeq(jpeg, off + 1, off + Piece(max))
    /\ off' = off + Piece(max)
    /\ UNCHANGED <<stage, reply, got, jpeg, user_cancel, outcome, taken>>

NoMore ==
    /\ stage = "serve" /\ ~user_cancel /\ BufferEmpty
    /\ off >= Len(jpeg)
    /\ stage' = "end"
    /\ UNCHANGED <<reply, got, jpeg, off, buf, user_cancel, outcome, taken>>

\* The image processor takes a part of the buffer (external: index and cnt move on).
Take(k) ==
    /\ stage = "serve" /\ k <= Len(buf)
    /\ taken' = taken \o SubSeq(buf, 1, k)
    /\ buf' = SubSeq(buf, k + 1, Len(buf))
    /\ UNCHANGED <<stage, reply, got, jpeg, off, user_cancel, outcome>>

\* Mutant: a canceled call returns no data instead of an error.
RefuseQuietly ==
    /\ stage = "serve" /\ user_cancel /\ BufferEmpty
    /\ stage' = "end"
    /\ UNCHANGED <<reply, got, jpeg, off, buf, user_cancel, outcome, taken>>

\* The next call finds the flag set.
Refuse ==
    /\ stage \in {"serve", "end"} /\ user_cancel
    /\ Failed("CANCELLED")
    /\ UNCHANGED <<reply, got, user_cancel, taken>>

\* bb_end_page, or the next sane_start after a failure; the image processor may have
\* seen enough of the image before its end.
FreeImage ==
    /\ stage \in {"serve", "end", "failed"} /\ stage' = "idle"
    /\ jpeg' = <<>> /\ off' = 0 /\ buf' = <<>>
    /\ reply' = NoReply /\ got' = 0 /\ taken' = <<>>
    /\ user_cancel' = FALSE
    /\ UNCHANGED outcome

\* sane_cancel
Cancel ==
    /\ stage # "idle"
    /\ user_cancel' = TRUE
    /\ UNCHANGED <<stage, reply, got, jpeg, off, buf, outcome, taken>>

-----------------------------------------------------------------------------
ImageNext ==
    \/ RetrieveImage
    \/ \E k \in 1..ReadSize : ReceivePart(k) \/ ReceiveBad(k) \/ ReceiveEnd(k)
    \/ ReceiveFails
    \/ \E max \in MaxLengths : Fill(max)
    \/ NoMore
    \/ \E k \in 1..BufferSize : Take(k)
    \/ Refuse \/ FreeImage \/ Cancel

ImageSpec == ImageInit /\ [][ImageNext]_imageVars
=============================================================================
