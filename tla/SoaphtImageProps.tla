------------------------- MODULE SoaphtImageProps --------------------------
(***************************************************************************)
(* What a page image must survive between the scanner and the image        *)
(* processor.                                                              *)
(***************************************************************************)
EXTENDS SoaphtImage

IsBeginning(s, t) == Len(s) <= Len(t) /\ s = SubSeq(t, 1, Len(s))

\* However reads cut an undamaged reply, whatever chunks and records the scanner has
\* made of its image and whatever the image looks like: the plugin neither stops before
\* the last cell of the reply, nor refuses it, nor waits for more, and it has the
\* image then.
ReplyReadToItsEnd ==
    reply.intact /\ Len(reply.cells) <= MaxResponse =>
        /\ stage = "receive" =>
             \A k \in 1..ReadSize : got + k <= Len(reply.cells) =>
                 IF got + k < Len(reply.cells) THEN Read(k).verdict = "incomplete"
                 ELSE /\ Read(k).verdict = "complete"
                      /\ ExtractImage(Read(k).body) = reply.image
        /\ stage \in {"serve", "end"} => got = Len(reply.cells)

\* What the image processor has taken and what lies in the buffer are the beginning of
\* the image held: nothing is skipped, repeated or overwritten between two calls.
BufferedInOrder ==
    stage \in {"serve", "end"} => taken \o buf = SubSeq(jpeg, 1, off)

\* The image processor never sees anything but a beginning of the scanner's image, from
\* damaged replies neither, and when it is told that there is no more it has seen all.
PageIsTheImage ==
    /\ IsBeginning(taken, reply.image)
    /\ stage = "end" => taken = reply.image

-----------------------------------------------------------------------------
(* Refinement *)

ScannerImages == {r.image : r \in Replies}

Status == CASE stage = "idle" -> "none"
            [] stage = "receive" -> "asked"
            [] stage = "serve" -> "open"
            [] stage = "end" -> "complete"
            [] stage = "failed" -> "broken"

Stream == INSTANCE PageStream WITH
            Images <- ScannerImages,
            status <- Status,
            page <- reply.image,
            given <- taken

\* Receiving, parsing and buffering implement the transfer of a page: what the image
\* processor has only grows, always as the beginning of the one image the scanner made,
\* and it ends well only with the whole of it, whatever reads, limits, damaged replies
\* and cancellations do.
ImplementsStream == Stream!Spec
=============================================================================
