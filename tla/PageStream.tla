----------------------------- MODULE PageStream ----------------------------
(***************************************************************************)
(* What the image processor may rely on while it calls bb_get_image_data   *)
(* for a page ("RetrieveImage -> HTTP chunking -> DIME -> JPEG",           *)
(* docs/ARCHITECTURE.md:60): it is given one image from its beginning on,  *)
(* nothing of it is skipped or taken back, and when there is no more data  *)
(* it has it all.                                                          *)
(***************************************************************************)
EXTENDS Integers, Sequences

CONSTANTS Images

VARIABLES
    status,  \* "none", "asked", "open", "complete" or "broken"
    page,    \* the image of the page
    given    \* what the image processor has of it

svars == <<status, page, given>>

Init == status = "none" /\ page = <<>> /\ given = <<>>

Ask ==
    /\ status = "none" /\ status' = "asked"
    /\ page' \in Images /\ UNCHANGED given

Begin ==
    /\ status = "asked" /\ status' = "open"
    /\ UNCHANGED <<page, given>>

\* Another piece.
Give ==
    /\ status = "open" /\ UNCHANGED <<status, page>>
    /\ Len(given) < Len(given') /\ Len(given') <= Len(page)
    /\ given' = SubSeq(page, 1, Len(given'))

\* No more data.
Complete ==
    /\ status = "open" /\ status' = "complete"
    /\ given = page /\ UNCHANGED <<page, given>>

\* An error is reported, or a cancellation, of which a call after the last one hears too.
Break ==
    /\ status \in {"asked", "open", "complete"} /\ status' = "broken"
    /\ UNCHANGED <<page, given>>

Release ==
    /\ status \in {"open", "complete", "broken"} /\ status' = "none"
    /\ page' = <<>> /\ given' = <<>>

Next == Ask \/ Begin \/ Give \/ Complete \/ Break \/ Release

Spec == Init /\ [][Next]_svars
=============================================================================
