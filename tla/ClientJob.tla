----------------------------- MODULE ClientJob -----------------------------
(***************************************************************************)
(* What a client of the bridge is promised of a job on a network scanner   *)
(* (docs/AIRSCAN.md, "Jobs, errors and cancellation"; docs/WSD_NETWORK.md, *)
(* "Behavior and bounds"): the images of its job one after the other, none *)
(* left out, none after it canceled; "completed" means all it asked for or *)
(* all there were, and an error ends the job with the pages it has.        *)
(***************************************************************************)
EXTENDS Integers, Sequences

CONSTANTS Counts   \* numbers of pages a client may ask for; 0 is all there are

VARIABLES
    phase,     \* "none" or "running"
    wanted,    \* pages the job is to have
    canceled,
    exhausted, \* the scanner said that there is no other image
    taken,     \* images the scanner took
    listed,    \* the images its client can fetch, by their number
    outcome    \* "Processing" until the job has ended

avars == <<phase, wanted, canceled, exhausted, taken, listed, outcome>>

Init ==
    /\ phase = "none" /\ wanted = 0 /\ canceled = FALSE /\ exhausted = FALSE
    /\ taken = 0 /\ listed = <<>> /\ outcome = "Processing"

Begin(n) ==
    /\ phase = "none" /\ phase' = "running"
    /\ wanted' = n /\ canceled' = FALSE /\ exhausted' = FALSE
    /\ taken' = 0 /\ listed' = <<>> /\ outcome' = "Processing"

Running == phase = "running" /\ UNCHANGED <<phase, wanted, outcome>>

\* No image while the last one has not been listed, and none that is not wanted.
Take ==
    /\ Running /\ (taken = Len(listed) \/ canceled) /\ (wanted = 0 \/ taken < wanted)
    /\ taken' = taken + 1
    /\ UNCHANGED <<canceled, exhausted, listed>>

List ==
    /\ Running /\ ~canceled /\ taken = Len(listed) + 1
    /\ listed' = Append(listed, taken)
    /\ UNCHANGED <<canceled, exhausted, taken>>

RunOut ==
    /\ Running /\ exhausted' = TRUE
    /\ UNCHANGED <<canceled, taken, listed>>

Cancel ==
    /\ Running /\ canceled' = TRUE
    /\ UNCHANGED <<exhausted, taken, listed>>

Whole == taken > 0 /\ Len(listed) = taken /\ (exhausted \/ taken = wanted)

End ==
    /\ phase = "running" /\ phase' = "none"
    /\ \/ outcome' = "Completed" /\ ~canceled /\ Whole
       \/ outcome' = "Canceled" /\ canceled
       \/ outcome' = "Aborted"
    /\ UNCHANGED <<wanted, canceled, exhausted, taken, listed>>

\* The bridge dies; it keeps nothing of its jobs.
Die ==
    /\ phase = "running" /\ phase' = "none"
    /\ listed' = <<>> /\ canceled' = FALSE /\ outcome' = "Processing"
    /\ UNCHANGED <<wanted, exhausted, taken>>

Next ==
    \/ \E n \in Counts \cup {1} : Begin(n)
    \/ Take \/ List \/ RunOut \/ Cancel \/ End \/ Die

Spec == Init /\ [][Next]_avars
=============================================================================
