---------------------------- MODULE ScanService ----------------------------
(***************************************************************************)
(* What the bridge promises its clients (docs/AIRSCAN.md, "Jobs, errors    *)
(* and cancellation"): one acquisition at a time, no new job once it is    *)
(* closing, and the pages of a job served in order, each in full at most   *)
(* once and only after the scanner produced it.                            *)
(***************************************************************************)
EXTENDS Integers, Sequences

CONSTANTS Jobs

VARIABLES
    phase,      \* "unborn", "acquiring", "ended" or "gone", for each job
    published,  \* the number of its pages that are ready
    delivered,  \* the pages its clients received
    open        \* new jobs are accepted

svars == <<phase, published, delivered, open>>

Init ==
    /\ phase = [j \in Jobs |-> "unborn"]
    /\ published = [j \in Jobs |-> 0]
    /\ delivered = [j \in Jobs |-> <<>>]
    /\ open = TRUE

Accept(j) ==
    /\ open
    /\ phase[j] = "unborn"
    /\ \A k \in Jobs : phase[k] # "acquiring"
    /\ phase' = [phase EXCEPT ![j] = "acquiring"]
    /\ UNCHANGED <<published, delivered, open>>

Publish(j) ==
    /\ phase[j] = "acquiring"
    /\ published' = [published EXCEPT ![j] = @ + 1]
    /\ UNCHANGED <<phase, delivered, open>>

Deliver(j) ==
    /\ phase[j] \in {"acquiring", "ended"}
    /\ Len(delivered[j]) < published[j]
    /\ delivered' = [delivered EXCEPT ![j] = Append(@, Len(@) + 1)]
    /\ UNCHANGED <<phase, published, open>>

\* A job that was deleted meanwhile is forgotten at once.
End(j) ==
    /\ phase[j] = "acquiring"
    /\ \E p \in {"ended", "gone"} : phase' = [phase EXCEPT ![j] = p]
    /\ UNCHANGED <<published, delivered, open>>

Forget(S) ==
    /\ \A j \in S : phase[j] = "ended"
    /\ phase' = [j \in Jobs |-> IF j \in S THEN "gone" ELSE phase[j]]
    /\ UNCHANGED <<published, delivered, open>>

Close ==
    /\ open' = FALSE
    /\ UNCHANGED <<phase, published, delivered>>

Next ==
    \/ \E j \in Jobs : Accept(j) \/ Publish(j) \/ Deliver(j) \/ End(j)
    \/ \E S \in SUBSET Jobs : Forget(S)
    \/ Close

Spec == Init /\ [][Next]_svars
=============================================================================
