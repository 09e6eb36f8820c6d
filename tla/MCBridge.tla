------------------------------ MODULE MCBridge ------------------------------
(***************************************************************************)
(* Instances of the bridge small enough for TLC.                           *)
(***************************************************************************)
EXTENDS BridgeProps, TLC

CONSTANTS j1, j2, r1, r2

JobSymmetry == Permutations(Jobs)
RequestSymmetry == Permutations(Requests)

OneReply == {<<"Idle", "Loaded">>}
NoReplies == {}
\* A feeder that may have run empty earlier.
EmptyReply == {<<"Idle", "Empty">>}
=============================================================================
