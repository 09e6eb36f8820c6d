---------------------------- MODULE MCWsdWorker ----------------------------
(***************************************************************************)
(* Instances of the conversation with a network scanner.                   *)
(***************************************************************************)
EXTENDS WsdWorkerProps
=============================================================================
