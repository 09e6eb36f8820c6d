-------------------------- MODULE MCSoaphtSession --------------------------
(***************************************************************************)
(* Instances of the plugin's session small enough for TLC.                 *)
(***************************************************************************)
EXTENDS SoaphtSessionProps
=============================================================================
