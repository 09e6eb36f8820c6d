------------------------- MODULE MCSoaphtTransport -------------------------
(***************************************************************************)
(* An instance of the plugin's transport small enough for TLC.             *)
(***************************************************************************)
EXTENDS SoaphtTransportProps
=============================================================================
