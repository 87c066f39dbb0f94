---------------------------- MODULE MCEspBridge ----------------------------
(***************************************************************************)
(* A small instance of EspBridge for TLC: two datagrams, one on the line   *)
(* and one in rxData, and room for two polls with a read between them.     *)
(***************************************************************************)
EXTENDS EspBridge

MCFaultKinds == {"garble", "restart", "reboot"}

=============================================================================
