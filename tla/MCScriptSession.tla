--------------------------- MODULE MCScriptSession ---------------------------
(***************************************************************************)
(* A small instance of ScriptSession for TLC: a configuring script and     *)
(* another one, and one device.                                            *)
(***************************************************************************)
EXTENDS ScriptSession

MCScripts == {"house", "panel"}
MCInitDevices == <<"hall">>
MCFaultKinds == {"reset", "crash", "stop", "miss"}

=============================================================================
