------------------------------ MODULE MCOutputs ------------------------------
(***************************************************************************)
(* A small instance of Outputs for TLC: two outputs, so that one can rest  *)
(* while the other changes.                                                *)
(***************************************************************************)
EXTENDS Outputs

MCOutputSet == {"lamp", "fan"}
MCFaultKinds == {"lose", "delay", "duplicate", "reboot", "disk", "crash",
                 "reregister"}

=============================================================================
