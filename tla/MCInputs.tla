------------------------------ MODULE MCInputs -------------------------------
(***************************************************************************)
(* Small instances of Inputs for TLC.                                      *)
(***************************************************************************)
EXTENDS Inputs

MCAll == {"lose", "delay", "duplicate", "reregister", "early", "unsteady"}
MCEarly == {"early"}

=============================================================================
