----------------------------- MODULE MCIRButtons -----------------------------
(***************************************************************************)
(* A small instance of IRButtons for TLC: two buttons and the real times.  *)
(***************************************************************************)
EXTENDS IRButtons

MCCodes == {"up", "down"}
MCRepeatTime == 3
MCReleaseTime == 5

=============================================================================
