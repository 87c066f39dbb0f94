---------------------------- MODULE MCScriptTimers ----------------------------
(***************************************************************************)
(* A small instance of ScriptTimers for TLC: three entries, so that one    *)
(* can be removed, one passed over and one left.                           *)
(***************************************************************************)
EXTENDS ScriptTimers

MCIds == 1 .. 3

=============================================================================
