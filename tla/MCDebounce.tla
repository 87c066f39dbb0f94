----------------------------- MODULE MCDebounce ------------------------------
(***************************************************************************)
(* A small instance of Debounce for TLC: a counter of 16 ticks, of which   *)
(* the last four, the debounce time, lead to edges across its wrap.        *)
(***************************************************************************)
EXTENDS Debounce

MCTickSize == 16
MCDebounceTime == 4

=============================================================================
