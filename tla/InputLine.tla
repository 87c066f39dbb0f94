----------------------------- MODULE InputLine ------------------------------
(***************************************************************************)
(* What a debounced input line promises to the rest of the endpoint: the   *)
(* confirmed level only ever moves to the level the line has at that       *)
(* moment.  Debounce implements it; Inputs builds on it.                   *)
(***************************************************************************)
CONSTANT Levels

VARIABLES
    pin,     \* the level that was read last
    stable   \* the level that has been confirmed and told

Init == pin \in Levels /\ stable = pin

Change == pin' \in Levels /\ UNCHANGED stable

Confirm == stable' = pin /\ UNCHANGED pin

Next == Change \/ Confirm

Spec == Init /\ [][Next]_<<pin, stable>>

=============================================================================
