----------------------------- MODULE MCReadings -----------------------------
(***************************************************************************)
(* A small instance of Readings for TLC: a sensor that measures one of two *)
(* temperatures and one that measures a third, or a few pulses.            *)
(***************************************************************************)
EXTENDS Readings

MCTemperatures == [i \in {0, 1} |-> IF i = 0 THEN {20, 21} ELSE {-5}]
MCFaultKinds == {"lose", "delay", "duplicate", "reregister", "unplug", "radio",
                 "spi"}

=============================================================================
