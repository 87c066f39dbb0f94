-------------------------- MODULE MCDeviceSession --------------------------
(***************************************************************************)
(* Model values for DeviceSession: an endpoint with an output and an input *)
(* provider, one tick per presence period of 1000 ms, hence a registration *)
(* delay of 2 ticks and a disconnect delay of 3.                           *)
(***************************************************************************)
EXTENDS DeviceSession

MCKeys == {1, 2, 3}
MCFourKeys == {1, 2, 3, 4}
MCRegisterOrder == <<"output", "input">>
MCAllFaults == {"lose", "delay", "duplicate", "reboot", "restart"}
MCReboots == {"reboot"}

=============================================================================
