------------------------- MODULE MCBridgeSupervisor -------------------------
(***************************************************************************)
(* Three starts of the core.                                               *)
(***************************************************************************)
EXTENDS BridgeSupervisor

MCCores == 1..3

=============================================================================
