----------------------------- MODULE MCEventBus -----------------------------
(***************************************************************************)
(* The event bus with a ring that wraps, readers that come and go and a    *)
(* process that restarts.                                                  *)
(***************************************************************************)
EXTENDS EventBus

MCSession == {"s1", "s2"}

=============================================================================
