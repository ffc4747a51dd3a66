----------------------------- MODULE MCApproval -----------------------------
(***************************************************************************)
(* Three calls in two sessions over a registry with room for two asks.     *)
(***************************************************************************)
EXTENDS Approval, TLC

CONSTANTS k1, k2, k3

MCSession == {"s1", "s2"}
MCSessionOf == k1 :> "s1" @@ k2 :> "s1" @@ k3 :> "s2"

=============================================================================
