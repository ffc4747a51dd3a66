--------------------------- MODULE MCReplSession ---------------------------
(***************************************************************************)
(* The prompt with two sessions, crashes at every step and enough tool     *)
(* calls for three blocked outputs in a row over two responses.            *)
(***************************************************************************)
EXTENDS ReplSession

MCSession == {"s1", "s2"}

=============================================================================
