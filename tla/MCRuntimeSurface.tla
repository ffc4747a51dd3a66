-------------------------- MODULE MCRuntimeSurface --------------------------
(***************************************************************************)
(* A REPL with two servers over a file that is written twice: first with   *)
(* an error, then one server has changed and the other is gone.            *)
(***************************************************************************)
EXTENDS RuntimeSurface

MCInvalid == {1}
MCServers == {"a", "b"}
MCServersOf ==
    [v \in 0..2 |-> [s \in MCServers |-> CASE v < 2              -> 1
                                           [] v = 2 /\ s = "a"   -> 2
                                           [] OTHER              -> NotThere]]

=============================================================================
