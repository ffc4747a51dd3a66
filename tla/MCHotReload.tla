---------------------------- MODULE MCHotReload ----------------------------
(***************************************************************************)
(* Overlapping reloads of a file written twice that names no servers.      *)
(***************************************************************************)
EXTENDS HotReload

MCServersOf == [v \in 0..2 |-> [s \in {} |-> 0]]

=============================================================================
