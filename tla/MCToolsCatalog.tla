--------------------------- MODULE MCToolsCatalog ---------------------------
(***************************************************************************)
(* A chat turn and a subagent over two builds of two servers and one edit. *)
(***************************************************************************)
EXTENDS ToolsCatalog, TLC

CONSTANTS t1, s1, m1, m2

MCBuilds == 1..2
MCTurns == {t1, s1}
MCSubagents == {s1}
MCServers == {m1, m2}

AlikeServers == Permutations(MCServers)

=============================================================================
