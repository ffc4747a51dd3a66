----------------------------- MODULE MCWebChat ------------------------------
(***************************************************************************)
(* Three turns, two of them of one chat, and a subagent over tables that   *)
(* have room for one: a start of the other chat or of the subagent is a    *)
(* start over the cap.                                                     *)
(***************************************************************************)
EXTENDS WebChat

MCChats == {"c1", "c2"}
MCSubagents == {"s1"}
MCTurns == {1, 2, 3}
MCFollowed == {1}
MCUnwritable == {1}
MCMaxText == <<1, 1, 0>>
MCChatOf == <<"c1", "c1", "c2">>

=============================================================================
