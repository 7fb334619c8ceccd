------------------------------ MODULE MCChatTurn ------------------------------
(* Two questions that mean the same and one that does not. *)
EXTENDS ChatTurn

SameMeaning == {<<q, q>> : q \in Question} \cup {<<"q1", "q2">>, <<"q2", "q1">>}
=============================================================================
