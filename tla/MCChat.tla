------------------------------- MODULE MCChat -------------------------------
(***************************************************************************)
(* Chats of up to three questions, two behind a system message, whose      *)
(* answers have up to three tokens: the conversation outgrows the context  *)
(* in the second or third turn, and one line leaves no room for an answer. *)
(* One line is the mark that closes reasoning, typed by the user.          *)
(***************************************************************************)
EXTENDS Chat

As == [n \in Nat |-> [i \in 1..n |-> "a"]]

MCLines == {<<"</think>">>, As[5], As[7]}

MCSystemPrompts == {<<>>, As[1]}

MCPrompts == {As[n] : n \in {1, 9, 10, 11, 13}}
=============================================================================
