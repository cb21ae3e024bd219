------------------------------ MODULE MCChatLLM ------------------------------
(* Instances of ChatLLM for TLC. *)
EXTENDS ChatLLM

CONSTANTS d1, t1, t2
=============================================================================
