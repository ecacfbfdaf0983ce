--------------------------- MODULE MCChatSession ---------------------------
(* Names are interchangeable. *)
EXTENDS ChatSession, TLC

NameSymmetry == Permutations(Names)
=============================================================================
