-------------------------- MODULE MCContextManager --------------------------
(***************************************************************************)
(* Small instances of ContextManager.  With a budget of 10 tokens the      *)
(* trigger is 8 and the target 6; the system prompt takes 1.  A small turn *)
(* takes 2 tokens, so the fourth one triggers an eviction, and a large one *)
(* 9, so that it alone overruns the budget and empties the window.         *)
(***************************************************************************)
EXTENDS ContextManager

MCTokenCounts == {2, 9}
MCScores      == {0, 1}
MCSameScore   == {1}
=============================================================================
