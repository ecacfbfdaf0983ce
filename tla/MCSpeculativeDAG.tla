-------------------------- MODULE MCSpeculativeDAG --------------------------
(***************************************************************************)
(* Every graph of up to MaxNodes nodes.  The pool's threads are            *)
(* interchangeable.                                                        *)
(***************************************************************************)
EXTENDS SpeculativeDAG, TLC

PoolSymmetry == Permutations(Workers)
=============================================================================
