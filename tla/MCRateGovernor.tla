--------------------------- MODULE MCRateGovernor ---------------------------
(***************************************************************************)
(* A minute of 3 clock units, three requests and six tokens a minute; a    *)
(* request takes 1, 3 or 7 tokens, so that either limit can be the one     *)
(* that bites and one request can never pass.                              *)
(***************************************************************************)
EXTENDS RateGovernor

MCEstimates == {1, 3, 7}
=============================================================================
