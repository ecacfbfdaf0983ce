---------------------------- MODULE MCGoTEngine ----------------------------
(***************************************************************************)
(* Three branches and the code's threshold of 0.70.  An answer can be      *)
(* excellent, exactly at the threshold, just below it, or the worst an     *)
(* answer with content can be.                                             *)
(***************************************************************************)
EXTENDS GoTEngine

Answer(balanced, closed, hits, density) ==
    [balanced |-> balanced, closed |-> closed, hits |-> hits, density |-> density]

MCQualities == {Answer(TRUE, TRUE, 100, 100), Answer(TRUE, TRUE, 50, 50),
                Answer(TRUE, FALSE, 50, 60), Answer(FALSE, FALSE, 0, 0)}
=============================================================================
