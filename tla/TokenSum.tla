------------------------------ MODULE TokenSum ------------------------------
(***************************************************************************)
(* The reference definition of a window's token count, against which the   *)
(* counters the code keeps incrementally are checked.                      *)
(***************************************************************************)
EXTENDS Integers, Sequences

(* The sum of the token counts of the messages in w. *)
TokensOf(w) ==
    LET upTo[n \in 0..Len(w)] ==
            IF n = 0 THEN 0 ELSE upTo[n - 1] + w[n].tokens
    IN  upTo[Len(w)]
=============================================================================
