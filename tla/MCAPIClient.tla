---------------------------- MODULE MCAPIClient ----------------------------
(***************************************************************************)
(* Two prompts that are exactly as close as a hit requires, one that is    *)
(* close to neither, one without a word (its embedding is zero), and one   *)
(* too long for the cache.                                                 *)
(***************************************************************************)
EXTENDS APIClient

MCPrompts == {"ask", "ask!", "other", "?!", "long"}
MCKeys == MCPrompts \ {"long"}

MCSimilarity ==
    [pq \in MCPrompts \X MCPrompts |->
        IF "?!" \in {pq[1], pq[2]} THEN 0
        ELSE IF pq[1] = pq[2] THEN 100
        ELSE IF {pq[1], pq[2]} = {"ask", "ask!"} THEN 95
        ELSE 40]
=============================================================================
