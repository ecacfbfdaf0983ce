--------------------------- MODULE EvictionChannel ---------------------------
(***************************************************************************)
(* What ContextManager promises about the chunks it evicts from the        *)
(* window: each is offered once, and the chunks leave the manager oldest   *)
(* first, one at a time, either stored in L3 or dropped with an error on   *)
(* stderr.  Nothing is stored twice, reordered or invented.                *)
(*                                                                         *)
(* Chunks are named by their ordinal: the k-th chunk enqueued is chunk k.  *)
(***************************************************************************)
EXTENDS Naturals, Sequences

VARIABLES offered,   \* how many chunks were handed to the manager's writer
          settled,   \* how many of them have left it: always the oldest ones
          stored     \* the chunks in l2_summaries, in row order

chanVars == <<offered, settled, stored>>

Init == offered = 0 /\ settled = 0 /\ stored = <<>>

Offer == offered' = offered + 1 /\ UNCHANGED <<settled, stored>>

(* The oldest pending chunk becomes a row of l2_summaries. *)
Store ==
    /\ settled < offered
    /\ settled' = settled + 1
    /\ stored' = Append(stored, settled')
    /\ UNCHANGED offered

(* The oldest pending chunk is given up. *)
Drop ==
    /\ settled < offered
    /\ settled' = settled + 1
    /\ UNCHANGED <<offered, stored>>

Next == Offer \/ Store \/ Drop

Spec == Init /\ [][Next]_chanVars
=============================================================================
