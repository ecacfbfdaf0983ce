---------------------------- MODULE SlidingWindow ----------------------------
(***************************************************************************)
(* What ContextManager promises about the window as long as all messages   *)
(* are equally important, which they are for the REPL: a message that is   *)
(* added makes room by the oldest ones leaving, the prompt stays, and      *)
(* nothing else happens to the window until the next call.                 *)
(***************************************************************************)
EXTENDS Integers, Sequences

CONSTANTS Prompt,     \* the first message, which stays
          Messages    \* what may be added

VARIABLE shown        \* the window between two calls

(* The windows that adding the messages ms one by one can leave. *)
Adding(w, ms) ==
    LET all == Tail(w) \o ms
    IN  {<<Prompt>> \o SubSeq(all, k, Len(all)) : k \in 1..(Len(all) + 1)}

Init == shown = <<Prompt>>

Add == \E m \in Messages : shown' \in Adding(shown, <<m>>)

Clear == shown' = <<Prompt>>

Next == Add \/ Clear

Spec == Init /\ [][Next]_shown
=============================================================================
