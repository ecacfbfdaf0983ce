------------------------------- MODULE DagRun -------------------------------
(***************************************************************************)
(* What SpeculativeDAG promises its caller: add nodes that depend on       *)
(* earlier nodes, run the graph, and when the run returns every node's     *)
(* function has run, once, and not before the functions of the nodes it    *)
(* depends on had returned.                                                *)
(***************************************************************************)
EXTENDS Integers

CONSTANT MaxNodes   \* kMaxNodes

VARIABLES nodes,     \* how many nodes were added: they are 0..nodes-1
          needs,     \* needs[n]: the nodes n depends on
          started,   \* nodes whose function was called
          finished,  \* nodes whose function returned
          over       \* the run returned to its caller

dagVars == <<nodes, needs, started, finished, over>>

Init ==
    /\ nodes = 0
    /\ needs = [n \in 0..(MaxNodes - 1) |-> {}]
    /\ started = {} /\ finished = {}
    /\ over = FALSE

Add ==
    /\ ~ over /\ started = {} /\ nodes < MaxNodes
    /\ \E D \in SUBSET (0..(nodes - 1)) : needs' = [needs EXCEPT ![nodes] = D]
    /\ nodes' = nodes + 1
    /\ UNCHANGED <<started, finished, over>>

Start(n) ==
    /\ ~ over /\ n \notin started /\ needs[n] \subseteq finished
    /\ started' = started \cup {n}
    /\ UNCHANGED <<nodes, needs, finished, over>>

Finish(n) ==
    /\ ~ over /\ n \in started \ finished
    /\ finished' = finished \cup {n}
    /\ UNCHANGED <<nodes, needs, started, over>>

Return ==
    /\ ~ over /\ finished = 0..(nodes - 1)
    /\ over' = TRUE
    /\ UNCHANGED <<nodes, needs, started, finished>>

Next == Add \/ Return \/ \E n \in 0..(nodes - 1) : Start(n) \/ Finish(n)

Spec == Init /\ [][Next]_dagVars
=============================================================================
