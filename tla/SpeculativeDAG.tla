--------------------------- MODULE SpeculativeDAG ---------------------------
(***************************************************************************)
(* The parallel DAG executor (src/runtime/dag_executor.cpp).               *)
(*                                                                         *)
(* The caller adds nodes, each with a set of earlier nodes it depends on,  *)
(* and runs them, either on a pool of threads that hand ready nodes to     *)
(* each other through a lock-free ring of tickets (run_parallel), or by    *)
(* sweeping over them (run_serial).                                        *)
(*                                                                         *)
(* A step is one access to an atomic.  Atomics are sequentially            *)
(* consistent here; the code's acquire/release orders give the same        *)
(* happens-before edges along every state, deps_seen and ring_seq access.  *)
(* The caller runs an object once: a run never resets deps_seen or state.  *)
(***************************************************************************)
EXTENDS Integers, FiniteSets

CONSTANTS MaxNodes,    \* kMaxNodes
          RingSlots,   \* kRingSlots
          Main,        \* the calling thread
          Workers      \* the pool's threads

ASSUME DagAssumption ==
    /\ MaxNodes \in Nat
    /\ RingSlots \in Nat /\ RingSlots >= MaxNodes /\ RingSlots > 0
    /\ IsFiniteSet(Workers)
    /\ Main \notin Workers

VARIABLES
    count,         \* count_
    deps,          \* Node::deps, a set for the bit mask
    consumers,     \* consumers_
    deps_seen,     \* Node::deps_seen
    state,         \* Node::state
    ring_token, ring_seq, enqueue_pos, dequeue_pos,
    completed,     \* completed_
    active,        \* active_
    mode,          \* what the caller is doing
    sweep,         \* run_serial's locals: at (i), done, progressed
    pc,            \* where each thread is
    pos,           \* its ring position (enqueue or try_dequeue)
    node,          \* the node it processes; run_parallel's i while seeding
    todo,          \* notify_dependents' remaining bits
    ready,         \* the node it makes runnable and enqueues
    runs           \* history: how often each node's function was called

graphVars  == <<count, deps, consumers>>
ringVars   == <<ring_token, ring_seq, enqueue_pos, dequeue_pos>>
localVars  == <<pos, node, todo, ready>>
vars == <<graphVars, deps_seen, state, ringVars, completed, active, mode, sweep,
          pc, localVars, runs>>

Nodes   == 0..(MaxNodes - 1)
Threads == Workers \cup {Main}
Slots   == 0..(RingSlots - 1)

(* kEmptyToken: no node has this index. *)
Empty == MaxNodes

Slot(p) == p % RingSlots

(* Where a thread may be; the first line is outside worker_loop. *)
Places == {"unborn", "adding", "seeding", "spawning", "scan", "exited", "returned",
           "load_pos", "check_seq", "cas_pos", "read_token", "free_slot",
           "claim", "claim_pending", "running", "notify", "make_runnable",
           "enqueue", "await_slot", "put_token", "publish", "count",
           "check_done", "leave"}

-----------------------------------------------------------------------------
(* Building the graph.                                                     *)

NoTicket(s) == 0

(* The constructor stamps slot s with the first ticket it will serve. *)
FirstTicket(s) == s

Init ==
    /\ count = 0
    /\ deps = [n \in Nodes |-> {}]
    /\ consumers = [n \in Nodes |-> {}]
    /\ deps_seen = [n \in Nodes |-> {}]
    /\ state = [n \in Nodes |-> "Pending"]
    /\ ring_token = [s \in Slots |-> Empty]
    /\ ring_seq = [s \in Slots |-> FirstTicket(s)]
    /\ enqueue_pos = 0 /\ dequeue_pos = 0
    /\ completed = 0 /\ active = 0
    /\ mode = "adding"
    /\ sweep = [at |-> 0, done |-> 0, progressed |-> FALSE]
    /\ pc = [t \in Threads |-> IF t = Main THEN "adding" ELSE "unborn"]
    /\ pos = [t \in Threads |-> 0]
    /\ node = [t \in Threads |-> 0]
    /\ todo = [t \in Threads |-> {}]
    /\ ready = [t \in Threads |-> 0]
    /\ runs = [n \in Nodes |-> 0]

(* deps & ((1 << count_) - 1): a node depends on earlier nodes only. *)
EarlierDeps(D) == D \cap 0..(count - 1)

AddNode ==
    /\ pc[Main] = "adding"
    /\ count < MaxNodes
    /\ \E D \in SUBSET Nodes : deps' = [deps EXCEPT ![count] = EarlierDeps(D)]
    /\ consumers' = [d \in Nodes |-> IF d \in deps'[count]
                                       THEN consumers[d] \cup {count} ELSE consumers[d]]
    /\ count' = count + 1
    /\ UNCHANGED <<deps_seen, state, ringVars, completed, active, mode, sweep,
                   pc, localVars, runs>>

-----------------------------------------------------------------------------
(* Shared pieces.                                                          *)

Go(t, place) == pc' = [pc EXCEPT ![t] = place]

AnyDepSeen(n, seen) == deps[n] = {} \/ deps[n] \cap seen # {}

(* (seen & deps) == deps *)
AllDepsSeen(n, seen) == deps[n] \subseteq seen

BlindSwap(n, expected) == TRUE

(* compare_exchange_strong on a node's state finds what it expects. *)
Swaps(n, expected) == state[n] = expected

SeenBefore(n, d) == deps_seen[n]

(* The result of fetch_or, with the bit just set. *)
SeenWith(n, d) == deps_seen[n] \cup {d}

-----------------------------------------------------------------------------
(* run_parallel.                                                           *)

RunParallel ==
    /\ pc[Main] = "adding"
    /\ completed' = 0
    /\ mode' = IF count = 0 THEN "returned" ELSE "seeding"
    /\ Go(Main, mode')
    /\ UNCHANGED <<graphVars, deps_seen, state, ringVars, active, sweep, localVars,
                   runs>>

(* runnable_or_done(i): no other thread exists yet. *)
Seed ==
    /\ pc[Main] = "seeding"
    /\ node[Main] < count
    /\ node' = [node EXCEPT ![Main] = @ + 1]
    /\ LET i == node[Main]
       IN  IF AllDepsSeen(i, deps_seen[i]) /\ Swaps(i, "Pending")
             THEN /\ state' = [state EXCEPT ![i] = "Runnable"]
                  /\ ready' = [ready EXCEPT ![Main] = i]
                  /\ Go(Main, "enqueue")
             ELSE UNCHANGED <<state, ready, pc>>
    /\ UNCHANGED <<graphVars, deps_seen, ringVars, completed, active, mode, sweep,
                   pos, todo, runs>>

(* want + 1: the pool and the caller. *)
ActiveThreads(W) == Cardinality(W) + 1

(* Start the pool, of any size up to its maximum, and enter worker_loop. *)
Spawn ==
    /\ pc[Main] = "seeding"
    /\ node[Main] = count
    /\ mode' = "parallel"
    /\ \E W \in (SUBSET Workers) \ {{}} :
         /\ active' = ActiveThreads(W)
         /\ pc' = [t \in Threads |-> IF t \in W \cup {Main} THEN "load_pos" ELSE pc[t]]
    /\ UNCHANGED <<graphVars, deps_seen, state, ringVars, completed, sweep,
                   localVars, runs>>

(* Every thread of the pool was joined. *)
Joined ==
    /\ pc[Main] = "exited"
    /\ \A w \in Workers : pc[w] \in {"unborn", "exited"}
    /\ mode' = "returned"
    /\ Go(Main, "returned")
    /\ UNCHANGED <<graphVars, deps_seen, state, ringVars, completed, active, sweep,
                   localVars, runs>>

-----------------------------------------------------------------------------
(* try_dequeue.                                                            *)

LoadPos(t) ==
    /\ pc[t] = "load_pos"
    /\ pos' = [pos EXCEPT ![t] = dequeue_pos]
    /\ Go(t, "check_seq")
    /\ UNCHANGED <<graphVars, deps_seen, state, ringVars, completed, active, mode,
                   sweep, node, todo, ready, runs>>

(* Only a published ticket can be taken. *)
CheckSeq(t) ==
    /\ pc[t] = "check_seq"
    /\ Go(t, IF ring_seq[Slot(pos[t])] = pos[t] + 1 THEN "cas_pos" ELSE "check_done")
    /\ UNCHANGED <<graphVars, deps_seen, state, ringVars, completed, active, mode,
                   sweep, localVars, runs>>

TakesAnyPos(t) == TRUE

(* The exchange finds the position it loaded. *)
TakesPos(t) == dequeue_pos = pos[t]

TakePos(t) ==
    /\ pc[t] = "cas_pos"
    /\ TakesPos(t)
    /\ dequeue_pos' = pos[t] + 1
    /\ Go(t, "read_token")
    /\ UNCHANGED <<graphVars, deps_seen, state, ring_token, ring_seq, enqueue_pos,
                   completed, active, mode, sweep, localVars, runs>>

(* The exchange fails, for a reason or, being the weak one, without. *)
LosePos(t) ==
    /\ pc[t] = "cas_pos"
    /\ pos' = [pos EXCEPT ![t] = dequeue_pos]
    /\ Go(t, "check_seq")
    /\ UNCHANGED <<graphVars, deps_seen, state, ringVars, completed, active, mode,
                   sweep, node, todo, ready, runs>>

ReadToken(t) ==
    /\ pc[t] = "read_token"
    /\ node' = [node EXCEPT ![t] = ring_token[Slot(pos[t])]]
    /\ Go(t, "free_slot")
    /\ UNCHANGED <<graphVars, deps_seen, state, ringVars, completed, active, mode,
                   sweep, pos, todo, ready, runs>>

(* Give the slot to the next round of tickets; ignore a token of no node. *)
FreeSlot(t) ==
    /\ pc[t] = "free_slot"
    /\ ring_seq' = [ring_seq EXCEPT ![Slot(pos[t])] = pos[t] + RingSlots]
    /\ Go(t, IF node[t] < count THEN "claim" ELSE "load_pos")
    /\ UNCHANGED <<graphVars, deps_seen, state, ring_token, enqueue_pos, dequeue_pos,
                   completed, active, mode, sweep, localVars, runs>>

-----------------------------------------------------------------------------
(* process_node.                                                           *)

(* Where process_node returns to. *)
NextNode == IF mode = "serial" THEN "scan" ELSE "load_pos"

(* Claim the node node[t] if its state is the expected one. *)
ClaimFrom(t, expected, otherwise) ==
    /\ IF Swaps(node[t], expected)
         THEN /\ state' = [state EXCEPT ![node[t]] = "Running"]
              /\ runs' = [runs EXCEPT ![node[t]] = @ + 1]
              /\ Go(t, "running")
         ELSE Go(t, otherwise) /\ UNCHANGED <<state, runs>>
    /\ UNCHANGED <<graphVars, deps_seen, ringVars, completed, active, mode, sweep,
                   localVars>>

ClaimRunnable(t) == pc[t] = "claim" /\ ClaimFrom(t, "Runnable", "claim_pending")

ClaimPending(t) == pc[t] = "claim_pending" /\ ClaimFrom(t, "Pending", NextNode)

(* The node's function returns; the node is done. *)
FnReturns(t) ==
    /\ pc[t] = "running"
    /\ state' = [state EXCEPT ![node[t]] = "Done"]
    /\ todo' = [todo EXCEPT ![t] = consumers[node[t]]]
    /\ Go(t, "notify")
    /\ UNCHANGED <<graphVars, deps_seen, ringVars, completed, active, mode, sweep,
                   pos, node, ready, runs>>

(* notify_dependents: set the bit in the next dependent. *)
Notify(t) ==
    /\ pc[t] = "notify"
    /\ \E j \in todo[t] :
         /\ \A k \in todo[t] : j <= k
         /\ todo' = [todo EXCEPT ![t] = @ \ {j}]
         /\ deps_seen' = [deps_seen EXCEPT ![j] = @ \cup {node[t]}]
         /\ ready' = [ready EXCEPT ![t] = j]
         /\ Go(t, IF AllDepsSeen(j, SeenWith(j, node[t]))
                    THEN "make_runnable" ELSE "notify")
    /\ UNCHANGED <<graphVars, state, ringVars, completed, active, mode, sweep,
                   pos, node, runs>>

MakeRunnable(t) ==
    /\ pc[t] = "make_runnable"
    /\ IF Swaps(ready[t], "Pending")
         THEN state' = [state EXCEPT ![ready[t]] = "Runnable"] /\ Go(t, "enqueue")
         ELSE Go(t, "notify") /\ UNCHANGED state
    /\ UNCHANGED <<graphVars, deps_seen, ringVars, completed, active, mode, sweep,
                   localVars, runs>>

NotifyEnds(t) ==
    /\ pc[t] = "notify"
    /\ todo[t] = {}
    /\ Go(t, "count")
    /\ UNCHANGED <<graphVars, deps_seen, state, ringVars, completed, active, mode,
                   sweep, localVars, runs>>

Count(t) ==
    /\ pc[t] = "count"
    /\ completed' = completed + 1
    /\ Go(t, NextNode)
    /\ UNCHANGED <<graphVars, deps_seen, state, ringVars, active, mode, sweep,
                   localVars, runs>>

-----------------------------------------------------------------------------
(* enqueue.                                                                *)

TakeTicket(t) ==
    /\ pc[t] = "enqueue"
    /\ pos' = [pos EXCEPT ![t] = enqueue_pos]
    /\ enqueue_pos' = enqueue_pos + 1
    /\ Go(t, "await_slot")
    /\ UNCHANGED <<graphVars, deps_seen, state, ring_token, ring_seq, dequeue_pos,
                   completed, active, mode, sweep, node, todo, ready, runs>>

(* Spin until the slot is free. *)
AwaitSlot(t) ==
    /\ pc[t] = "await_slot"
    /\ ring_seq[Slot(pos[t])] = pos[t]
    /\ Go(t, "put_token")
    /\ UNCHANGED <<graphVars, deps_seen, state, ringVars, completed, active, mode,
                   sweep, localVars, runs>>

PutToken(t) ==
    /\ pc[t] = "put_token"
    /\ ring_token' = [ring_token EXCEPT ![Slot(pos[t])] = ready[t]]
    /\ Go(t, "publish")
    /\ UNCHANGED <<graphVars, deps_seen, state, ring_seq, enqueue_pos, dequeue_pos,
                   completed, active, mode, sweep, localVars, runs>>

Publish(t) ==
    /\ pc[t] = "publish"
    /\ ring_seq' = [ring_seq EXCEPT ![Slot(pos[t])] = pos[t] + 1]
    /\ Go(t, IF mode = "seeding" THEN "seeding" ELSE "notify")
    /\ UNCHANGED <<graphVars, deps_seen, state, ring_token, enqueue_pos, dequeue_pos,
                   completed, active, mode, sweep, localVars, runs>>

-----------------------------------------------------------------------------
(* The end of worker_loop.                                                 *)

AlmostCompleted == completed + 1 >= count

(* completed_ == total *)
AllCompleted == completed = count

CheckDone(t) ==
    /\ pc[t] = "check_done"
    /\ Go(t, IF AllCompleted THEN "leave" ELSE "load_pos")
    /\ UNCHANGED <<graphVars, deps_seen, state, ringVars, completed, active, mode,
                   sweep, localVars, runs>>

Leave(t) ==
    /\ pc[t] = "leave"
    /\ active' = active - 1
    /\ Go(t, "exited")
    /\ UNCHANGED <<graphVars, deps_seen, state, ringVars, completed, mode, sweep,
                   localVars, runs>>

-----------------------------------------------------------------------------
(* run_serial.                                                             *)

RunSerial ==
    /\ pc[Main] = "adding"
    /\ mode' = IF count = 0 THEN "returned" ELSE "serial"
    /\ Go(Main, IF count = 0 THEN "returned" ELSE "scan")
    /\ UNCHANGED <<graphVars, deps_seen, state, ringVars, completed, active, sweep,
                   localVars, runs>>

(* One iteration of the for loop: process the node or skip it. *)
ScanNode ==
    /\ pc[Main] = "scan"
    /\ sweep.at < count
    /\ LET i == sweep.at
       IN  IF AllDepsSeen(i, deps_seen[i]) /\ state[i] \in {"Pending", "Runnable"}
             THEN /\ sweep' = [at |-> i + 1, done |-> sweep.done + 1, progressed |-> TRUE]
                  /\ node' = [node EXCEPT ![Main] = i]
                  /\ Go(Main, "claim")
             ELSE /\ sweep' = [sweep EXCEPT !.at = i + 1]
                  /\ UNCHANGED <<node, pc>>
    /\ UNCHANGED <<graphVars, deps_seen, state, ringVars, completed, active, mode,
                   pos, todo, ready, runs>>

(* The end of a sweep: another one, or return. *)
SweepEnds ==
    /\ pc[Main] = "scan"
    /\ sweep.at = count
    /\ IF sweep.done < count /\ sweep.progressed
         THEN /\ sweep' = [sweep EXCEPT !.at = 0, !.progressed = FALSE]
              /\ UNCHANGED <<pc, mode>>
         ELSE /\ mode' = "returned" /\ Go(Main, "returned")
              /\ UNCHANGED sweep
    /\ UNCHANGED <<graphVars, deps_seen, state, ringVars, completed, active,
                   localVars, runs>>

-----------------------------------------------------------------------------
Dequeues(t) == \/ LoadPos(t) \/ CheckSeq(t) \/ TakePos(t) \/ LosePos(t)
               \/ ReadToken(t) \/ FreeSlot(t)
Processes(t) == \/ ClaimRunnable(t) \/ ClaimPending(t) \/ FnReturns(t)
                \/ Notify(t) \/ MakeRunnable(t) \/ NotifyEnds(t) \/ Count(t)
Enqueues(t) == TakeTicket(t) \/ AwaitSlot(t) \/ PutToken(t) \/ Publish(t)

ThreadStep(t) == Dequeues(t) \/ Processes(t) \/ Enqueues(t) \/ CheckDone(t) \/ Leave(t)
CallerStep == Seed \/ Spawn \/ Joined \/ ScanNode \/ SweepEnds

(* The caller is done with the object. *)
Over == mode = "returned" /\ UNCHANGED vars

Next ==
    \/ AddNode \/ RunParallel \/ RunSerial \/ CallerStep \/ Over
    \/ \E t \in Threads : ThreadStep(t)

SafeSpec == Init /\ [][Next]_vars

(* The operating system runs every thread, a node's function returns, and a  *)
(* weak exchange does not fail forever without a reason.                     *)
Spec == /\ SafeSpec
        /\ WF_vars(CallerStep)
        /\ \A t \in Threads : WF_vars(ThreadStep(t)) /\ SF_vars(TakePos(t))

-----------------------------------------------------------------------------
(* Every variable holds a value of its type. *)
TypeOK ==
    /\ count \in 0..MaxNodes
    /\ deps \in [Nodes -> SUBSET Nodes] /\ consumers \in [Nodes -> SUBSET Nodes]
    /\ deps_seen \in [Nodes -> SUBSET Nodes]
    /\ state \in [Nodes -> {"Pending", "Runnable", "Running", "Done"}]
    /\ ring_token \in [Slots -> Nodes \cup {Empty}] /\ ring_seq \in [Slots -> Nat]
    /\ enqueue_pos \in Nat /\ dequeue_pos \in Nat
    /\ completed \in Nat /\ active \in Nat
    /\ mode \in {"adding", "seeding", "parallel", "serial", "returned"}
    /\ sweep \in [at : Nat, done : Nat, progressed : BOOLEAN]
    /\ pc \in [Threads -> Places]
    /\ pos \in [Threads -> Nat] /\ node \in [Threads -> Nodes \cup {Empty}]
    /\ todo \in [Threads -> SUBSET Nodes] /\ ready \in [Threads -> Nodes \cup {0}]
    /\ runs \in [Nodes -> Nat]

(* A node's function is called at most once, although several dependencies   *)
(* may finish together and each find the node's dependencies complete.       *)
RunsOnce == \A n \in Nodes : runs[n] <= 1

(* A node's function runs only after those of its dependencies returned.     *)
DepsDoneFirst ==
    \A t \in Threads : pc[t] = "running" =>
        \A d \in deps[node[t]] : state[d] = "Done"

(* Where a thread is in enqueue, writes its ticket's slot, and is past a     *)
(* node's function in process_node.                                          *)
EnqueuePlaces == {"enqueue", "await_slot", "put_token", "publish"}
WritePlaces   == EnqueuePlaces \ {"enqueue"}
ReportPlaces  == EnqueuePlaces \cup {"notify", "make_runnable", "count"}

Reporting(t) == pc[t] \in ReportPlaces /\ mode # "seeding"

(* Thread t is about to enqueue node n, or took it and has not claimed it. *)
Holds(t, n) ==
    \/ pc[t] \in EnqueuePlaces /\ ready[t] = n
    \/ pc[t] = "read_token" /\ ring_token[Slot(pos[t])] = n
    \/ pc[t] \in {"free_slot", "claim", "claim_pending"} /\ node[t] = n

(* Ticket p, not taken yet, is published with node n. *)
Offers(p, n) == ring_seq[Slot(p)] = p + 1 /\ ring_token[Slot(p)] = n

(* A runnable node is in exactly one place: about to be enqueued by one      *)
(* thread, published in the ring, or taken by one thread that has not        *)
(* claimed it yet.  No token is lost, duplicated or overwritten.             *)
TokenInOnePlace ==
    mode \in {"seeding", "parallel"} =>
        \A n \in Nodes :
            Cardinality({t \in Threads : Holds(t, n)})
            + Cardinality({p \in dequeue_pos..(enqueue_pos - 1) : Offers(p, n)})
            = IF state[n] = "Runnable" THEN 1 ELSE 0

(* The thread that took a ticket never waits for its slot: with a slot for   *)
(* every node the ring is never full.                                        *)
EnqueueNeverWaits ==
    \A t \in Threads : pc[t] = "await_slot" => ring_seq[Slot(pos[t])] = pos[t]

(* A run returns with every function called and returned. *)
ReturnsComplete ==
    mode = "returned" => \A n \in 0..(count - 1) : state[n] = "Done"

(* Detail implements promise. *)
Promise == INSTANCE DagRun WITH
    nodes <- count, needs <- deps,
    started <- {n \in Nodes : state[n] \in {"Running", "Done"}},
    finished <- {n \in Nodes : state[n] = "Done"},
    over <- mode = "returned"

DagRunSpec == Promise!Spec

(* A run returns: no ready node is forgotten and no thread spins forever on  *)
(* an empty ring or a count that never comes.                                *)
Terminates == mode \in {"seeding", "serial"} ~> mode = "returned"

-----------------------------------------------------------------------------
(* The inductive invariant behind the safety properties.                   *)

(* A node depends on earlier nodes only, consumers is the inverse of deps,  *)
(* and an index no node has yet is untouched.                               *)
GraphShape ==
    /\ \A n \in Nodes : deps[n] \subseteq 0..(n - 1)
    /\ \A n \in Nodes : n >= count =>
           deps[n] = {} /\ deps_seen[n] = {} /\ state[n] = "Pending"
    /\ \A d, n \in Nodes : n \in consumers[d] <=> d \in deps[n]

(* Which threads exist, and where they may be, by what the caller does. *)
ThreadsConsistent ==
    /\ mode \in {"adding", "seeding", "serial"} => \A w \in Workers : pc[w] = "unborn"
    /\ mode = "adding" => /\ pc[Main] = "adding"
                          /\ \A n \in Nodes : state[n] = "Pending"
    /\ mode = "seeding" => pc[Main] \in {"seeding"} \cup EnqueuePlaces
    /\ mode = "serial" =>
           pc[Main] \in {"scan", "claim", "claim_pending", "running"} \cup ReportPlaces
    /\ mode = "parallel" =>
           /\ pc[Main] # "unborn"
           /\ \A t \in Threads : /\ pc[t] \notin {"adding", "seeding", "spawning", "scan",
                                                  "claim_pending", "returned"}
                                 /\ pc[t] \in {"leave", "exited"} => completed = count
    /\ mode = "returned" => /\ pc[Main] = "returned"
                            /\ \A w \in Workers : pc[w] \in {"unborn", "exited"}

(* active_ counts the threads that have not left worker_loop. *)
Alive(t) == pc[t] \notin {"unborn", "exited"}

ActiveCounted == mode = "parallel" => active = Cardinality({t \in Threads : Alive(t)})

(* One thread works on a node; the others find it claimed. *)
WorkOwned ==
    /\ \A t \in Threads : pc[t] = "running" => node[t] < count /\ state[node[t]] = "Running"
    /\ \A n \in Nodes : state[n] = "Running" =>
           \E t \in Threads : pc[t] = "running" /\ node[t] = n
    /\ \A t \in Threads : Reporting(t) =>
           /\ node[t] < count /\ state[node[t]] = "Done"
           /\ todo[t] \subseteq consumers[node[t]]
           /\ pc[t] = "count" => todo[t] = {}
    /\ \A t, u \in Threads : Reporting(t) /\ Reporting(u) /\ node[t] = node[u] => t = u
    /\ \A t, u \in Threads :
           pc[t] = "running" /\ pc[u] = "running" /\ node[t] = node[u] => t = u
    /\ \A n \in Nodes : runs[n] = IF state[n] \in {"Running", "Done"} THEN 1 ELSE 0

(* The bits in deps_seen are those of finished dependencies; the bit of a    *)
(* finished dependency is set, or the thread that finished it is about to.   *)
DepsTold ==
    /\ \A n \in Nodes : deps_seen[n] \subseteq deps[n]
    /\ \A n \in Nodes : \A d \in deps_seen[n] : state[d] = "Done"
    /\ \A n \in Nodes : state[n] # "Pending" => deps[n] \subseteq deps_seen[n]
    /\ \A d, n \in Nodes : d \in deps[n] /\ state[d] = "Done" =>
           \/ d \in deps_seen[n]
           \/ \E t \in Threads : Reporting(t) /\ node[t] = d /\ n \in todo[t]
    /\ \A t \in Threads : pc[t] = "make_runnable" =>
           ready[t] < count /\ deps[ready[t]] \subseteq deps_seen[ready[t]]
    /\ \A t \in Threads : pc[t] \in EnqueuePlaces =>
           ready[t] < count /\ state[ready[t]] # "Pending"

(* Tickets are never taken back and there are at most as many as nodes that  *)
(* became runnable, so a ticket is its own slot.  A ticket is written by one *)
(* thread, published, taken by one thread and freed, in this order.          *)
Ticketed == {n \in Nodes : /\ state[n] # "Pending"
                           /\ \A t \in Threads : ~ (pc[t] = "enqueue" /\ ready[t] = n)}

RingTickets ==
    /\ dequeue_pos <= enqueue_pos /\ enqueue_pos <= Cardinality(Ticketed)
    /\ \A s \in Slots : ring_seq[s] \in {s, s + 1, s + RingSlots}
    /\ \A s \in Slots : s >= enqueue_pos => ring_seq[s] = s
    /\ \A s \in Slots : s >= dequeue_pos => ring_seq[s] \in {s, s + 1}
    /\ \A t \in Threads : pc[t] \in WritePlaces =>
           /\ dequeue_pos <= pos[t] /\ pos[t] < enqueue_pos /\ ring_seq[pos[t]] = pos[t]
           /\ pc[t] = "publish" => ring_token[pos[t]] = ready[t]
    /\ \A t, u \in Threads :
           pc[t] \in WritePlaces /\ pc[u] \in WritePlaces /\ pos[t] = pos[u] => t = u
    /\ \A t \in Threads : pc[t] \in {"check_seq", "cas_pos"} => pos[t] <= dequeue_pos
    /\ \A t \in Threads : pc[t] = "cas_pos" =>
           pos[t] < enqueue_pos /\ ring_seq[pos[t]] # pos[t]
    /\ \A t \in Threads : pc[t] \in {"read_token", "free_slot"} => pos[t] < dequeue_pos

(* The parts of TokenInOnePlace. *)
TokensKept ==
    mode \in {"seeding", "parallel"} =>
        /\ \A t \in Threads : \A n \in Nodes \cup {Empty} :
               Holds(t, n) => n < count /\ state[n] = "Runnable"
        /\ \A p \in dequeue_pos..(enqueue_pos - 1) : \A n \in Nodes \cup {Empty} :
               Offers(p, n) => n < count /\ state[n] = "Runnable"
        /\ \A t, u \in Threads : \A n \in Nodes : Holds(t, n) /\ Holds(u, n) => t = u
        /\ \A p, q \in dequeue_pos..(enqueue_pos - 1) : \A n \in Nodes :
               Offers(p, n) /\ Offers(q, n) => p = q
        /\ \A t \in Threads : \A p \in dequeue_pos..(enqueue_pos - 1) : \A n \in Nodes :
               ~ (Holds(t, n) /\ Offers(p, n))
        /\ \A n \in Nodes : state[n] = "Runnable" =>
               \/ \E t \in Threads : Holds(t, n)
               \/ \E p \in dequeue_pos..(enqueue_pos - 1) : Offers(p, n)

(* completed_ counts the done nodes no thread is reporting on any more. *)
Counted == {n \in Nodes : /\ state[n] = "Done"
                          /\ \A t \in Threads : ~ (Reporting(t) /\ node[t] = n)}

CountedOnce == completed = Cardinality(Counted)

(* run_serial: done is one ahead of completed_ while a node is processed,    *)
(* and a sweep without progress passed only nodes that are done or blocked.  *)
SweepSound ==
    /\ mode = "adding" => sweep = [at |-> 0, done |-> 0, progressed |-> FALSE]
    /\ mode = "serial" =>
           /\ sweep.at <= count
           /\ sweep.done = completed + (IF pc[Main] = "scan" THEN 0 ELSE 1)
           /\ pc[Main] # "scan" => sweep.progressed
           /\ ~ sweep.progressed =>
                  \A i \in 0..(sweep.at - 1) :
                      state[i] = "Done" \/ ~ (deps[i] \subseteq deps_seen[i])
           /\ pc[Main] \in {"claim", "claim_pending"} =>
                  /\ node[Main] < count
                  /\ deps[node[Main]] \subseteq deps_seen[node[Main]]
           /\ pc[Main] = "claim" => state[node[Main]] \in {"Pending", "Runnable"}
           /\ pc[Main] = "claim_pending" => state[node[Main]] = "Pending"

IInv ==
    /\ TypeOK
    /\ GraphShape
    /\ ThreadsConsistent
    /\ ActiveCounted
    /\ WorkOwned
    /\ DepsTold
    /\ RingTickets
    /\ TokensKept
    /\ CountedOnce
    /\ SweepSound
    /\ ReturnsComplete
=============================================================================
