------------------------ MODULE SpeculativeDAG_proofs ------------------------
(***************************************************************************)
(* Theorems about SpeculativeDAG, for every graph, pool and ring with a    *)
(* slot for each node.                                                     *)
(***************************************************************************)
EXTENDS SpeculativeDAG, FiniteSetTheorems, WellFoundedInduction, TLAPS

(* Sets of nodes are finite and no larger than the graph may be. *)
LEMMA NodeSets ==
    ASSUME NEW S, S \subseteq Nodes
    PROVE  IsFiniteSet(S) /\ Cardinality(S) \in Nat /\ Cardinality(S) <= MaxNodes
<1>1. MaxNodes \in Nat BY DagAssumption
<1>2. IsFiniteSet(Nodes) /\ Cardinality(Nodes) = MaxNodes
  BY <1>1, FS_Interval DEF Nodes
<1>3. IsFiniteSet(S) /\ Cardinality(S) <= Cardinality(Nodes)
  BY <1>2, FS_Subset
<1> QED BY <1>2, <1>3, FS_CardinalityType

LEMMA ThreadsFinite ==
    ASSUME NEW S, S \subseteq Threads
    PROVE  IsFiniteSet(S)
<1>1. IsFiniteSet(Threads) BY DagAssumption, FS_AddElement DEF Threads
<1> QED BY <1>1, FS_Subset

(* A set of the first n nodes that has n members is all of them. *)
LEMMA FirstNodes ==
    ASSUME NEW n \in 0..MaxNodes, NEW S, S \subseteq 0..(n - 1)
    PROVE  /\ Cardinality(S) \in Nat /\ Cardinality(S) <= n
           /\ Cardinality(S) = n => S = 0..(n - 1)
<1>1. MaxNodes \in Nat /\ n \in Nat BY DagAssumption
<1>2. IsFiniteSet(0..(n - 1)) /\ Cardinality(0..(n - 1)) = n
  BY <1>1, FS_Interval
<1>3. IsFiniteSet(S) /\ Cardinality(S) <= n /\ (Cardinality(S) = n => S = 0..(n - 1))
  BY <1>2, FS_Subset
<1> QED BY <1>3, FS_CardinalityType

(* An index below count_ is a node. *)
LEMMA IndexIsNode ==
    ASSUME TypeOK
    PROVE  \A n \in Nodes \cup {Empty} : n < count => n \in Nodes
BY DagAssumption DEF Nodes, Empty, TypeOK

(* A ticket below RingSlots is its own slot; the next one is slot 0. *)
LEMMA SlotOfTicket ==
    /\ \A p \in Nat : p < RingSlots => Slot(p) = p /\ p \in Slots
    /\ Slot(RingSlots) = 0 /\ 0 \in Slots
<1>1. RingSlots \in Nat /\ RingSlots > 0 BY DagAssumption
<1>2. \A p \in Nat : p < RingSlots => p % RingSlots = p BY <1>1
<1>3. RingSlots % RingSlots = 0 BY <1>1
<1> QED BY <1>1, <1>2, <1>3 DEF Slot, Slots

(* There are never more tickets than slots. *)
LEMMA TicketsFit ==
    ASSUME TypeOK, RingTickets
    PROVE  /\ enqueue_pos \in Nat /\ dequeue_pos \in Nat
           /\ dequeue_pos <= enqueue_pos /\ enqueue_pos <= RingSlots
           /\ \A p \in Nat : p < enqueue_pos => p \in Slots /\ Slot(p) = p
<1>1. Ticketed \subseteq Nodes BY DEF Ticketed
<1>2. Cardinality(Ticketed) \in Nat /\ Cardinality(Ticketed) <= MaxNodes
  BY <1>1, NodeSets
<1>3. enqueue_pos \in Nat /\ dequeue_pos \in Nat BY DEF TypeOK
<1>4. enqueue_pos <= RingSlots
  BY <1>2, <1>3, DagAssumption DEF RingTickets
<1> QED BY <1>3, <1>4, SlotOfTicket, DagAssumption DEF RingTickets

LEMMA InitIInv == Init => IInv
<1> SUFFICES ASSUME Init PROVE IInv OBVIOUS
<1> USE DagAssumption
<1>1. TypeOK
  BY DEF Init, TypeOK, Nodes, Slots, Threads, Places, Empty, FirstTicket
<1>2. GraphShape BY DEF Init, GraphShape
<1>3. ThreadsConsistent /\ ActiveCounted
  BY DEF Init, ThreadsConsistent, Threads, ActiveCounted
<1>4. \A t \in Threads : pc[t] \in {"adding", "unborn"} BY DEF Init
<1>5. WorkOwned
  BY <1>4 DEF Init, WorkOwned, Reporting, ReportPlaces, EnqueuePlaces
<1>6. DepsTold
  BY <1>4 DEF Init, DepsTold, Reporting, ReportPlaces, EnqueuePlaces
<1>7. Ticketed = {} BY DEF Init, Ticketed
<1>8. RingTickets
  BY <1>4, <1>7, FS_EmptySet
  DEF Init, RingTickets, WritePlaces, EnqueuePlaces, Slots, FirstTicket
<1>9. TokensKept BY DEF Init, TokensKept
<1>10. Counted = {} BY DEF Init, Counted
<1>11. CountedOnce BY <1>10, FS_EmptySet DEF Init, CountedOnce
<1>12. SweepSound BY DEF Init, SweepSound
<1>13. ReturnsComplete BY DEF Init, ReturnsComplete
<1> QED BY <1>1, <1>2, <1>3, <1>5, <1>6, <1>8, <1>9, <1>11, <1>12, <1>13 DEF IInv

-----------------------------------------------------------------------------
(* What a step that calls no function, finishes none and tells no dependent  *)
(* leaves alone: most steps of a thread.                                     *)

(* The thread stays where it is as far as the work on nodes goes. *)
WorksOn(t) ==
    /\ Reporting(t)' <=> Reporting(t)
    /\ pc'[t] = "running" <=> pc[t] = "running"
    /\ Reporting(t) \/ pc[t] = "running" => node'[t] = node[t]
    /\ pc'[t] = "count" => pc[t] = "count"
    /\ pc'[t] = "make_runnable" => pc[t] = "make_runnable" /\ ready'[t] = ready[t]
    /\ pc'[t] \in EnqueuePlaces => pc[t] \in EnqueuePlaces /\ ready'[t] = ready[t]

LEMMA WorkUntouched ==
    ASSUME IInv, \A t \in Threads : WorksOn(t),
           UNCHANGED <<graphVars, deps_seen, state, completed, todo, runs>>,
           mode' = "returned" => mode = "returned"
    PROVE  GraphShape' /\ WorkOwned' /\ DepsTold' /\ CountedOnce' /\ ReturnsComplete'
<1> USE DEF IInv, graphVars, WorksOn
<1>1. GraphShape' BY DEF GraphShape
<1>2. WorkOwned' BY DEF WorkOwned
<1>3. DepsTold' BY DEF DepsTold
<1>4. Counted' = Counted BY DEF Counted
<1>5. CountedOnce' BY <1>4 DEF CountedOnce
<1>6. ReturnsComplete' BY DEF ReturnsComplete
<1> QED BY <1>1, <1>2, <1>3, <1>5, <1>6

(* No thread enters or leaves worker_loop. *)
LEMMA ActiveUntouched ==
    ASSUME ActiveCounted, active' = active, mode' = "parallel" => mode = "parallel",
           \A t \in Threads : Alive(t)' <=> Alive(t)
    PROVE  ActiveCounted'
<1>1. {t \in Threads : Alive(t)}' = {t \in Threads : Alive(t)} OBVIOUS
<1> QED BY <1>1 DEF ActiveCounted

(* Nobody takes or gives up a node, and no ticket is taken. *)
LEMMA TokensUntouched ==
    ASSUME TypeOK, TokensKept, UNCHANGED <<count, mode, enqueue_pos, dequeue_pos>>,
           \A n \in Nodes : state'[n] = "Runnable" <=> state[n] = "Runnable",
           \A t \in Threads : \A n \in Nodes \cup {Empty} : Holds(t, n)' <=> Holds(t, n),
           \A p \in dequeue_pos..(enqueue_pos - 1) : \A n \in Nodes \cup {Empty} :
               Offers(p, n)' <=> Offers(p, n)
    PROVE  TokensKept'
<1>1. Empty' = Empty /\ Nodes' = Nodes BY DEF Empty, Nodes
<1>2. \A n \in Nodes \cup {Empty} : n < count => n \in Nodes
  BY DagAssumption DEF Nodes, Empty, TypeOK
<1> QED BY <1>1, <1>2 DEF TokensKept

(* The steps of try_dequeue that write nothing shared, and those at the end  *)
(* of worker_loop.                                                           *)
LEMMA LoadPosKeepsIInv == \A t \in Threads : IInv /\ LoadPos(t) => IInv'
<1> SUFFICES ASSUME NEW t \in Threads, IInv, LoadPos(t) PROVE IInv' OBVIOUS
<1> USE DagAssumption DEF IInv, LoadPos, Go, graphVars, ringVars, localVars
<1>0. mode = "parallel"
  BY DEF TypeOK, ThreadsConsistent, Threads, EnqueuePlaces, ReportPlaces
<1>1. TypeOK' BY DEF TypeOK, Places
<1>2. \A u \in Threads : WorksOn(u)
  BY DEF WorksOn, Reporting, ReportPlaces, EnqueuePlaces, TypeOK
<1>3. GraphShape' /\ WorkOwned' /\ DepsTold' /\ CountedOnce' /\ ReturnsComplete'
  BY <1>2, WorkUntouched
<1>4. ThreadsConsistent' BY <1>0 DEF ThreadsConsistent, Threads, TypeOK, AllCompleted
<1>5. Ticketed' = Ticketed BY DEF Ticketed, TypeOK
<1>6. RingTickets'
  BY <1>5, TicketsFit DEF TypeOK, RingTickets, WritePlaces, EnqueuePlaces
<1>7. TokensKept'
  BY TokensUntouched DEF TypeOK, Holds, Offers, EnqueuePlaces, Slot
<1>8. SweepSound' BY <1>0 DEF SweepSound
<1>9. ActiveCounted' BY ActiveUntouched DEF Alive, TypeOK
<1> QED BY <1>1, <1>3, <1>4, <1>6, <1>7, <1>8, <1>9

LEMMA CheckSeqKeepsIInv == \A t \in Threads : IInv /\ CheckSeq(t) => IInv'
<1> SUFFICES ASSUME NEW t \in Threads, IInv, CheckSeq(t) PROVE IInv' OBVIOUS
<1> USE DagAssumption DEF IInv, CheckSeq, Go, graphVars, ringVars, localVars
<1>0. mode = "parallel"
  BY DEF TypeOK, ThreadsConsistent, Threads, EnqueuePlaces, ReportPlaces
<1>1. TypeOK' BY DEF TypeOK, Places
<1>2. \A u \in Threads : WorksOn(u)
  BY DEF WorksOn, Reporting, ReportPlaces, EnqueuePlaces, TypeOK
<1>3. GraphShape' /\ WorkOwned' /\ DepsTold' /\ CountedOnce' /\ ReturnsComplete'
  BY <1>2, WorkUntouched
<1>4. ThreadsConsistent' BY <1>0 DEF ThreadsConsistent, Threads, TypeOK, AllCompleted
<1>5. Ticketed' = Ticketed BY DEF Ticketed, TypeOK
<1>6. RingTickets'
  <2>1. pos[t] \in Nat /\ pos[t] <= dequeue_pos /\ pos[t] <= RingSlots
    BY TicketsFit DEF TypeOK, RingTickets
  <2>2. ASSUME ring_seq[Slot(pos[t])] = pos[t] + 1
        PROVE  pos[t] < enqueue_pos /\ ring_seq[pos[t]] # pos[t]
    <3>1. pos[t] # RingSlots
      BY <2>2, SlotOfTicket DEF RingTickets, Slots
    <3>2. pos[t] \in Slots /\ Slot(pos[t]) = pos[t] BY <2>1, <3>1, SlotOfTicket
    <3> QED BY <2>1, <2>2, <3>2, TicketsFit DEF RingTickets, TypeOK
  <2> QED
    BY <1>5, <2>2 DEF TypeOK, RingTickets, WritePlaces, EnqueuePlaces
<1>7. TokensKept'
  BY TokensUntouched DEF TypeOK, Holds, Offers, EnqueuePlaces, Slot
<1>8. SweepSound' BY <1>0 DEF SweepSound
<1>9. ActiveCounted' BY ActiveUntouched DEF Alive, TypeOK
<1> QED BY <1>1, <1>3, <1>4, <1>6, <1>7, <1>8, <1>9

LEMMA LosePosKeepsIInv == \A t \in Threads : IInv /\ LosePos(t) => IInv'
<1> SUFFICES ASSUME NEW t \in Threads, IInv, LosePos(t) PROVE IInv' OBVIOUS
<1> USE DagAssumption DEF IInv, LosePos, Go, graphVars, ringVars, localVars
<1>0. mode = "parallel"
  BY DEF TypeOK, ThreadsConsistent, Threads, EnqueuePlaces, ReportPlaces
<1>1. TypeOK' BY DEF TypeOK, Places
<1>2. \A u \in Threads : WorksOn(u)
  BY DEF WorksOn, Reporting, ReportPlaces, EnqueuePlaces, TypeOK
<1>3. GraphShape' /\ WorkOwned' /\ DepsTold' /\ CountedOnce' /\ ReturnsComplete'
  BY <1>2, WorkUntouched
<1>4. ThreadsConsistent' BY <1>0 DEF ThreadsConsistent, Threads, TypeOK, AllCompleted
<1>5. Ticketed' = Ticketed BY DEF Ticketed, TypeOK
<1>6. RingTickets'
  BY <1>5, TicketsFit DEF TypeOK, RingTickets, WritePlaces, EnqueuePlaces
<1>7. TokensKept'
  BY TokensUntouched DEF TypeOK, Holds, Offers, EnqueuePlaces, Slot
<1>8. SweepSound' BY <1>0 DEF SweepSound
<1>9. ActiveCounted' BY ActiveUntouched DEF Alive, TypeOK
<1> QED BY <1>1, <1>3, <1>4, <1>6, <1>7, <1>8, <1>9

LEMMA TakePosKeepsIInv == \A t \in Threads : IInv /\ TakePos(t) => IInv'
<1> SUFFICES ASSUME NEW t \in Threads, IInv, TakePos(t) PROVE IInv' OBVIOUS
<1> USE DagAssumption DEF IInv, TakePos, Go, graphVars, ringVars, localVars
<1>0. mode = "parallel"
  BY DEF TypeOK, ThreadsConsistent, Threads, EnqueuePlaces, ReportPlaces
<1>1. TypeOK' BY DEF TypeOK, Places
<1>2. \A u \in Threads : WorksOn(u)
  BY DEF WorksOn, Reporting, ReportPlaces, EnqueuePlaces, TypeOK
<1>3. GraphShape' /\ WorkOwned' /\ DepsTold' /\ CountedOnce' /\ ReturnsComplete'
  BY <1>2, WorkUntouched
<1>4. ThreadsConsistent' BY <1>0 DEF ThreadsConsistent, Threads, TypeOK, AllCompleted
<1>5a. /\ dequeue_pos = pos[t] /\ dequeue_pos < enqueue_pos /\ dequeue_pos \in Slots
        /\ Slot(dequeue_pos) = dequeue_pos /\ ring_seq[dequeue_pos] = dequeue_pos + 1
  BY TicketsFit DEF TypeOK, RingTickets, TakesPos
<1>5. Ticketed' = Ticketed BY DEF Ticketed, TypeOK
<1>6. RingTickets'
  <2>1. \A u \in Threads : pc[u] \in WritePlaces => pos[u] # dequeue_pos
    BY <1>5a DEF RingTickets, TypeOK
  <2>2. dequeue_pos' = dequeue_pos + 1 /\ dequeue_pos \in Nat /\ enqueue_pos \in Nat
    BY <1>5a, TicketsFit
  <2>3. \A u \in Threads : pc'[u] \in WritePlaces =>
           pc[u] \in WritePlaces /\ pos[u] \in Nat /\ dequeue_pos' <= pos[u]
    BY SMTT(40), <2>1, <2>2 DEF TypeOK, RingTickets, WritePlaces, EnqueuePlaces
  <2>4. \A u \in Threads : /\ pc'[u] \in {"check_seq", "cas_pos"} => pos[u] <= dequeue_pos'
                           /\ pc'[u] \in {"read_token", "free_slot"} => pos[u] < dequeue_pos'
    BY <1>5a, <2>2 DEF TypeOK, RingTickets
  <2>5. dequeue_pos' <= enqueue_pos /\ \A r \in Slots : r >= dequeue_pos' => r >= dequeue_pos
    BY <1>5a, <2>2 DEF Slots
  <2> QED BY <1>5, <2>3, <2>4, <2>5 DEF TypeOK, RingTickets, WritePlaces, EnqueuePlaces
<1>7. TokensKept'
  <2>1. \A n \in Nodes \cup {Empty} :
           (Holds(t, n)' <=> Offers(dequeue_pos, n)) /\ ~ Holds(t, n)
    BY <1>5a DEF Holds, Offers, EnqueuePlaces, TypeOK
  <2>2. \A u \in Threads \ {t} : \A n \in Nodes \cup {Empty} : Holds(u, n)' <=> Holds(u, n)
    BY DEF Holds, EnqueuePlaces, TypeOK
  <2>3. \A p, n : Offers(p, n)' <=> Offers(p, n) BY DEF Offers
  <2>4. /\ dequeue_pos' = dequeue_pos + 1 /\ dequeue_pos \in dequeue_pos..(enqueue_pos - 1)
        /\ \A p \in (dequeue_pos + 1)..(enqueue_pos - 1) :
              p \in dequeue_pos..(enqueue_pos - 1) /\ p # dequeue_pos
        /\ \A p \in dequeue_pos..(enqueue_pos - 1) :
              p = dequeue_pos \/ p \in (dequeue_pos + 1)..(enqueue_pos - 1)
    BY <1>5a, TicketsFit
  <2>5. Nodes' = Nodes /\ Empty' = Empty BY DEF Nodes, Empty
  <2> HIDE DEF TakePos
  <2>6. UNCHANGED <<count, state, mode, enqueue_pos>> BY DEF TakePos
  <2> QED BY <2>1, <2>2, <2>3, <2>4, <2>5, <2>6 DEF TokensKept
<1>8. SweepSound' BY <1>0 DEF SweepSound
<1>9. ActiveCounted' BY ActiveUntouched DEF Alive, TypeOK
<1> QED BY <1>1, <1>3, <1>4, <1>6, <1>7, <1>8, <1>9

LEMMA ReadTokenKeepsIInv == \A t \in Threads : IInv /\ ReadToken(t) => IInv'
<1> SUFFICES ASSUME NEW t \in Threads, IInv, ReadToken(t) PROVE IInv' OBVIOUS
<1> USE DagAssumption DEF IInv, ReadToken, Go, graphVars, ringVars, localVars
<1>0. mode = "parallel"
  BY DEF TypeOK, ThreadsConsistent, Threads, EnqueuePlaces, ReportPlaces
<1>1. TypeOK'
  <2>1. Slot(pos[t]) \in Slots BY TicketsFit DEF RingTickets, TypeOK
  <2> QED BY <2>1 DEF TypeOK, Places
<1>2. \A u \in Threads : WorksOn(u)
  BY DEF WorksOn, Reporting, ReportPlaces, EnqueuePlaces, TypeOK
<1>3. GraphShape' /\ WorkOwned' /\ DepsTold' /\ CountedOnce' /\ ReturnsComplete'
  BY <1>2, WorkUntouched
<1>4. ThreadsConsistent' BY <1>0 DEF ThreadsConsistent, Threads, TypeOK, AllCompleted
<1>5. Ticketed' = Ticketed BY DEF Ticketed, TypeOK
<1>6. RingTickets'
  BY <1>5, TicketsFit DEF TypeOK, RingTickets, WritePlaces, EnqueuePlaces
<1>7. TokensKept'
  BY TokensUntouched DEF TypeOK, Holds, Offers, EnqueuePlaces, Slot
<1>8. SweepSound' BY <1>0 DEF SweepSound
<1>9. ActiveCounted' BY ActiveUntouched DEF Alive, TypeOK
<1> QED BY <1>1, <1>3, <1>4, <1>6, <1>7, <1>8, <1>9

LEMMA FreeSlotKeepsIInv == \A t \in Threads : IInv /\ FreeSlot(t) => IInv'
<1> SUFFICES ASSUME NEW t \in Threads, IInv, FreeSlot(t) PROVE IInv' OBVIOUS
<1> USE DagAssumption DEF IInv, FreeSlot, Go, graphVars, ringVars, localVars
<1>0. mode = "parallel"
  BY DEF TypeOK, ThreadsConsistent, Threads, EnqueuePlaces, ReportPlaces
<1>1a. /\ pos[t] \in Slots /\ Slot(pos[t]) = pos[t] /\ pos[t] < dequeue_pos
        /\ node[t] < count
  <2>1. pos[t] \in Nat /\ pos[t] < dequeue_pos BY DEF RingTickets, TypeOK
  <2>2. Holds(t, node[t]) /\ node[t] \in Nodes \cup {Empty} BY DEF Holds, TypeOK
  <2>3. node[t] < count BY <1>0, <2>2 DEF TokensKept
  <2> QED BY <2>1, <2>3, TicketsFit
<1>1. TypeOK' BY <1>1a DEF TypeOK, Places
<1>2. \A u \in Threads : WorksOn(u)
  BY DEF WorksOn, Reporting, ReportPlaces, EnqueuePlaces, TypeOK
<1>3. GraphShape' /\ WorkOwned' /\ DepsTold' /\ CountedOnce' /\ ReturnsComplete'
  BY <1>2, WorkUntouched
<1>4. ThreadsConsistent' BY <1>0 DEF ThreadsConsistent, Threads, TypeOK, AllCompleted
<1>5. Ticketed' = Ticketed BY DEF Ticketed, TypeOK
<1>6. RingTickets'
  BY <1>1a, <1>5, TicketsFit DEF TypeOK, RingTickets, WritePlaces, EnqueuePlaces
<1>7. TokensKept'
  <2>1. \A u \in Threads : \A n \in Nodes \cup {Empty} : Holds(u, n)' <=> Holds(u, n)
    BY <1>1a DEF TypeOK, Holds, EnqueuePlaces
  <2>2. \A p \in dequeue_pos..(enqueue_pos - 1) : \A n \in Nodes \cup {Empty} :
           Offers(p, n)' <=> Offers(p, n)
    <3>1. \A p \in dequeue_pos..(enqueue_pos - 1) : Slot(p) = p /\ p # pos[t]
      BY <1>1a, TicketsFit
    <3> QED BY <1>1a, <3>1 DEF Offers, TypeOK
  <2> QED BY <2>1, <2>2, TokensUntouched
<1>8. SweepSound' BY <1>0 DEF SweepSound
<1>9. ActiveCounted' BY ActiveUntouched DEF Alive, TypeOK
<1> QED BY <1>1, <1>3, <1>4, <1>6, <1>7, <1>8, <1>9

LEMMA CheckDoneKeepsIInv == \A t \in Threads : IInv /\ CheckDone(t) => IInv'
<1> SUFFICES ASSUME NEW t \in Threads, IInv, CheckDone(t) PROVE IInv' OBVIOUS
<1> USE DagAssumption DEF IInv, CheckDone, Go, graphVars, ringVars, localVars
<1>0. mode = "parallel"
  BY DEF TypeOK, ThreadsConsistent, Threads, EnqueuePlaces, ReportPlaces
<1>1. TypeOK' BY DEF TypeOK, Places
<1>2. \A u \in Threads : WorksOn(u)
  BY DEF WorksOn, Reporting, ReportPlaces, EnqueuePlaces, TypeOK
<1>3. GraphShape' /\ WorkOwned' /\ DepsTold' /\ CountedOnce' /\ ReturnsComplete'
  BY <1>2, WorkUntouched
<1>4. ThreadsConsistent' BY <1>0 DEF ThreadsConsistent, Threads, TypeOK, AllCompleted
<1>5. Ticketed' = Ticketed BY DEF Ticketed, TypeOK
<1>6. RingTickets'
  BY <1>5, TicketsFit DEF TypeOK, RingTickets, WritePlaces, EnqueuePlaces
<1>7. TokensKept'
  BY TokensUntouched DEF TypeOK, Holds, Offers, EnqueuePlaces, Slot
<1>8. SweepSound' BY <1>0 DEF SweepSound
<1>9. ActiveCounted' BY ActiveUntouched DEF Alive, TypeOK
<1> QED BY <1>1, <1>3, <1>4, <1>6, <1>7, <1>8, <1>9

LEMMA LeaveKeepsIInv == \A t \in Threads : IInv /\ Leave(t) => IInv'
<1> SUFFICES ASSUME NEW t \in Threads, IInv, Leave(t) PROVE IInv' OBVIOUS
<1> USE DagAssumption DEF IInv, Leave, Go, graphVars, ringVars, localVars
<1>0. mode = "parallel"
  BY DEF TypeOK, ThreadsConsistent, Threads, EnqueuePlaces, ReportPlaces
<1>1a. active' = Cardinality({u \in Threads : Alive(u)}') /\ active' \in Nat
  <2> DEFINE A == {u \in Threads : Alive(u)}
  <2>1. A' = A \ {t} BY DEF Alive, TypeOK
  <2>2. IsFiniteSet(A) /\ t \in A
    <3>1. A \subseteq Threads OBVIOUS
    <3> QED BY <3>1, ThreadsFinite DEF Alive
  <2>3. active = Cardinality(A) BY <1>0 DEF ActiveCounted
  <2>4. active' = active - 1 OBVIOUS
  <2> HIDE DEF A
  <2>5. Cardinality(A) \in Nat /\ Cardinality(A) # 0
    BY <2>2, FS_EmptySet, FS_CardinalityType
  <2>6. Cardinality(A \ {t}) = Cardinality(A) - 1 BY <2>2, FS_RemoveElement
  <2>7. active' = Cardinality(A') /\ active' \in Nat BY <2>1, <2>3, <2>4, <2>5, <2>6
  <2> QED BY ONLY <2>7 DEF A
<1>1. TypeOK' BY <1>1a DEF TypeOK, Places
<1>2. \A u \in Threads : WorksOn(u)
  BY DEF WorksOn, Reporting, ReportPlaces, EnqueuePlaces, TypeOK
<1>3. GraphShape' /\ WorkOwned' /\ DepsTold' /\ CountedOnce' /\ ReturnsComplete'
  BY <1>2, WorkUntouched
<1>4. ThreadsConsistent' BY <1>0 DEF ThreadsConsistent, Threads, TypeOK, AllCompleted
<1>5. Ticketed' = Ticketed BY DEF Ticketed, TypeOK
<1>6. RingTickets'
  BY <1>5, TicketsFit DEF TypeOK, RingTickets, WritePlaces, EnqueuePlaces
<1>7. TokensKept'
  BY TokensUntouched DEF TypeOK, Holds, Offers, EnqueuePlaces, Slot
<1>8. SweepSound' BY <1>0 DEF SweepSound
<1>9. ActiveCounted' BY <1>1a DEF ActiveCounted
<1> QED BY <1>1, <1>3, <1>4, <1>6, <1>7, <1>8, <1>9

LEMMA TakeTicketKeepsIInv == \A t \in Threads : IInv /\ TakeTicket(t) => IInv'
<1> SUFFICES ASSUME NEW t \in Threads, IInv, TakeTicket(t) PROVE IInv' OBVIOUS
<1> USE DagAssumption DEF IInv, TakeTicket, Go, graphVars, ringVars, localVars
<1>0. mode \in {"seeding", "serial", "parallel"} /\ (mode # "parallel" => t = Main)
  BY DEF TypeOK, ThreadsConsistent, Threads, EnqueuePlaces, ReportPlaces
<1>1. TypeOK' BY DEF TypeOK, Places
<1>2. \A u \in Threads : WorksOn(u)
  BY DEF WorksOn, Reporting, ReportPlaces, EnqueuePlaces, TypeOK
<1>3. GraphShape' /\ WorkOwned' /\ DepsTold' /\ CountedOnce' /\ ReturnsComplete'
  BY <1>2, WorkUntouched
<1>4. ThreadsConsistent'
  BY <1>0 DEF ThreadsConsistent, Threads, TypeOK, EnqueuePlaces, ReportPlaces
<1>5a. /\ ready[t] \in Nodes /\ state[ready[t]] # "Pending"
        /\ \A u \in Threads : pc[u] = "enqueue" /\ ready[u] = ready[t] => u = t
  <2>1. ready[t] \in Nodes /\ state[ready[t]] # "Pending"
    BY DEF DepsTold, EnqueuePlaces, TypeOK, Nodes
  <2>2. ASSUME NEW u \in Threads, pc[u] = "enqueue", ready[u] = ready[t] PROVE u = t
    <3>1. CASE mode = "parallel"
      BY <2>1, <2>2, <3>1 DEF TokensKept, Holds, EnqueuePlaces
    <3>2. CASE mode # "parallel"
      BY <1>0, <2>2, <3>2 DEF ThreadsConsistent, Threads
    <3> QED BY <3>1, <3>2
  <2> QED BY <2>1, <2>2
<1>5. /\ enqueue_pos' <= Cardinality(Ticketed') /\ enqueue_pos' = enqueue_pos + 1
      /\ enqueue_pos \in Slots
  <2>1. Ticketed' = Ticketed \cup {ready[t]} /\ ready[t] \notin Ticketed
    BY <1>5a DEF Ticketed, TypeOK
  <2>2. Ticketed \subseteq Nodes /\ Ticketed' \subseteq Nodes BY <1>5a, <2>1 DEF Ticketed
  <2>3. Cardinality(Ticketed') = Cardinality(Ticketed) + 1
    BY <2>1, <2>2, NodeSets, FS_AddElement
  <2>4. Cardinality(Ticketed) \in Nat /\ Cardinality(Ticketed') <= MaxNodes
    BY <2>2, NodeSets
  <2> QED BY <2>3, <2>4 DEF RingTickets, TypeOK, Slots
<1>6. RingTickets'
  BY <1>5, TicketsFit DEF TypeOK, RingTickets, WritePlaces, EnqueuePlaces
<1>7. TokensKept'
  <2>1. \A u \in Threads : \A n \in Nodes \cup {Empty} : Holds(u, n)' <=> Holds(u, n)
    BY DEF TypeOK, Holds, EnqueuePlaces
  <2>2. \A n : ~ Offers(enqueue_pos, n)
    BY <1>5, SlotOfTicket DEF Offers, RingTickets, Slots, TypeOK
  <2>3. \A p, n : Offers(p, n)' <=> Offers(p, n) BY DEF Offers
  <2>4. \A p \in dequeue_pos..(enqueue_pos' - 1) :
           p = enqueue_pos \/ p \in dequeue_pos..(enqueue_pos - 1)
    BY <1>5, TicketsFit
  <2>5. \A p \in dequeue_pos..(enqueue_pos - 1) : p \in dequeue_pos..(enqueue_pos' - 1)
    BY <1>5, TicketsFit
  <2>6. Nodes' = Nodes /\ Empty' = Empty BY DEF Nodes, Empty
  <2>7. UNCHANGED <<count, state, mode, dequeue_pos>> OBVIOUS
  <2> HIDE DEF TakeTicket
  <2> QED BY <2>1, <2>2, <2>3, <2>4, <2>5, <2>6, <2>7 DEF TokensKept
<1>8. SweepSound' BY <1>0 DEF SweepSound, TypeOK, Threads
<1>9. ActiveCounted' BY ActiveUntouched DEF Alive, TypeOK
<1> QED BY <1>1, <1>3, <1>4, <1>6, <1>7, <1>8, <1>9

LEMMA AwaitSlotKeepsIInv == \A t \in Threads : IInv /\ AwaitSlot(t) => IInv'
<1> SUFFICES ASSUME NEW t \in Threads, IInv, AwaitSlot(t) PROVE IInv' OBVIOUS
<1> USE DagAssumption DEF IInv, AwaitSlot, Go, graphVars, ringVars, localVars
<1>0. mode \in {"seeding", "serial", "parallel"} /\ (mode # "parallel" => t = Main)
  BY DEF TypeOK, ThreadsConsistent, Threads, EnqueuePlaces, ReportPlaces
<1>1. TypeOK' BY DEF TypeOK, Places
<1>2. \A u \in Threads : WorksOn(u)
  BY DEF WorksOn, Reporting, ReportPlaces, EnqueuePlaces, TypeOK
<1>3. GraphShape' /\ WorkOwned' /\ DepsTold' /\ CountedOnce' /\ ReturnsComplete'
  BY <1>2, WorkUntouched
<1>4. ThreadsConsistent'
  BY <1>0 DEF ThreadsConsistent, Threads, TypeOK, EnqueuePlaces, ReportPlaces
<1>5. Ticketed' = Ticketed BY DEF Ticketed, TypeOK
<1>6. RingTickets'
  BY <1>5, TicketsFit DEF TypeOK, RingTickets, WritePlaces, EnqueuePlaces
<1>7. TokensKept'
  BY TokensUntouched DEF TypeOK, Holds, Offers, EnqueuePlaces, Slot
<1>8. SweepSound' BY <1>0 DEF SweepSound, TypeOK, Threads
<1>9. ActiveCounted' BY ActiveUntouched DEF Alive, TypeOK
<1> QED BY <1>1, <1>3, <1>4, <1>6, <1>7, <1>8, <1>9

LEMMA PutTokenKeepsIInv == \A t \in Threads : IInv /\ PutToken(t) => IInv'
<1> SUFFICES ASSUME NEW t \in Threads, IInv, PutToken(t) PROVE IInv' OBVIOUS
<1> USE DagAssumption DEF IInv, PutToken, Go, graphVars, ringVars, localVars
<1>0. mode \in {"seeding", "serial", "parallel"} /\ (mode # "parallel" => t = Main)
  BY DEF TypeOK, ThreadsConsistent, Threads, EnqueuePlaces, ReportPlaces
<1>1a. /\ pos[t] \in Slots /\ Slot(pos[t]) = pos[t] /\ ring_seq[pos[t]] = pos[t]
        /\ dequeue_pos <= pos[t] /\ pos[t] < enqueue_pos
  BY TicketsFit DEF RingTickets, TypeOK, WritePlaces, EnqueuePlaces
<1>1b. ready[t] \in Nodes BY DEF DepsTold, EnqueuePlaces, TypeOK, Nodes
<1>1. TypeOK' BY <1>1a, <1>1b DEF TypeOK, Places, Slots
<1>2. \A u \in Threads : WorksOn(u)
  BY DEF WorksOn, Reporting, ReportPlaces, EnqueuePlaces, TypeOK
<1>3. GraphShape' /\ WorkOwned' /\ DepsTold' /\ CountedOnce' /\ ReturnsComplete'
  BY <1>2, WorkUntouched
<1>4. ThreadsConsistent'
  BY <1>0 DEF ThreadsConsistent, Threads, TypeOK, EnqueuePlaces, ReportPlaces
<1>5. Ticketed' = Ticketed BY DEF Ticketed, TypeOK
<1>6. RingTickets'
  BY <1>1a, <1>5, TicketsFit DEF TypeOK, RingTickets, WritePlaces, EnqueuePlaces
<1>7. TokensKept'
  <2>1. \A u \in Threads : pc[u] = "read_token" => Slot(pos[u]) = pos[u] /\ pos[u] # pos[t]
    BY <1>1a, TicketsFit DEF RingTickets, TypeOK
  <2>2. \A u \in Threads : \A n \in Nodes \cup {Empty} : Holds(u, n)' <=> Holds(u, n)
    BY <1>1a, <2>1 DEF TypeOK, Holds, EnqueuePlaces
  <2>3. \A p \in dequeue_pos..(enqueue_pos - 1) : \A n \in Nodes \cup {Empty} :
           Offers(p, n)' <=> Offers(p, n)
    <3>1. \A p \in dequeue_pos..(enqueue_pos - 1) : Slot(p) = p BY TicketsFit
    <3> QED BY <1>1a, <3>1 DEF Offers, TypeOK
  <2> QED BY <2>2, <2>3, TokensUntouched
<1>8. SweepSound' BY <1>0 DEF SweepSound, TypeOK, Threads
<1>9. ActiveCounted' BY ActiveUntouched DEF Alive, TypeOK
<1> QED BY <1>1, <1>3, <1>4, <1>6, <1>7, <1>8, <1>9

LEMMA PublishKeepsIInv == \A t \in Threads : IInv /\ Publish(t) => IInv'
<1> SUFFICES ASSUME NEW t \in Threads, IInv, Publish(t) PROVE IInv' OBVIOUS
<1> USE DagAssumption DEF IInv, Publish, Go, graphVars, ringVars, localVars
<1>0. mode \in {"seeding", "serial", "parallel"} /\ (mode # "parallel" => t = Main)
  BY DEF TypeOK, ThreadsConsistent, Threads, EnqueuePlaces, ReportPlaces
<1>1a. /\ pos[t] \in Slots /\ Slot(pos[t]) = pos[t] /\ ring_seq[pos[t]] = pos[t]
        /\ dequeue_pos <= pos[t] /\ pos[t] < enqueue_pos
  BY TicketsFit DEF RingTickets, TypeOK, WritePlaces, EnqueuePlaces
<1>1. TypeOK' BY SMTT(40), <1>1a DEF TypeOK, Places, Slots
<1>2. \A u \in Threads : WorksOn(u)
  BY DEF WorksOn, Reporting, ReportPlaces, EnqueuePlaces, TypeOK
<1>3. GraphShape' /\ WorkOwned' /\ DepsTold' /\ CountedOnce' /\ ReturnsComplete'
  BY <1>2, WorkUntouched
<1>4. ThreadsConsistent'
  BY <1>0 DEF ThreadsConsistent, Threads, TypeOK, EnqueuePlaces, ReportPlaces
<1>5. Ticketed' = Ticketed BY DEF Ticketed, TypeOK
<1>6. RingTickets'
  BY <1>1a, <1>5, TicketsFit DEF TypeOK, RingTickets, WritePlaces, EnqueuePlaces
<1>7. TokensKept'
  <2> SUFFICES ASSUME mode \in {"seeding", "parallel"} PROVE TokensKept' BY DEF TokensKept
  <2>1. \A u \in Threads \ {t} : \A n \in Nodes \cup {Empty} : Holds(u, n)' <=> Holds(u, n)
    BY DEF TypeOK, Holds, EnqueuePlaces
  <2>2. \A n \in Nodes \cup {Empty} : ~ Holds(t, n)' /\ (Holds(t, n) <=> n = ready[t])
    BY DEF TypeOK, Holds, EnqueuePlaces
  <2>3. pos[t] \in dequeue_pos..(enqueue_pos - 1) BY <1>1a, TicketsFit DEF Slots
  <2>4. \A n \in Nodes \cup {Empty} :
           ~ Offers(pos[t], n) /\ (Offers(pos[t], n)' <=> n = ready[t])
    BY <1>1a DEF RingTickets, WritePlaces, EnqueuePlaces, TypeOK, Offers, Slots
  <2>5. \A p \in dequeue_pos..(enqueue_pos - 1) : p # pos[t] =>
           \A n \in Nodes \cup {Empty} : Offers(p, n)' <=> Offers(p, n)
    <3>1. \A p \in dequeue_pos..(enqueue_pos - 1) : Slot(p) = p BY TicketsFit
    <3> QED BY <1>1a, <3>1 DEF Offers, TypeOK
  <2>6. Nodes' = Nodes /\ Empty' = Empty BY DEF Nodes, Empty
  <2>7. UNCHANGED <<count, state, mode, dequeue_pos, enqueue_pos, ready, pos>> OBVIOUS
  <2>8. ready[t] \in Nodes BY DEF DepsTold, EnqueuePlaces, TypeOK, Nodes
  <2> HIDE DEF Publish
  <2> USE <2>6, <2>7 DEF TokensKept
  <2>9. \A u \in Threads : \A n \in Nodes \cup {Empty} : Holds(u, n)' => Holds(u, n) /\ u # t
    BY <2>1, <2>2
  <2>10. \A p \in dequeue_pos..(enqueue_pos - 1) : \A n \in Nodes \cup {Empty} :
            Offers(p, n)' => (Offers(p, n) /\ p # pos[t]) \/ (Holds(t, n) /\ p = pos[t])
    BY <2>2, <2>4, <2>5
  <2>11. \A n \in Nodes : state[n] = "Runnable" =>
            \/ \E u \in Threads : Holds(u, n)'
            \/ \E p \in dequeue_pos..(enqueue_pos - 1) : Offers(p, n)'
    BY <2>1, <2>2, <2>3, <2>4, <2>5
  <2> QED BY <2>9, <2>10, <2>11
<1>8. SweepSound' BY <1>0 DEF SweepSound, TypeOK, Threads
<1>9. ActiveCounted' BY ActiveUntouched DEF Alive, TypeOK
<1> QED BY <1>1, <1>3, <1>4, <1>6, <1>7, <1>8, <1>9

-----------------------------------------------------------------------------
(* The steps of process_node.                                                *)

LEMMA FnReturnsKeepsIInv == \A t \in Threads : IInv /\ FnReturns(t) => IInv'
<1> SUFFICES ASSUME NEW t \in Threads, IInv, FnReturns(t) PROVE IInv' OBVIOUS
<1> USE DagAssumption DEF IInv, FnReturns, Go, graphVars, ringVars, localVars
<1>0. mode \in {"serial", "parallel"} /\ (mode # "parallel" => t = Main)
  BY DEF TypeOK, ThreadsConsistent, Threads, EnqueuePlaces, ReportPlaces
<1>a. node[t] \in Nodes /\ node[t] < count /\ state[node[t]] = "Running" /\ Nodes' = Nodes
  BY IndexIsNode DEF WorkOwned, TypeOK, Nodes
<1>b. \A u \in Threads : (Reporting(u)' <=> Reporting(u) \/ u = t) /\ ~ Reporting(t)
  BY <1>0 DEF Reporting, TypeOK, EnqueuePlaces, ReportPlaces
<1>c. \A u \in Threads : Reporting(u) \/ (u # t /\ pc[u] = "running") => node[u] # node[t]
  BY <1>a DEF WorkOwned
<1>1. TypeOK' BY <1>a DEF TypeOK, Places
<1>2. GraphShape' BY <1>a DEF GraphShape, TypeOK
<1>3. ThreadsConsistent'
  BY <1>0 DEF ThreadsConsistent, Threads, TypeOK, EnqueuePlaces, ReportPlaces, NextNode
<1>4. WorkOwned'
  <2>1. \A d \in Nodes : consumers[d] \subseteq Nodes BY DEF TypeOK
  <2> QED BY <1>a, <1>b, <1>c, <2>1 DEF WorkOwned, TypeOK, ReportPlaces, EnqueuePlaces
<1>5. DepsTold'
  BY <1>a, <1>b, <1>c DEF DepsTold, GraphShape, TypeOK, EnqueuePlaces
<1>6a. Ticketed' = Ticketed BY <1>a DEF Ticketed, TypeOK
<1>6. RingTickets'
  BY <1>6a, TicketsFit DEF TypeOK, RingTickets, WritePlaces, EnqueuePlaces, NextNode
<1>7. TokensKept'
  BY <1>a, TokensUntouched DEF TypeOK, Holds, Offers, EnqueuePlaces, Slot
<1>8a. Counted' = Counted BY <1>a, <1>b DEF Counted, TypeOK
<1>8. CountedOnce' BY <1>8a DEF CountedOnce
<1>9. ActiveCounted' BY ActiveUntouched DEF Alive, TypeOK, NextNode
<1>10. SweepSound' BY <1>0 DEF SweepSound, TypeOK, Threads, NextNode
<1>11. ReturnsComplete' BY <1>0 DEF ReturnsComplete
<1> QED BY <1>1, <1>2, <1>3, <1>4, <1>5, <1>6, <1>7, <1>8, <1>9, <1>10, <1>11

LEMMA NotifyKeepsIInv == \A t \in Threads : IInv /\ Notify(t) => IInv'
<1> SUFFICES ASSUME NEW t \in Threads, IInv, Notify(t) PROVE IInv' OBVIOUS
<1> USE DagAssumption DEF IInv, Notify, Go, graphVars, ringVars, localVars
<1>0. mode \in {"serial", "parallel"} /\ (mode # "parallel" => t = Main)
  BY DEF TypeOK, ThreadsConsistent, Threads, EnqueuePlaces, ReportPlaces
<1>a. PICK j \in todo[t] :
          /\ todo' = [todo EXCEPT ![t] = @ \ {j}]
          /\ deps_seen' = [deps_seen EXCEPT ![j] = @ \cup {node[t]}]
          /\ ready' = [ready EXCEPT ![t] = j]
          /\ Go(t, IF AllDepsSeen(j, SeenWith(j, node[t]))
                     THEN "make_runnable" ELSE "notify")
  BY DEF Notify
<1>b. /\ j \in Nodes /\ node[t] \in Nodes /\ node[t] \in deps[j] /\ j < count
      /\ state[node[t]] = "Done" /\ Nodes' = Nodes
  <2>1. Reporting(t) BY <1>0 DEF Reporting, ReportPlaces
  <2>2. node[t] \in Nodes BY <2>1, IndexIsNode DEF WorkOwned, TypeOK
  <2>3. j \in Nodes /\ j \in consumers[node[t]] BY <1>a, <2>1 DEF WorkOwned, TypeOK
  <2>4. node[t] \in deps[j] BY <2>2, <2>3 DEF GraphShape
  <2>5. j < count BY <2>3, <2>4 DEF GraphShape, Nodes, TypeOK
  <2> QED BY <2>1, <2>2, <2>3, <2>4, <2>5 DEF WorkOwned, Nodes
<1>c. \A u \in Threads : Reporting(u)' <=> Reporting(u)
  BY <1>0, <1>a DEF Reporting, TypeOK, EnqueuePlaces, ReportPlaces
<1>d. /\ UNCHANGED <<graphVars, state, ringVars, completed, active, mode, sweep, pos, node, runs>>
      /\ pc[t] = "notify" /\ pc' \in [Threads -> Places]
      /\ pc'[t] \in {"make_runnable", "notify"} /\ \A u \in Threads \ {t} : pc'[u] = pc[u]
      /\ pc'[t] = "make_runnable" => deps[j] \subseteq deps_seen'[j]
  BY <1>a, <1>b DEF TypeOK, Places, AllDepsSeen, SeenWith
<1> HIDE DEF Notify, Go
<1>1. TypeOK' BY ZenonT(60), <1>a, <1>b, <1>d DEF TypeOK
<1>2. GraphShape' BY SMTT(40), <1>a, <1>b, <1>d DEF GraphShape, TypeOK, Nodes
<1>3. ThreadsConsistent'
  BY <1>0, <1>d DEF ThreadsConsistent, Threads, EnqueuePlaces, ReportPlaces
<1>4. WorkOwned'
  <2>1. /\ \A u \in Threads : /\ pc'[u] = "running" <=> pc[u] = "running"
                              /\ pc'[u] = "count" <=> pc[u] = "count"
                              /\ todo'[u] \subseteq todo[u]
    BY <1>a, <1>d DEF TypeOK
  <2>2. UNCHANGED <<count, state, node, consumers, runs>> BY <1>d DEF graphVars
  <2> QED BY <1>b, <1>c, <2>1, <2>2 DEF WorkOwned
<1>5. DepsTold'
  BY <1>a, <1>b, <1>c, <1>d DEF DepsTold, TypeOK, EnqueuePlaces
<1>6a. Ticketed' = Ticketed BY <1>a, <1>d DEF Ticketed, TypeOK
<1>6. RingTickets'
  BY ZenonT(60), <1>6a, <1>a, <1>d, TicketsFit DEF TypeOK, RingTickets, WritePlaces, EnqueuePlaces
<1>7. TokensKept'
  BY <1>a, <1>d, TokensUntouched DEF TypeOK, Holds, Offers, EnqueuePlaces, Slot
<1>8a. Counted' = Counted BY <1>c, <1>d DEF Counted
<1>8. CountedOnce' BY <1>8a, <1>d DEF CountedOnce
<1>9. ActiveCounted' BY <1>d, ActiveUntouched DEF Alive
<1>10. SweepSound' BY <1>0, <1>b, <1>d DEF SweepSound, Threads, ThreadsConsistent
<1>11. ReturnsComplete' BY <1>0, <1>d DEF ReturnsComplete
<1> QED BY <1>1, <1>2, <1>3, <1>4, <1>5, <1>6, <1>7, <1>8, <1>9, <1>10, <1>11

LEMMA NotifyEndsKeepsIInv == \A t \in Threads : IInv /\ NotifyEnds(t) => IInv'
<1> SUFFICES ASSUME NEW t \in Threads, IInv, NotifyEnds(t) PROVE IInv' OBVIOUS
<1> USE DagAssumption DEF IInv, NotifyEnds, Go, graphVars, ringVars, localVars
<1>0. mode \in {"serial", "parallel"} /\ (mode # "parallel" => t = Main)
  BY DEF TypeOK, ThreadsConsistent, Threads, EnqueuePlaces, ReportPlaces
<1>1. TypeOK' BY DEF TypeOK, Places
<1>2. GraphShape' BY DEF GraphShape, TypeOK
<1>3. ThreadsConsistent'
  BY <1>0 DEF ThreadsConsistent, Threads, TypeOK, EnqueuePlaces, ReportPlaces, NextNode
<1>4. WorkOwned'
  BY <1>0 DEF WorkOwned, Reporting, TypeOK, EnqueuePlaces, ReportPlaces, NextNode
<1>5. DepsTold'
  BY <1>0 DEF DepsTold, WorkOwned, Reporting, TypeOK, EnqueuePlaces, ReportPlaces, NextNode
<1>6a. Ticketed' = Ticketed BY DEF Ticketed, TypeOK, NextNode
<1>6. RingTickets'
  BY <1>6a, TicketsFit DEF TypeOK, RingTickets, WritePlaces, EnqueuePlaces, NextNode
<1>7. TokensKept'
  BY TokensUntouched DEF TypeOK, Holds, Offers, EnqueuePlaces, Slot, NextNode
<1>8a. Counted' = Counted
  BY DEF Counted, Reporting, TypeOK, EnqueuePlaces, ReportPlaces, WorkOwned
<1>8. CountedOnce' BY <1>8a DEF CountedOnce
<1>9. ActiveCounted' BY ActiveUntouched DEF Alive, TypeOK, NextNode
<1>10. SweepSound' BY <1>0 DEF SweepSound, TypeOK, Threads, NextNode
<1>11. ReturnsComplete' BY <1>0 DEF ReturnsComplete
<1> QED BY <1>1, <1>2, <1>3, <1>4, <1>5, <1>6, <1>7, <1>8, <1>9, <1>10, <1>11

LEMMA CountKeepsIInv == \A t \in Threads : IInv /\ Count(t) => IInv'
<1> SUFFICES ASSUME NEW t \in Threads, IInv, Count(t) PROVE IInv' OBVIOUS
<1> USE DagAssumption DEF IInv, Count, Go, graphVars, ringVars, localVars
<1>0. mode \in {"serial", "parallel"} /\ (mode # "parallel" => t = Main)
  BY DEF TypeOK, ThreadsConsistent, Threads, EnqueuePlaces, ReportPlaces
<1>a. /\ Reporting(t) /\ todo[t] = {} /\ node[t] \in Nodes /\ state[node[t]] = "Done"
      /\ Nodes' = Nodes
  <2>1. Reporting(t) BY <1>0 DEF Reporting, ReportPlaces
  <2> QED BY <2>1, IndexIsNode DEF WorkOwned, TypeOK, Nodes
<1>b. \A u \in Threads : Reporting(u)' <=> Reporting(u) /\ u # t
  BY <1>0 DEF Reporting, TypeOK, EnqueuePlaces, ReportPlaces, NextNode
<1>c. completed' = Cardinality(Counted') /\ Counted' \subseteq 0..(count - 1)
  <2>1. Counted' = Counted \cup {node[t]} /\ node[t] \notin Counted
    BY <1>a, <1>b DEF Counted, WorkOwned
  <2>2. Counted \subseteq Nodes BY DEF Counted
  <2>3. Cardinality(Counted') = Cardinality(Counted) + 1
    BY <2>1, <2>2, NodeSets, FS_AddElement
  <2>4. Counted' \subseteq 0..(count - 1)
    BY <1>a, <2>1 DEF Counted, GraphShape, Nodes, TypeOK
  <2> QED BY <2>3, <2>4 DEF CountedOnce
<1>1. TypeOK' BY <1>0 DEF TypeOK, Places, NextNode
<1>2. GraphShape' BY DEF GraphShape, TypeOK
<1>3. ThreadsConsistent'
  <2>1. completed + 1 <= count
    <3>1. count \in 0..MaxNodes /\ completed' = completed + 1 BY DEF TypeOK
    <3>2. Cardinality(Counted') <= count BY <1>c, <3>1, FirstNodes
    <3> QED BY <1>c, <3>1, <3>2
  <2>2. completed # count BY <2>1 DEF TypeOK
  <2> QED BY <1>0, <2>2 DEF ThreadsConsistent, Threads, TypeOK, EnqueuePlaces, ReportPlaces, NextNode
<1>4. WorkOwned' BY <1>0, <1>b DEF WorkOwned, TypeOK, NextNode
<1>5. DepsTold'
  BY <1>0, <1>a, <1>b DEF DepsTold, TypeOK, EnqueuePlaces, NextNode
<1>6a. Ticketed' = Ticketed BY DEF Ticketed, TypeOK, NextNode
<1>6. RingTickets'
  BY <1>6a, TicketsFit DEF TypeOK, RingTickets, WritePlaces, EnqueuePlaces, NextNode
<1>7. TokensKept'
  BY TokensUntouched DEF TypeOK, Holds, Offers, EnqueuePlaces, Slot, NextNode
<1>8. CountedOnce' BY <1>c DEF CountedOnce
<1>9. ActiveCounted' BY ActiveUntouched DEF Alive, TypeOK, NextNode
<1>10. SweepSound' BY <1>0 DEF SweepSound, TypeOK, Threads, NextNode
<1>11. ReturnsComplete' BY <1>0 DEF ReturnsComplete
<1> QED BY <1>1, <1>2, <1>3, <1>4, <1>5, <1>6, <1>7, <1>8, <1>9, <1>10, <1>11

LEMMA MakeRunnableKeepsIInv == \A t \in Threads : IInv /\ MakeRunnable(t) => IInv'
<1> SUFFICES ASSUME NEW t \in Threads, IInv, MakeRunnable(t) PROVE IInv' OBVIOUS
<1> USE DagAssumption DEF IInv, MakeRunnable, Go, graphVars, ringVars, localVars, Swaps
<1>0. mode \in {"serial", "parallel"} /\ (mode # "parallel" => t = Main)
  BY DEF TypeOK, ThreadsConsistent, Threads, EnqueuePlaces, ReportPlaces
<1>a. ready[t] \in Nodes /\ deps[ready[t]] \subseteq deps_seen[ready[t]] /\ ready[t] < count
      /\ Nodes' = Nodes
  BY DEF DepsTold, TypeOK, Nodes
<1>b. \A u \in Threads : Reporting(u)' <=> Reporting(u)
  BY <1>0 DEF Reporting, TypeOK, EnqueuePlaces, ReportPlaces
<1>c. /\ UNCHANGED <<graphVars, deps_seen, ringVars, completed, active, mode, sweep,
                     localVars, runs>>
      /\ pc[t] = "make_runnable"
      /\ \/ /\ state[ready[t]] = "Pending" /\ state' = [state EXCEPT ![ready[t]] = "Runnable"]
            /\ pc' = [pc EXCEPT ![t] = "enqueue"]
         \/ pc' = [pc EXCEPT ![t] = "notify"] /\ state' = state
  BY DEF MakeRunnable, Go, Swaps
<1> HIDE DEF MakeRunnable
<1>1. TypeOK' BY <1>a, <1>c DEF TypeOK, Places
<1>2. GraphShape' BY SMTT(40), <1>a, <1>c DEF GraphShape, TypeOK, Nodes
<1>3. ThreadsConsistent'
  BY <1>0, <1>c DEF ThreadsConsistent, Threads, TypeOK, EnqueuePlaces, ReportPlaces
<1>4a. /\ \A n \in Nodes : \/ state'[n] = state[n]
                           \/ n = ready[t] /\ state[n] = "Pending" /\ state'[n] = "Runnable"
       /\ \A u \in Threads : u # t => pc'[u] = pc[u]
       /\ pc'[t] \in {"enqueue", "notify"}
       /\ pc'[t] = "enqueue" => state'[ready[t]] = "Runnable"
  BY <1>a, <1>c DEF TypeOK
<1>4. WorkOwned'
  <2>1. UNCHANGED <<count, node, consumers, runs, todo>> BY <1>c DEF graphVars, localVars
  <2>2. \A u \in Threads : /\ pc'[u] = "running" <=> pc[u] = "running"
                           /\ pc'[u] = "count" <=> pc[u] = "count"
    BY <1>c, <1>4a
  <2>3. \A u \in Threads : Reporting(u) \/ pc[u] = "running" => node[u] \in Nodes
    BY IndexIsNode DEF WorkOwned, TypeOK
  <2>4. \A n \in Nodes : \A v \in {"Running", "Done"} : state'[n] = v <=> state[n] = v
    BY <1>4a
  <2> HIDE DEF Reporting
  <2> QED BY <1>a, <1>b, <2>1, <2>2, <2>3, <2>4 DEF WorkOwned
<1>5. DepsTold'
  <2>1. UNCHANGED <<count, node, deps, deps_seen, todo, ready>> BY <1>c DEF graphVars, localVars
  <2>2. \A n \in Nodes : deps[n] \subseteq Nodes /\ deps_seen[n] \subseteq Nodes BY DEF TypeOK
  <2>3. \A u \in Threads : pc[u] \in EnqueuePlaces => ready[u] \in Nodes
    BY DEF DepsTold, TypeOK, Nodes
  <2>4. pc'[t] \in EnqueuePlaces => pc'[t] = "enqueue" BY <1>4a DEF EnqueuePlaces
  <2> QED BY <1>a, <1>b, <1>c, <1>4a, <2>1, <2>2, <2>3, <2>4 DEF DepsTold
<1>6a. Ticketed' = Ticketed BY <1>a, <1>c DEF Ticketed, TypeOK
<1>6. RingTickets'
  BY <1>6a, <1>c, <1>4a, TicketsFit DEF RingTickets, WritePlaces, EnqueuePlaces
<1>7. TokensKept'
  <2>1. \A p, n : Offers(p, n)' <=> Offers(p, n) BY <1>c DEF Offers
  <2>2. \A u \in Threads \ {t} : \A n \in Nodes \cup {Empty} : Holds(u, n)' <=> Holds(u, n)
    BY <1>c DEF TypeOK, Holds, EnqueuePlaces
  <2>3. CASE pc' = [pc EXCEPT ![t] = "notify"] /\ state' = state
    <3>1. \A n \in Nodes \cup {Empty} : ~ Holds(t, n)' /\ ~ Holds(t, n)
      BY <1>c, <2>3 DEF TypeOK, Holds, EnqueuePlaces
    <3> QED BY <1>c, <2>1, <2>2, <2>3, <3>1, TokensUntouched
  <2>4. CASE /\ state[ready[t]] = "Pending" /\ state' = [state EXCEPT ![ready[t]] = "Runnable"]
             /\ pc' = [pc EXCEPT ![t] = "enqueue"]
    <3>1. \A n \in Nodes \cup {Empty} : (Holds(t, n)' <=> n = ready[t]) /\ ~ Holds(t, n)
      BY <1>c, <2>4 DEF TypeOK, Holds, EnqueuePlaces
    <3>2. \A n \in Nodes : state'[n] = IF n = ready[t] THEN "Runnable" ELSE state[n]
      BY <2>4 DEF TypeOK
    <3>3. Empty' = Empty BY DEF Empty
    <3> QED BY <1>a, <1>c, <2>1, <2>2, <2>4, <3>1, <3>2, <3>3, IndexIsNode DEF TokensKept
  <2> QED BY <1>c, <2>3, <2>4
<1>8a. Counted' = Counted BY <1>a, <1>b, <1>c DEF Counted, TypeOK
<1>8. CountedOnce' BY <1>8a, <1>c DEF CountedOnce
<1>9. ActiveCounted' BY <1>c, ActiveUntouched DEF Alive, TypeOK
<1>10. SweepSound' BY <1>0, <1>c DEF SweepSound, TypeOK, Threads
<1>11. ReturnsComplete' BY <1>0, <1>c DEF ReturnsComplete
<1> QED BY <1>1, <1>2, <1>3, <1>4, <1>5, <1>6, <1>7, <1>8, <1>9, <1>10, <1>11

LEMMA ClaimRunnableKeepsIInv == \A t \in Threads : IInv /\ ClaimRunnable(t) => IInv'
<1> SUFFICES ASSUME NEW t \in Threads, IInv, ClaimRunnable(t) PROVE IInv' OBVIOUS
<1> USE DagAssumption DEF IInv, ClaimRunnable, Go, graphVars, ringVars, localVars, ClaimFrom, Swaps
<1>0. mode \in {"serial", "parallel"} /\ (mode # "parallel" => t = Main)
  BY DEF TypeOK, ThreadsConsistent, Threads, EnqueuePlaces, ReportPlaces
<1>a. /\ node[t] \in Nodes /\ node[t] < count /\ Nodes' = Nodes
      /\ state[node[t]] = "Runnable" \/ (mode = "serial" /\ state[node[t]] = "Pending")
  <2>1. CASE mode = "serial"
    BY <1>0, <2>1, IndexIsNode DEF SweepSound, TypeOK, Nodes
  <2>2. CASE mode = "parallel"
    <3>1. Holds(t, node[t]) /\ node[t] \in Nodes \cup {Empty} BY DEF Holds, TypeOK
    <3> QED BY <2>2, <3>1, IndexIsNode DEF TokensKept, Nodes
  <2> QED BY <1>0, <2>1, <2>2
<1>b. /\ UNCHANGED <<graphVars, deps_seen, ringVars, completed, active, mode, sweep,
                     localVars>>
      /\ pc[t] = "claim"
      /\ \/ /\ state[node[t]] = "Runnable" /\ state' = [state EXCEPT ![node[t]] = "Running"]
            /\ runs' = [runs EXCEPT ![node[t]] = @ + 1]
            /\ pc' = [pc EXCEPT ![t] = "running"]
         \/ /\ mode = "serial" /\ state[node[t]] = "Pending"
            /\ pc' = [pc EXCEPT ![t] = "claim_pending"] /\ state' = state /\ runs' = runs
  BY <1>a DEF ClaimRunnable
<1>c. /\ ~ Reporting(t) /\ \A u \in Threads : Reporting(u)' <=> Reporting(u)
      /\ pc[t] # "running" /\ \A u \in Threads : Reporting(u) \/ pc[u] = "running" =>
             node[u] # node[t] \/ state[node[t]] \in {"Running", "Done"}
  BY <1>a, <1>b DEF WorkOwned, Reporting, TypeOK, EnqueuePlaces, ReportPlaces
<1>d. /\ \A n \in Nodes : \/ state'[n] = state[n] /\ runs'[n] = runs[n]
                          \/ /\ n = node[t] /\ state[n] = "Runnable" /\ state'[n] = "Running"
                             /\ runs'[n] = runs[n] + 1 /\ pc'[t] = "running"
      /\ \A u \in Threads : u # t => pc'[u] = pc[u]
      /\ pc'[t] \in {"claim_pending", "running"}
      /\ pc'[t] = "running" => state'[node[t]] = "Running"
      /\ state' \in [Nodes -> {"Pending", "Runnable", "Running", "Done"}]
      /\ runs' \in [Nodes -> Nat] /\ pc' \in [Threads -> Places]
  <2>1. CASE /\ state[node[t]] = "Runnable" /\ state' = [state EXCEPT ![node[t]] = "Running"]
             /\ runs' = [runs EXCEPT ![node[t]] = @ + 1]
             /\ pc' = [pc EXCEPT ![t] = "running"]
    BY <1>a, <2>1 DEF TypeOK, Places
  <2>2. CASE pc' = [pc EXCEPT ![t] = "claim_pending"] /\ state' = state /\ runs' = runs
    BY <1>a, <2>2 DEF TypeOK, Places
  <2> QED BY <1>b, <2>1, <2>2
<1> HIDE DEF ClaimRunnable, ClaimFrom
<1>1. TypeOK' BY <1>b, <1>d DEF TypeOK
<1>2. GraphShape' BY SMTT(40), <1>a, <1>b, <1>d DEF GraphShape, TypeOK, Nodes
<1>3. ThreadsConsistent'
  BY <1>0, <1>b DEF ThreadsConsistent, Threads, TypeOK
<1>4. WorkOwned'
  <2>1. UNCHANGED <<count, node, consumers, todo>> BY <1>b DEF graphVars, localVars
  <2>2. \A u \in Threads : Reporting(u) \/ pc[u] = "running" => node[u] \in Nodes
    BY IndexIsNode DEF WorkOwned, TypeOK
  <2>3. \A n \in Nodes : runs[n] \in Nat BY DEF TypeOK
  <2>4. \A u \in Threads : Reporting(u) \/ (pc[u] = "running" /\ u # t) =>
           node[u] # node[t] \/ state'[node[u]] = state[node[u]]
    BY <1>d, <2>2 DEF WorkOwned
  <2> HIDE DEF Reporting
  <2> QED BY <1>a, <1>b, <1>c, <1>d, <2>1, <2>2, <2>3, <2>4 DEF WorkOwned
<1>5. DepsTold'
  <2>1. UNCHANGED <<count, node, deps, deps_seen, todo, ready>> BY <1>b DEF graphVars, localVars
  <2>2. \A n \in Nodes : deps[n] \subseteq Nodes /\ deps_seen[n] \subseteq Nodes BY DEF TypeOK
  <2>3. \A u \in Threads : pc'[u] \in EnqueuePlaces => pc[u] \in EnqueuePlaces /\ ready[u] \in Nodes
    BY <1>d DEF DepsTold, TypeOK, Nodes, EnqueuePlaces
  <2>4. \A u \in Threads : pc'[u] = "make_runnable" => pc[u] = "make_runnable" BY <1>d
  <2> HIDE DEF Reporting
  <2> QED BY <1>a, <1>c, <1>d, <2>1, <2>2, <2>3, <2>4 DEF DepsTold
<1>6a. Ticketed' = Ticketed BY <1>a, <1>b DEF Ticketed, TypeOK
<1>6. RingTickets'
  BY SMTT(40), <1>6a, <1>b, TicketsFit DEF TypeOK, RingTickets, WritePlaces, EnqueuePlaces
<1>7. TokensKept'
  <2> SUFFICES ASSUME mode = "parallel" PROVE TokensKept'
    BY <1>0, <1>b DEF TokensKept
  <2>1. \A p, n : Offers(p, n)' <=> Offers(p, n) BY <1>b DEF Offers
  <2>2. \A u \in Threads \ {t} : \A n \in Nodes \cup {Empty} : Holds(u, n)' <=> Holds(u, n)
    BY <1>b DEF TypeOK, Holds, EnqueuePlaces
  <2>3. \A n \in Nodes \cup {Empty} : ~ Holds(t, n)' /\ (Holds(t, n) <=> n = node[t])
    BY <1>b DEF TypeOK, Holds, EnqueuePlaces
  <2>4. \A n \in Nodes : state'[n] = IF n = node[t] THEN "Running" ELSE state[n]
    BY <1>b DEF TypeOK
  <2>5. Empty' = Empty BY DEF Empty
  <2> QED BY <1>a, <1>b, <2>1, <2>2, <2>3, <2>4, <2>5, IndexIsNode DEF TokensKept
<1>8a. Counted' = Counted BY <1>a, <1>b, <1>c DEF Counted, TypeOK
<1>8. CountedOnce' BY <1>8a, <1>b DEF CountedOnce
<1>9. ActiveCounted' BY <1>b, ActiveUntouched DEF Alive, TypeOK
<1>10. SweepSound' BY <1>0, <1>a, <1>b DEF SweepSound, TypeOK, Threads
<1>11. ReturnsComplete' BY <1>0, <1>b DEF ReturnsComplete
<1> QED BY <1>1, <1>2, <1>3, <1>4, <1>5, <1>6, <1>7, <1>8, <1>9, <1>10, <1>11

LEMMA ClaimPendingKeepsIInv == \A t \in Threads : IInv /\ ClaimPending(t) => IInv'
<1> SUFFICES ASSUME NEW t \in Threads, IInv, ClaimPending(t) PROVE IInv' OBVIOUS
<1> USE DagAssumption DEF IInv, ClaimPending, Go, graphVars, ringVars, localVars, ClaimFrom, Swaps
<1>0. mode \in {"serial", "parallel"} /\ (mode # "parallel" => t = Main)
  BY DEF TypeOK, ThreadsConsistent, Threads, EnqueuePlaces, ReportPlaces
<1>a. /\ mode = "serial" /\ t = Main /\ Nodes' = Nodes
      /\ node[t] \in Nodes /\ node[t] < count /\ deps[node[t]] \subseteq deps_seen[node[t]]
      /\ state[node[t]] = "Pending"
  BY <1>0, IndexIsNode DEF ThreadsConsistent, SweepSound, TypeOK, Nodes
<1>b. /\ UNCHANGED <<graphVars, deps_seen, ringVars, completed, active, mode, sweep,
                     localVars>>
      /\ pc[t] = "claim_pending"
      /\ state' = [state EXCEPT ![node[t]] = "Running"]
      /\ runs' = [runs EXCEPT ![node[t]] = @ + 1]
      /\ pc' = [pc EXCEPT ![t] = "running"]
  BY <1>a DEF ClaimPending
<1>c. /\ ~ Reporting(t) /\ \A u \in Threads : Reporting(u)' <=> Reporting(u)
      /\ pc[t] # "running" /\ \A u \in Threads : Reporting(u) \/ pc[u] = "running" =>
             node[u] # node[t]
  BY <1>a, <1>b DEF WorkOwned, Reporting, TypeOK, EnqueuePlaces, ReportPlaces
<1> HIDE DEF ClaimPending, ClaimFrom
<1>1. TypeOK' BY <1>a, <1>b DEF TypeOK, Places
<1>2. GraphShape' BY SMTT(40), <1>a, <1>b DEF GraphShape, TypeOK, Nodes
<1>3. ThreadsConsistent'
  BY <1>a, <1>b DEF ThreadsConsistent, Threads, TypeOK
<1>4. WorkOwned' BY <1>a, <1>b, <1>c DEF WorkOwned, TypeOK
<1>5. DepsTold' BY <1>a, <1>b, <1>c DEF DepsTold, TypeOK, EnqueuePlaces
<1>6a. enqueue_pos <= Cardinality(Ticketed')
  <2>1. Ticketed \subseteq Ticketed' /\ Ticketed' \subseteq Nodes
    BY <1>a, <1>b DEF Ticketed, TypeOK
  <2>2. Cardinality(Ticketed) <= Cardinality(Ticketed') BY <2>1, NodeSets, FS_Subset
  <2>3. Cardinality(Ticketed) \in Nat /\ Cardinality(Ticketed') \in Nat
    <3>1. Ticketed \subseteq Nodes BY <2>1
    <3> QED BY <2>1, <3>1, NodeSets
  <2> QED BY <2>2, <2>3 DEF RingTickets, TypeOK
<1>6. RingTickets'
  BY <1>6a, <1>b, TicketsFit DEF TypeOK, RingTickets, WritePlaces, EnqueuePlaces
<1>7. TokensKept' BY <1>a, <1>b DEF TokensKept
<1>8a. Counted' = Counted BY <1>a, <1>b, <1>c DEF Counted, TypeOK
<1>8. CountedOnce' BY <1>8a, <1>b DEF CountedOnce
<1>9. ActiveCounted' BY <1>b, ActiveUntouched DEF Alive, TypeOK
<1>10. SweepSound' BY <1>a, <1>b DEF SweepSound, TypeOK, Threads
<1>11. ReturnsComplete' BY <1>a, <1>b DEF ReturnsComplete
<1> QED BY <1>1, <1>2, <1>3, <1>4, <1>5, <1>6, <1>7, <1>8, <1>9, <1>10, <1>11

-----------------------------------------------------------------------------
(* The caller's steps: adding nodes and starting a run.                      *)

(* While nodes are added only the caller exists and nothing has run. *)
LEMMA NothingRanYet ==
    ASSUME IInv, pc[Main] = "adding"
    PROVE  /\ mode = "adding" /\ \A t \in Threads : pc[t] \in {"adding", "unborn"}
           /\ \A n \in Nodes : state[n] = "Pending"
           /\ enqueue_pos = 0 /\ dequeue_pos = 0 /\ completed = 0
<1> USE DEF IInv
<1>1. mode = "adding"
  BY DEF ThreadsConsistent, TypeOK, EnqueuePlaces, ReportPlaces, Threads
<1>2. \A t \in Threads : pc[t] \in {"adding", "unborn"}
  BY <1>1 DEF ThreadsConsistent, Threads
<1>3. \A n \in Nodes : state[n] = "Pending" BY <1>1 DEF ThreadsConsistent
<1>4. Ticketed = {} /\ Counted = {} BY <1>3 DEF Ticketed, Counted
<1>5. enqueue_pos = 0 /\ dequeue_pos = 0 /\ completed = 0
  BY <1>4, FS_EmptySet DEF RingTickets, CountedOnce, TypeOK
<1> QED BY <1>1, <1>2, <1>3, <1>5

LEMMA AddNodeKeepsIInv == IInv /\ AddNode => IInv'
<1> SUFFICES ASSUME IInv, AddNode PROVE IInv' OBVIOUS
<1> USE DagAssumption DEF IInv
<1>a. /\ mode = "adding" /\ \A t \in Threads : pc[t] \in {"adding", "unborn"}
      /\ \A n \in Nodes : state[n] = "Pending"
  BY NothingRanYet DEF AddNode
<1>b. PICK D \in SUBSET Nodes : deps' = [deps EXCEPT ![count] = EarlierDeps(D)]
  BY DEF AddNode
<1>c. /\ count \in Nodes /\ count' = count + 1 /\ count' \in 0..MaxNodes
      /\ EarlierDeps(D) \subseteq Nodes /\ EarlierDeps(D) \subseteq 0..(count - 1)
  BY <1>b DEF AddNode, TypeOK, Nodes, EarlierDeps
<1>d. /\ UNCHANGED <<deps_seen, state, ringVars, completed, active, mode, sweep,
                     pc, localVars, runs>>
      /\ consumers' = [d \in Nodes |-> IF d \in deps'[count]
                                       THEN consumers[d] \cup {count} ELSE consumers[d]]
      /\ deps' \in [Nodes -> SUBSET Nodes] /\ deps'[count] = EarlierDeps(D)
      /\ \A n \in Nodes : n # count => deps'[n] = deps[n]
      /\ Nodes' = Nodes
  BY <1>b, <1>c DEF AddNode, TypeOK, Nodes
<1>1. TypeOK' BY <1>c, <1>d DEF TypeOK, ringVars, localVars, Slots, Empty
<1>2. GraphShape'
  <2>1. \A n \in Nodes : deps'[n] \subseteq 0..(n - 1) BY <1>c, <1>d DEF GraphShape
  <2>2. \A n \in Nodes : n >= count' => n >= count /\ n # count BY <1>c DEF Nodes, TypeOK
  <2>3. \A d \in Nodes : count \notin consumers[d] BY <1>c DEF GraphShape, TypeOK
  <2>4. \A d, n \in Nodes : n \in consumers'[d] <=> d \in deps'[n]
    BY <1>c, <1>d, <2>3 DEF GraphShape
  <2> QED BY <1>d, <2>1, <2>2, <2>4 DEF GraphShape
<1>3. ThreadsConsistent' BY <1>a, <1>d DEF ThreadsConsistent
<1>4. \A t \in Threads : ~ Reporting(t) /\ pc[t] \notin EnqueuePlaces
  BY <1>a DEF Reporting, ReportPlaces, EnqueuePlaces
<1>5. \A t \in Threads : ~ Reporting(t)' /\ pc'[t] \notin EnqueuePlaces
  BY <1>a, <1>d DEF Reporting, ReportPlaces, EnqueuePlaces
<1>6. WorkOwned' BY <1>a, <1>d, <1>5 DEF WorkOwned
<1>7. DepsTold'
  <2>1. \A n \in Nodes : deps_seen[n] = {} BY <1>a DEF DepsTold, TypeOK
  <2> QED BY <1>a, <1>d, <1>5, <2>1 DEF DepsTold
<1>8. Ticketed' = Ticketed BY <1>d DEF Ticketed, localVars
<1>9. RingTickets' BY <1>8, <1>d DEF RingTickets, ringVars, localVars
<1>10. TokensKept' BY <1>a, <1>d DEF TokensKept
<1>11. Counted' = {} /\ Counted = {} BY <1>a, <1>d DEF Counted
<1>12. CountedOnce' BY <1>11, <1>d DEF CountedOnce
<1>13. SweepSound' BY <1>a, <1>d DEF SweepSound
<1>14. ActiveCounted' /\ ReturnsComplete' BY <1>a, <1>d DEF ActiveCounted, ReturnsComplete
<1> QED BY <1>1, <1>2, <1>3, <1>6, <1>7, <1>9, <1>10, <1>12, <1>13, <1>14

LEMMA RunParallelKeepsIInv == IInv /\ RunParallel => IInv'
<1> SUFFICES ASSUME IInv, RunParallel PROVE IInv' OBVIOUS
<1> USE DagAssumption DEF IInv
<1>a. /\ mode = "adding" /\ \A t \in Threads : pc[t] \in {"adding", "unborn"}
      /\ \A n \in Nodes : state[n] = "Pending"
      /\ enqueue_pos = 0 /\ dequeue_pos = 0 /\ completed = 0
  BY NothingRanYet DEF RunParallel
<1>b. /\ UNCHANGED <<graphVars, deps_seen, state, ringVars, active, sweep, localVars, runs>>
      /\ completed' = completed /\ mode' = IF count = 0 THEN "returned" ELSE "seeding"
      /\ pc' \in [Threads -> Places] /\ pc'[Main] = mode'
      /\ \A w \in Workers : pc'[w] = pc[w] /\ pc'[w] = "unborn"
      /\ \A t \in Threads : pc'[t] \in {"seeding", "returned", "unborn"}
  BY <1>a DEF RunParallel, Go, TypeOK, Threads, Places, ThreadsConsistent
<1>1. TypeOK' BY <1>a, <1>b DEF TypeOK, graphVars, ringVars, localVars
<1>2. GraphShape' BY <1>b DEF GraphShape, graphVars
<1>3. ThreadsConsistent' BY <1>b DEF ThreadsConsistent
<1>4. /\ \A t \in Threads : ~ Reporting(t)' /\ pc'[t] \notin EnqueuePlaces
      /\ \A t \in Threads : ~ Reporting(t) /\ pc[t] \notin EnqueuePlaces
  BY <1>a, <1>b DEF Reporting, ReportPlaces, EnqueuePlaces
<1>5. WorkOwned' BY <1>a, <1>b, <1>4 DEF WorkOwned
<1>6. DepsTold' BY <1>a, <1>b, <1>4 DEF DepsTold, graphVars
<1>7. Ticketed' = Ticketed BY <1>a, <1>b DEF Ticketed
<1>8. RingTickets'
  BY <1>7, <1>b DEF RingTickets, ringVars, localVars, WritePlaces, EnqueuePlaces
<1>9. TokensKept'
  BY <1>a, <1>b DEF TokensKept, Holds, EnqueuePlaces, ringVars
<1>10. Counted' = Counted BY <1>a, <1>b DEF Counted
<1>11. CountedOnce' BY <1>10, <1>b DEF CountedOnce
<1>12. SweepSound' /\ ActiveCounted' BY <1>b DEF SweepSound, ActiveCounted
<1>13. ReturnsComplete' BY <1>b DEF ReturnsComplete, graphVars
<1> QED BY <1>1, <1>2, <1>3, <1>5, <1>6, <1>8, <1>9, <1>11, <1>12, <1>13

LEMMA RunSerialKeepsIInv == IInv /\ RunSerial => IInv'
<1> SUFFICES ASSUME IInv, RunSerial PROVE IInv' OBVIOUS
<1> USE DagAssumption DEF IInv
<1>a. /\ mode = "adding" /\ \A t \in Threads : pc[t] \in {"adding", "unborn"}
      /\ completed = 0 /\ \A n \in Nodes : state[n] = "Pending"
  BY NothingRanYet DEF RunSerial
<1>b. /\ UNCHANGED <<graphVars, deps_seen, state, ringVars, completed, active, sweep,
                     localVars, runs>>
      /\ mode' = IF count = 0 THEN "returned" ELSE "serial"
      /\ pc' \in [Threads -> Places]
      /\ pc'[Main] = IF count = 0 THEN "returned" ELSE "scan"
      /\ \A w \in Workers : pc'[w] = pc[w] /\ pc'[w] = "unborn"
      /\ \A t \in Threads : pc'[t] \in {"scan", "returned", "unborn"}
  BY <1>a DEF RunSerial, Go, TypeOK, Threads, Places, ThreadsConsistent
<1>1. TypeOK' BY <1>a, <1>b DEF TypeOK, graphVars, ringVars, localVars
<1>2. GraphShape' BY <1>b DEF GraphShape, graphVars
<1>3. ThreadsConsistent' BY <1>b DEF ThreadsConsistent
<1>4. /\ \A t \in Threads : ~ Reporting(t)' /\ pc'[t] \notin EnqueuePlaces
      /\ \A t \in Threads : ~ Reporting(t) /\ pc[t] \notin EnqueuePlaces
  BY <1>a, <1>b DEF Reporting, ReportPlaces, EnqueuePlaces
<1>5. WorkOwned' BY <1>a, <1>b, <1>4 DEF WorkOwned
<1>6. DepsTold' BY <1>a, <1>b, <1>4 DEF DepsTold, graphVars
<1>7. Ticketed' = Ticketed BY <1>a, <1>b DEF Ticketed
<1>8. RingTickets'
  BY <1>7, <1>b DEF RingTickets, ringVars, localVars, WritePlaces, EnqueuePlaces
<1>9. TokensKept' BY <1>b DEF TokensKept
<1>10. Counted' = Counted BY <1>a, <1>b DEF Counted
<1>11. CountedOnce' BY <1>10, <1>b DEF CountedOnce
<1>12. SweepSound'
  <2>1. sweep'.at = 0 /\ sweep'.done = 0 /\ completed' = 0 BY <1>a, <1>b DEF SweepSound
  <2>2. count' \in Nat BY <1>1, DagAssumption DEF TypeOK
  <2> QED BY <1>a, <1>b, <2>1, <2>2 DEF SweepSound
<1>13. ReturnsComplete' /\ ActiveCounted' BY <1>b DEF ReturnsComplete, ActiveCounted, graphVars
<1> QED BY <1>1, <1>2, <1>3, <1>5, <1>6, <1>8, <1>9, <1>11, <1>12, <1>13

LEMMA SeedKeepsIInv == IInv /\ Seed => IInv'
<1> SUFFICES ASSUME IInv, Seed PROVE IInv' OBVIOUS
<1> USE DagAssumption DEF IInv
<1> DEFINE i == node[Main]
<1>a. /\ mode = "seeding" /\ \A w \in Workers : pc[w] = "unborn"
      /\ i \in Nodes /\ i < count /\ i + 1 \in Nodes \cup {Empty} /\ Main \in Threads
  <2>1. mode = "seeding" /\ i < count
    BY DEF Seed, ThreadsConsistent, TypeOK, EnqueuePlaces, ReportPlaces, Threads
  <2>2. i \in Nodes /\ i + 1 \in Nodes \cup {Empty}
    <3>1. i \in Nodes \cup {Empty} /\ count \in 0..MaxNodes BY DEF TypeOK, Threads
    <3>2. i \in Nodes BY <2>1, <3>1, IndexIsNode
    <3> QED BY <2>1, <3>1, <3>2 DEF Nodes, Empty
  <2> QED BY <2>1, <2>2 DEF ThreadsConsistent, Threads
<1>b. /\ UNCHANGED <<graphVars, deps_seen, ringVars, completed, active, mode, sweep, pos,
                     todo, runs>>
      /\ node' = [node EXCEPT ![Main] = i + 1] /\ pc[Main] = "seeding"
      /\ \/ /\ deps[i] \subseteq deps_seen[i] /\ state[i] = "Pending"
            /\ state' = [state EXCEPT ![i] = "Runnable"]
            /\ ready' = [ready EXCEPT ![Main] = i]
            /\ pc' = [pc EXCEPT ![Main] = "enqueue"]
         \/ UNCHANGED <<state, ready, pc>>
  BY DEF Seed, Go, AllDepsSeen, Swaps
<1>c. /\ \A t \in Threads : ~ Reporting(t) /\ ~ Reporting(t)'
      /\ \A t \in Threads : t = Main \/ pc[t] = "unborn"
      /\ Nodes' = Nodes /\ Empty' = Empty
  BY <1>a, <1>b DEF Reporting, Threads, Nodes, Empty
<1> HIDE DEF i
<1>d. /\ node' \in [Threads -> Nodes \cup {Empty}] /\ \A t \in Threads : t = Main \/ node'[t] = node[t]
  BY <1>a, <1>b DEF TypeOK
<1>1. CASE UNCHANGED <<state, ready, pc>>
  <2>1. TypeOK' BY <1>b, <1>d, <1>1 DEF TypeOK, graphVars, ringVars
  <2>2. GraphShape' BY <1>b, <1>1 DEF GraphShape, graphVars
  <2>3. ThreadsConsistent' BY <1>b, <1>1, <1>a DEF ThreadsConsistent, graphVars
  <2>4. WorkOwned'
    BY <1>a, <1>b, <1>c, <1>d, <1>1 DEF WorkOwned, graphVars
  <2>5. DepsTold' BY <1>b, <1>c, <1>1 DEF DepsTold, graphVars
  <2>6. Ticketed' = Ticketed BY <1>1 DEF Ticketed
  <2>7. RingTickets' BY <1>b, <1>1, <2>6 DEF RingTickets, ringVars
  <2>8. TokensKept'
    <3>1. \A t \in Threads : \A n \in Nodes \cup {Empty} : Holds(t, n)' <=> Holds(t, n)
      BY <1>b, <1>c, <1>d, <1>1 DEF Holds, ringVars
    <3>2. \A p, n : Offers(p, n)' <=> Offers(p, n) BY <1>b DEF Offers, ringVars
    <3> QED BY <1>b, <1>1, <3>1, <3>2, TokensUntouched DEF graphVars, ringVars
  <2>9. Counted' = Counted BY <1>c, <1>1 DEF Counted
  <2>10. CountedOnce' BY <2>9, <1>b DEF CountedOnce
  <2>11. SweepSound' /\ ActiveCounted' /\ ReturnsComplete'
    BY <1>a, <1>b DEF SweepSound, ActiveCounted, ReturnsComplete
  <2> QED BY <2>1, <2>2, <2>3, <2>4, <2>5, <2>7, <2>8, <2>10, <2>11
<1>2. CASE /\ deps[i] \subseteq deps_seen[i] /\ state[i] = "Pending"
           /\ state' = [state EXCEPT ![i] = "Runnable"]
           /\ ready' = [ready EXCEPT ![Main] = i]
           /\ pc' = [pc EXCEPT ![Main] = "enqueue"]
  <2>a. /\ \A n \in Nodes : state'[n] = IF n = i THEN "Runnable" ELSE state[n]
        /\ pc'[Main] = "enqueue" /\ ready'[Main] = i
        /\ \A t \in Threads : t = Main \/ (pc'[t] = "unborn" /\ ready'[t] = ready[t])
    BY <1>a, <1>c, <1>2 DEF TypeOK
  <2>1. TypeOK' BY <1>a, <1>b, <1>d, <1>2 DEF TypeOK, graphVars, ringVars, Places
  <2>2. GraphShape' BY <1>a, <1>b, <2>a DEF GraphShape, graphVars, TypeOK, Nodes
  <2>3. ThreadsConsistent'
    BY <1>a, <1>b, <1>c, <2>a DEF ThreadsConsistent, EnqueuePlaces, Threads
  <2>4. WorkOwned'
    BY <1>a, <1>b, <1>c, <2>a DEF WorkOwned
  <2>5. DepsTold'
    <3>1. \A n \in Nodes : deps[n] \subseteq Nodes /\ deps_seen[n] \subseteq Nodes BY DEF TypeOK
    <3>2. UNCHANGED <<deps, deps_seen, count>> BY <1>b DEF graphVars
    <3> QED BY <1>a, <1>c, <1>2, <2>a, <3>1, <3>2 DEF DepsTold, EnqueuePlaces
  <2>6. Ticketed' = Ticketed BY <1>a, <1>b, <1>c, <1>2, <2>a DEF Ticketed
  <2>7. RingTickets'
    BY <1>b, <1>c, <2>6, <2>a DEF RingTickets, ringVars, WritePlaces, EnqueuePlaces
  <2>8. TokensKept'
    <3>1. \A t \in Threads : \A n \in Nodes \cup {Empty} :
             ~ Holds(t, n) /\ (Holds(t, n)' <=> t = Main /\ n = i)
      BY <1>b, <1>c, <2>a DEF Holds, EnqueuePlaces
    <3>2. \A p, n : Offers(p, n)' <=> Offers(p, n) BY <1>b DEF Offers, ringVars
    <3>3. UNCHANGED <<count, mode, enqueue_pos, dequeue_pos>> BY <1>b DEF graphVars, ringVars
    <3> QED BY <1>a, <1>c, <1>2, <2>a, <3>1, <3>2, <3>3, IndexIsNode DEF TokensKept
  <2>9. Counted' = Counted BY <1>a, <1>c, <1>2, <2>a DEF Counted
  <2>10. CountedOnce' BY <2>9, <1>b DEF CountedOnce
  <2>11. SweepSound' /\ ActiveCounted' /\ ReturnsComplete'
    BY <1>a, <1>b DEF SweepSound, ActiveCounted, ReturnsComplete
  <2> QED BY <2>1, <2>2, <2>3, <2>4, <2>5, <2>7, <2>8, <2>10, <2>11
<1> QED BY <1>b, <1>1, <1>2

LEMMA SpawnKeepsIInv == IInv /\ Spawn => IInv'
<1> SUFFICES ASSUME IInv, Spawn PROVE IInv' OBVIOUS
<1> USE DagAssumption DEF IInv
<1>a. /\ mode = "seeding" /\ \A w \in Workers : pc[w] = "unborn"
  BY DEF Spawn, ThreadsConsistent, TypeOK, EnqueuePlaces, ReportPlaces, Threads
<1>b. PICK W \in (SUBSET Workers) \ {{}} :
         /\ active' = ActiveThreads(W)
         /\ pc' = [t \in Threads |-> IF t \in W \cup {Main} THEN "load_pos" ELSE pc[t]]
  BY DEF Spawn
<1>c. /\ UNCHANGED <<graphVars, deps_seen, state, ringVars, completed, sweep, localVars, runs>>
      /\ pc[Main] = "seeding" /\ mode' = "parallel"
  BY DEF Spawn
<1>d. /\ \A t \in Threads : /\ pc[t] \in {"seeding", "unborn"}
                            /\ pc'[t] \in {"load_pos", "unborn"}
                            /\ pc'[t] = "load_pos" <=> t \in W \cup {Main}
      /\ pc' \in [Threads -> Places] /\ Main \in Threads
  BY <1>a, <1>b, <1>c DEF Threads, Places, TypeOK
<1>e. {t \in Threads : Alive(t)}' = W \cup {Main}
  BY <1>d DEF Alive, Threads
<1>f. active' = Cardinality(W \cup {Main}) /\ active' \in Nat
  <2>1. IsFiniteSet(W) /\ Main \notin W BY FS_Subset
  <2> QED BY <1>b, <2>1, FS_AddElement, FS_CardinalityType DEF ActiveThreads
<1>1. TypeOK' BY <1>c, <1>d, <1>f DEF TypeOK, graphVars, ringVars, localVars
<1>2. GraphShape' BY <1>c DEF GraphShape, graphVars
<1>3. ThreadsConsistent' BY <1>c, <1>d DEF ThreadsConsistent
<1>4. ActiveCounted' BY <1>e, <1>f DEF ActiveCounted
<1>5. \A t \in Threads : WorksOn(t)
  BY <1>a, <1>d DEF WorksOn, Reporting, ReportPlaces, EnqueuePlaces
<1>6. GraphShape' /\ WorkOwned' /\ DepsTold' /\ CountedOnce' /\ ReturnsComplete'
  BY <1>c, <1>5, WorkUntouched DEF localVars
<1>7. Ticketed' = Ticketed BY <1>c, <1>d DEF Ticketed, localVars
<1>8. RingTickets'
  BY <1>7, <1>c, <1>d DEF RingTickets, ringVars, localVars, WritePlaces, EnqueuePlaces
<1>9. TokensKept'
  <2>1. \A t \in Threads : \A n \in Nodes \cup {Empty} : ~ Holds(t, n) /\ ~ Holds(t, n)'
    BY <1>d DEF Holds, EnqueuePlaces
  <2>2. \A p, n : Offers(p, n)' <=> Offers(p, n) BY <1>c DEF Offers, ringVars
  <2>3. Nodes' = Nodes /\ Empty' = Empty BY DEF Nodes, Empty
  <2> QED BY <1>a, <1>c, <2>1, <2>2, <2>3 DEF TokensKept, graphVars, ringVars
<1>10. SweepSound' BY <1>c DEF SweepSound
<1> QED BY <1>1, <1>3, <1>4, <1>6, <1>8, <1>9, <1>10

LEMMA JoinedKeepsIInv == IInv /\ Joined => IInv'
<1> SUFFICES ASSUME IInv, Joined PROVE IInv' OBVIOUS
<1> USE DagAssumption DEF IInv
<1>a. /\ mode = "parallel" /\ completed = count
      /\ \A t \in Threads : pc[t] \in {"unborn", "exited"}
  BY DEF Joined, ThreadsConsistent, TypeOK, EnqueuePlaces, ReportPlaces, Threads
<1>b. /\ UNCHANGED <<graphVars, deps_seen, state, ringVars, completed, active, sweep,
                     localVars, runs>>
      /\ mode' = "returned" /\ pc' \in [Threads -> Places] /\ pc'[Main] = "returned"
      /\ \A t \in Threads : t = Main \/ pc'[t] = pc[t]
  BY DEF Joined, Go, TypeOK, Places, Threads
<1>c. \A n \in 0..(count - 1) : state[n] = "Done"
  <2>1. Counted \subseteq 0..(count - 1)
    BY DEF Counted, GraphShape, Nodes, TypeOK
  <2>2. Counted = 0..(count - 1)
    BY <1>a, <2>1, FirstNodes DEF CountedOnce, TypeOK
  <2> QED BY <2>2 DEF Counted
<1>d. \A t \in Threads : /\ pc'[t] \in {"unborn", "exited", "returned"}
                         /\ ~ Reporting(t) /\ ~ Reporting(t)'
  BY <1>a, <1>b DEF Reporting, ReportPlaces, EnqueuePlaces
<1>1. TypeOK' BY <1>b DEF TypeOK, graphVars, ringVars, localVars
<1>2. GraphShape' BY <1>b DEF GraphShape, graphVars
<1>3. ThreadsConsistent' BY <1>a, <1>b DEF ThreadsConsistent, Threads
<1>4. WorkOwned' BY <1>a, <1>b, <1>d DEF WorkOwned
<1>5. DepsTold' BY <1>b, <1>d DEF DepsTold, EnqueuePlaces, graphVars
<1>6. Ticketed' = Ticketed BY <1>a, <1>b, <1>d DEF Ticketed
<1>7. RingTickets'
  BY <1>6, <1>b, <1>d DEF RingTickets, ringVars, localVars, WritePlaces, EnqueuePlaces
<1>8. Counted' = Counted BY <1>b, <1>d DEF Counted
<1>9. CountedOnce' BY <1>8, <1>b DEF CountedOnce
<1>10. TokensKept' /\ SweepSound' /\ ActiveCounted'
  BY <1>b DEF TokensKept, SweepSound, ActiveCounted
<1>11. ReturnsComplete' BY <1>b, <1>c DEF ReturnsComplete, graphVars
<1> QED BY <1>1, <1>2, <1>3, <1>4, <1>5, <1>7, <1>9, <1>10, <1>11

-----------------------------------------------------------------------------
(* The caller's steps in run_serial.                                         *)

(* Between two nodes of a sweep no node is half done, and every done node    *)
(* was counted and has told its dependents.                                  *)
LEMMA AtRest ==
    ASSUME IInv, pc[Main] = "scan"
    PROVE  /\ mode = "serial" /\ Main \in Threads
           /\ \A t \in Threads : t = Main \/ pc[t] = "unborn"
           /\ \A n \in Nodes : state[n] # "Running"
           /\ \A n \in Nodes : \A d \in deps[n] : state[d] = "Done" => d \in deps_seen[n]
           /\ completed = Cardinality({n \in Nodes : state[n] = "Done"})
<1> USE DEF IInv
<1>1. mode = "serial" /\ Main \in Threads
  BY DEF ThreadsConsistent, TypeOK, EnqueuePlaces, ReportPlaces, Threads
<1>2. \A t \in Threads : t = Main \/ pc[t] = "unborn"
  BY <1>1 DEF ThreadsConsistent, Threads
<1>3. \A t \in Threads : ~ Reporting(t) /\ pc[t] # "running"
  BY <1>2 DEF Reporting, ReportPlaces, EnqueuePlaces
<1>4. \A n \in Nodes : state[n] # "Running" BY <1>3 DEF WorkOwned
<1>5. \A n \in Nodes : \A d \in deps[n] : state[d] = "Done" => d \in deps_seen[n]
  BY <1>3 DEF DepsTold, TypeOK
<1>6. Counted = {n \in Nodes : state[n] = "Done"} BY <1>3 DEF Counted
<1> QED BY <1>1, <1>2, <1>4, <1>5, <1>6 DEF CountedOnce

LEMMA ScanNodeKeepsIInv == IInv /\ ScanNode => IInv'
<1> SUFFICES ASSUME IInv, ScanNode PROVE IInv' OBVIOUS
<1> USE DagAssumption DEF IInv
<1> DEFINE i == sweep.at
<1>a. /\ mode = "serial" /\ Main \in Threads /\ \A t \in Threads : t = Main \/ pc[t] = "unborn"
      /\ \A n \in Nodes : state[n] # "Running"
  BY AtRest DEF ScanNode
<1>b. /\ i \in Nat /\ i < count /\ i \in Nodes
  BY DEF ScanNode, TypeOK, Nodes
<1>c. /\ UNCHANGED <<graphVars, deps_seen, state, ringVars, completed, active, mode, pos, todo,
                     ready, runs>>
      /\ pc[Main] = "scan"
      /\ \/ /\ deps[i] \subseteq deps_seen[i] /\ state[i] \in {"Pending", "Runnable"}
            /\ sweep' = [at |-> i + 1, done |-> sweep.done + 1, progressed |-> TRUE]
            /\ node' = [node EXCEPT ![Main] = i]
            /\ pc' = [pc EXCEPT ![Main] = "claim"]
         \/ /\ ~ (deps[i] \subseteq deps_seen[i]) \/ state[i] = "Done"
            /\ sweep' = [sweep EXCEPT !.at = i + 1]
            /\ UNCHANGED <<node, pc>>
  BY <1>a, <1>b DEF ScanNode, Go, AllDepsSeen, TypeOK
<1>d. /\ \A t \in Threads : t = Main \/ (pc'[t] = pc[t] /\ node'[t] = node[t])
      /\ pc'[Main] \in {"scan", "claim"} /\ pc' \in [Threads -> Places]
      /\ node' \in [Threads -> Nodes \cup {Empty}]
  BY <1>a, <1>b, <1>c DEF TypeOK, Places
<1>1. TypeOK'
  <2>1. sweep' \in [at : Nat, done : Nat, progressed : BOOLEAN] 
    <3>1. sweep \in [at : Nat, done : Nat, progressed : BOOLEAN] BY DEF TypeOK
    <3>2. sweep.done + 1 \in Nat /\ i + 1 \in Nat BY <1>b, <3>1
    <3> HIDE DEF i
    <3>3. CASE sweep' = [at |-> i + 1, done |-> sweep.done + 1, progressed |-> TRUE]
      BY <3>2, <3>3
    <3>4. CASE sweep' = [sweep EXCEPT !.at = i + 1] BY <3>1, <3>2, <3>4
    <3> QED BY <1>c, <3>3, <3>4
  <2> QED BY <1>c, <1>d, <2>1 DEF TypeOK, graphVars, ringVars
<1>2. ThreadsConsistent' BY <1>a, <1>c, <1>d DEF ThreadsConsistent, Threads
<1>3. \A t \in Threads : WorksOn(t)
  BY <1>a, <1>c, <1>d DEF WorksOn, Reporting, ReportPlaces, EnqueuePlaces
<1>4. GraphShape' /\ WorkOwned' /\ DepsTold' /\ CountedOnce' /\ ReturnsComplete'
  BY <1>c, <1>3, WorkUntouched
<1>5. Ticketed' = Ticketed BY <1>a, <1>c, <1>d DEF Ticketed
<1>6. RingTickets'
  BY <1>5, <1>a, <1>c, <1>d DEF RingTickets, ringVars, WritePlaces, EnqueuePlaces
<1>7. TokensKept' /\ ActiveCounted' BY <1>a, <1>c DEF TokensKept, ActiveCounted
<1>8. SweepSound'
  <2>1. CASE /\ deps[i] \subseteq deps_seen[i] /\ state[i] \in {"Pending", "Runnable"}
             /\ sweep' = [at |-> i + 1, done |-> sweep.done + 1, progressed |-> TRUE]
             /\ node' = [node EXCEPT ![Main] = i]
             /\ pc' = [pc EXCEPT ![Main] = "claim"]
    BY <1>a, <1>b, <1>c, <2>1 DEF SweepSound, TypeOK, graphVars
  <2>2. CASE /\ ~ (deps[i] \subseteq deps_seen[i]) \/ state[i] = "Done"
             /\ sweep' = [sweep EXCEPT !.at = i + 1]
             /\ UNCHANGED <<node, pc>>
    <3>1. /\ sweep'.at = i + 1 /\ sweep'.done = sweep.done
          /\ sweep'.progressed = sweep.progressed
      BY <2>2 DEF TypeOK
    <3>2. \A k \in 0..i : k = i \/ k \in 0..(i - 1) BY <1>b
    <3>3. i + 1 <= count /\ (i + 1) - 1 = i BY <1>b DEF TypeOK
    <3> QED BY <1>a, <1>c, <2>2, <3>1, <3>2, <3>3 DEF SweepSound, graphVars
  <2> QED BY <1>c, <2>1, <2>2
<1> QED BY <1>1, <1>2, <1>4, <1>6, <1>7, <1>8

(* A sweep that passed every node without progress passed only done nodes:   *)
(* the dependencies of the first node that is not done would all be done and *)
(* would have told it.                                                       *)
LEMMA NoProgressMeansDone ==
    ASSUME IInv, pc[Main] = "scan", sweep.at = count, ~ sweep.progressed
    PROVE  \A n \in 0..(count - 1) : state[n] = "Done"
<1> USE DEF IInv
<1> DEFINE Left == {n \in 0..(count - 1) : state[n] # "Done"}
<1>1. count \in Nat /\ 0..(count - 1) \subseteq Nodes
  BY DagAssumption DEF TypeOK, Nodes
<1>2. SUFFICES ASSUME Left # {} PROVE FALSE OBVIOUS
<1>3. PICK n \in Left : \A m \in Left : n <= m
  <2>1. Left \subseteq Nat BY <1>1
  <2> DEFINE Less == {p \in Nat \X Nat : p[1] < p[2]}
  <2>2. IsWellFoundedOn(Less, Nat) BY NatLessThanWellFounded DEF OpToRel
  <2> HIDE DEF Left, Less
  <2>3. PICK x \in Left : \A y \in Left : ~ (<<y, x>> \in Less)
    BY <1>2, <2>1, <2>2, WFMin
  <2>4. \A y \in Left : x <= y
    <3>1. TAKE y \in Left
    <3>2. x \in Nat /\ y \in Nat BY <2>1
    <3>3. ~ (y < x) BY <2>3, <3>2 DEF Less
    <3> QED BY <3>2, <3>3
  <2> QED BY <2>4
<1>4. \A d \in deps[n] : state[d] = "Done"
  BY <1>1, <1>3 DEF GraphShape
<1>5. deps[n] \subseteq deps_seen[n] BY <1>1, <1>4, AtRest
<1> QED BY <1>1, <1>5, AtRest DEF SweepSound

LEMMA SweepEndsKeepsIInv == IInv /\ SweepEnds => IInv'
<1> SUFFICES ASSUME IInv, SweepEnds PROVE IInv' OBVIOUS
<1> USE DagAssumption DEF IInv
<1>a. /\ mode = "serial" /\ Main \in Threads /\ \A t \in Threads : t = Main \/ pc[t] = "unborn"
      /\ completed = Cardinality({n \in Nodes : state[n] = "Done"})
  BY AtRest DEF SweepEnds
<1>b. /\ UNCHANGED <<graphVars, deps_seen, state, ringVars, completed, active, localVars, runs>>
      /\ pc[Main] = "scan" /\ sweep.at = count
      /\ \/ /\ sweep' = [sweep EXCEPT !.at = 0, !.progressed = FALSE]
            /\ UNCHANGED <<pc, mode>>
         \/ /\ sweep.done >= count \/ ~ sweep.progressed
            /\ mode' = "returned" /\ pc' = [pc EXCEPT ![Main] = "returned"] /\ sweep' = sweep
  BY DEF SweepEnds, Go, TypeOK
<1>c. /\ \A t \in Threads : t = Main \/ pc'[t] = pc[t]
      /\ pc' \in [Threads -> Places]
      /\ \/ mode' = "serial" /\ pc'[Main] = "scan"
         \/ mode' = "returned" /\ pc'[Main] = "returned"
  BY <1>a, <1>b DEF TypeOK, Places
<1>d. mode' = "returned" => \A n \in 0..(count - 1) : state[n] = "Done"
  <2>1. CASE ~ sweep.progressed BY <1>b, <2>1, NoProgressMeansDone
  <2>2. CASE sweep.done >= count
    <3> DEFINE D == {n \in Nodes : state[n] = "Done"}
    <3>1. completed >= count BY <1>a, <1>b, <2>2 DEF SweepSound, TypeOK
    <3>2. D \subseteq 0..(count - 1) BY DEF GraphShape, Nodes, TypeOK
    <3>3. count \in 0..MaxNodes /\ completed = Cardinality(D) /\ completed \in Nat
      BY <1>a DEF TypeOK
    <3> HIDE DEF D
    <3>4. Cardinality(D) <= count BY <3>2, <3>3, FirstNodes
    <3>5. count \in Int BY <3>3, DagAssumption
    <3>6. Cardinality(D) = count BY <3>1, <3>3, <3>4, <3>5
    <3>7. D = 0..(count - 1) BY <3>2, <3>3, <3>6, FirstNodes
    <3> QED BY <3>7 DEF D
  <2> QED BY <1>a, <1>b, <2>1, <2>2
<1>1. TypeOK'
  <2>1. sweep' \in [at : Nat, done : Nat, progressed : BOOLEAN]
    <3>1. sweep \in [at : Nat, done : Nat, progressed : BOOLEAN] BY DEF TypeOK
    <3>2. CASE sweep' = sweep BY <3>1, <3>2
    <3>3. CASE sweep' = [sweep EXCEPT !.at = 0, !.progressed = FALSE]
      <4>1. sweep' = [at |-> 0, done |-> sweep.done, progressed |-> FALSE] BY <3>1, <3>3
      <4> QED BY <3>1, <4>1
    <3> QED BY <1>b, <3>2, <3>3
  <2>2. mode' \in {"serial", "returned"} BY <1>c
  <2> QED BY <1>b, <1>c, <2>1, <2>2 DEF TypeOK, graphVars, ringVars, localVars
<1>2. ThreadsConsistent' BY <1>a, <1>b, <1>c DEF ThreadsConsistent, Threads
<1>3. \A t \in Threads : /\ ~ Reporting(t) /\ ~ Reporting(t)'
                         /\ pc[t] \in {"scan", "unborn"} /\ pc'[t] \in {"scan", "unborn", "returned"}
  BY <1>a, <1>b, <1>c DEF Reporting, ReportPlaces, EnqueuePlaces
<1>4. GraphShape' BY <1>b DEF GraphShape, graphVars
<1>5. WorkOwned' BY <1>b, <1>3 DEF WorkOwned
<1>6. DepsTold' BY <1>b, <1>3 DEF DepsTold, EnqueuePlaces, graphVars
<1>7. Ticketed' = Ticketed BY <1>b, <1>3 DEF Ticketed
<1>8. RingTickets'
  BY <1>b, <1>3, <1>7 DEF RingTickets, ringVars, localVars, WritePlaces, EnqueuePlaces
<1>9. Counted' = Counted BY <1>b, <1>3 DEF Counted
<1>10. CountedOnce' BY <1>b, <1>9 DEF CountedOnce
<1>11. TokensKept' /\ ActiveCounted' BY <1>a, <1>c DEF TokensKept, ActiveCounted
<1>12. SweepSound'
  <2>1. CASE mode' = "returned" BY <2>1 DEF SweepSound
  <2>2. CASE mode' = "serial"
    <3>1. sweep'.at = 0 /\ sweep'.done = sweep.done BY <1>b, <2>2 DEF TypeOK
    <3>2. count' \in Nat BY <1>b DEF TypeOK, graphVars
    <3> QED BY <1>a, <1>b, <1>c, <2>2, <3>1, <3>2 DEF SweepSound
  <2> QED BY <1>c, <2>1, <2>2
<1>13. ReturnsComplete' BY <1>b, <1>c, <1>d DEF ReturnsComplete, graphVars
<1> QED BY <1>1, <1>2, <1>4, <1>5, <1>6, <1>8, <1>10, <1>11, <1>12, <1>13

-----------------------------------------------------------------------------
LEMMA ThreadStepKeepsIInv == \A t \in Threads : IInv /\ ThreadStep(t) => IInv'
BY LoadPosKeepsIInv, CheckSeqKeepsIInv, TakePosKeepsIInv, LosePosKeepsIInv,
   ReadTokenKeepsIInv, FreeSlotKeepsIInv, ClaimRunnableKeepsIInv, ClaimPendingKeepsIInv,
   FnReturnsKeepsIInv, NotifyKeepsIInv, MakeRunnableKeepsIInv, NotifyEndsKeepsIInv,
   CountKeepsIInv, TakeTicketKeepsIInv, AwaitSlotKeepsIInv, PutTokenKeepsIInv,
   PublishKeepsIInv, CheckDoneKeepsIInv, LeaveKeepsIInv
DEF ThreadStep, Dequeues, Processes, Enqueues

LEMMA UnchangedKeepsIInv == IInv /\ UNCHANGED vars => IInv'
<1> SUFFICES ASSUME IInv, UNCHANGED vars PROVE IInv' OBVIOUS
<1> USE DEF IInv, vars, graphVars, ringVars, localVars
<1>1. TypeOK' BY DEF TypeOK
<1>2. \A t \in Threads : WorksOn(t) BY DEF WorksOn, Reporting
<1>3. GraphShape' /\ WorkOwned' /\ DepsTold' /\ CountedOnce' /\ ReturnsComplete'
  BY <1>2, WorkUntouched
<1>4. ThreadsConsistent' BY DEF ThreadsConsistent
<1>5. Ticketed' = Ticketed BY DEF Ticketed
<1>6. RingTickets' BY <1>5 DEF RingTickets
<1>7. TokensKept' BY DEF TokensKept, Holds, Offers
<1>8. SweepSound' BY DEF SweepSound
<1>9. ActiveCounted' BY ActiveUntouched DEF Alive
<1> QED BY <1>1, <1>3, <1>4, <1>6, <1>7, <1>8, <1>9

LEMMA NextKeepsIInv == IInv /\ [Next]_vars => IInv'
BY AddNodeKeepsIInv, RunParallelKeepsIInv, RunSerialKeepsIInv, SeedKeepsIInv, SpawnKeepsIInv,
   JoinedKeepsIInv, ScanNodeKeepsIInv, SweepEndsKeepsIInv, ThreadStepKeepsIInv, UnchangedKeepsIInv
DEF Next, CallerStep, Over

(* The invariant behind the theorems below holds in every reachable state. *)
THEOREM Invariance == SafeSpec => []IInv
BY InitIInv, NextKeepsIInv, PTL DEF SafeSpec

(* Every variable keeps its type; in particular every index into the nodes   *)
(* and the ring stays in its array, and active_ never drops below zero.      *)
THEOREM TypeCorrect == SafeSpec => []TypeOK
<1>1. IInv => TypeOK BY DEF IInv
<1> QED BY <1>1, Invariance, PTL

(* The claim in process_node: a node's function is called at most once, however *)
(* many threads finish its dependencies at the same time.                    *)
THEOREM FunctionsRunOnce == SafeSpec => []RunsOnce
<1>1. IInv => RunsOnce BY DEF IInv, WorkOwned, RunsOnce
<1> QED BY <1>1, Invariance, PTL

(* No function runs before those of all the node's dependencies returned. *)
THEOREM DependenciesFirst == SafeSpec => []DepsDoneFirst
<1>1. IInv => DepsDoneFirst
  <2> SUFFICES ASSUME IInv, NEW t \in Threads, pc[t] = "running", NEW d \in deps[node[t]]
               PROVE  state[d] = "Done"
    BY DEF DepsDoneFirst
  <2>1. node[t] \in Nodes /\ state[node[t]] = "Running"
    BY IndexIsNode DEF IInv, WorkOwned, TypeOK
  <2> QED BY <2>1 DEF IInv, DepsTold
<1> QED BY <1>1, Invariance, PTL

(* The spin in enqueue never spins: with a slot for every node, the slot of  *)
(* a ticket just taken is free.                                              *)
THEOREM RingNeverFull == SafeSpec => []EnqueueNeverWaits
<1>1. IInv => EnqueueNeverWaits
  <2> SUFFICES ASSUME IInv, NEW t \in Threads, pc[t] = "await_slot"
               PROVE  ring_seq[Slot(pos[t])] = pos[t]
    BY DEF EnqueueNeverWaits
  <2>1. pos[t] \in Nat /\ pos[t] < enqueue_pos /\ ring_seq[pos[t]] = pos[t]
    BY DEF IInv, RingTickets, TypeOK, WritePlaces, EnqueuePlaces
  <2> QED BY <2>1, TicketsFit DEF IInv
<1> QED BY <1>1, Invariance, PTL

(* A runnable node is in one thread's hands or in one published ticket, and  *)
(* no other node is: enqueue and try_dequeue neither lose nor duplicate it.  *)
THEOREM TokensNeitherLostNorDoubled == SafeSpec => []TokenInOnePlace
<1>1. IInv => TokenInOnePlace
  <2> SUFFICES ASSUME IInv, mode \in {"seeding", "parallel"}, NEW n \in Nodes
               PROVE  Cardinality({t \in Threads : Holds(t, n)})
                        + Cardinality({p \in dequeue_pos..(enqueue_pos - 1) : Offers(p, n)})
                      = IF state[n] = "Runnable" THEN 1 ELSE 0
    BY DEF TokenInOnePlace
  <2> DEFINE H == {t \in Threads : Holds(t, n)}
             F == {p \in dequeue_pos..(enqueue_pos - 1) : Offers(p, n)}
  <2>1. CASE state[n] # "Runnable"
    <3>1. H = {} /\ F = {} BY <2>1 DEF IInv, TokensKept
    <3> QED BY <2>1, <3>1, FS_EmptySet
  <2>2. CASE state[n] = "Runnable"
    <3>1. \/ F = {} /\ \E t : H = {t}
          \/ H = {} /\ \E p : F = {p}
      <4>1. CASE \E t \in Threads : Holds(t, n)
        <5>1. PICK t \in Threads : Holds(t, n) BY <4>1
        <5>2. H = {t} /\ F = {} BY <5>1 DEF IInv, TokensKept
        <5> QED BY <5>2
      <4>2. CASE \E p \in dequeue_pos..(enqueue_pos - 1) : Offers(p, n)
        <5>1. PICK p \in dequeue_pos..(enqueue_pos - 1) : Offers(p, n) BY <4>2
        <5>2. F = {p} /\ H = {} BY <5>1 DEF IInv, TokensKept
        <5> QED BY <5>2
      <4> QED BY <2>2, <4>1, <4>2 DEF IInv, TokensKept
    <3> HIDE DEF H, F
    <3>2. \/ Cardinality(F) = 0 /\ Cardinality(H) = 1
          \/ Cardinality(H) = 0 /\ Cardinality(F) = 1
      BY <3>1, FS_EmptySet, FS_Singleton
    <3>3. Cardinality(H) + Cardinality(F) = 1 BY <3>2
    <3> QED BY <2>2, <3>3 DEF H, F
  <2> QED BY <2>1, <2>2
<1> QED BY <1>1, Invariance, PTL

(* run_parallel joins its threads, and run_serial stops sweeping, only after *)
(* every function was called and returned.                                   *)
THEOREM RunsReturnComplete == SafeSpec => []ReturnsComplete
<1>1. IInv => ReturnsComplete BY DEF IInv
<1> QED BY <1>1, Invariance, PTL

-----------------------------------------------------------------------------
(* The executor implements DagRun.                                           *)

LEMMA InitRefines == Init => Promise!Init
BY DEF Init, Promise!Init, Nodes

LEMMA StepRefines == IInv /\ [Next]_vars => [Promise!Next]_(Promise!dagVars)
<1> SUFFICES ASSUME IInv, [Next]_vars PROVE [Promise!Next]_(Promise!dagVars) OBVIOUS
<1> DEFINE started  == {n \in Nodes : state[n] \in {"Running", "Done"}}
           finished == {n \in Nodes : state[n] = "Done"}
<1> USE DEF Promise!dagVars
<1>0. Nodes' = Nodes BY DEF Nodes
<1>a. ASSUME UNCHANGED <<count, deps>>, mode' = "returned" <=> mode = "returned",
             \A n \in Nodes : /\ state'[n] \in {"Running", "Done"} <=> state[n] \in {"Running", "Done"}
                              /\ state'[n] = "Done" <=> state[n] = "Done"
      PROVE  UNCHANGED Promise!dagVars
  BY <1>0, <1>a
<1>1. CASE AddNode
  <2>1. mode = "adding" /\ mode' = mode /\ state' = state /\ \A n \in Nodes : state[n] = "Pending"
    BY <1>1, NothingRanYet DEF AddNode
  <2>2. \E D \in SUBSET (0..(count - 1)) : deps' = [deps EXCEPT ![count] = D]
    BY <1>1 DEF AddNode, EarlierDeps
  <2>3. Promise!Add
    BY <1>0, <1>1, <2>1, <2>2 DEF AddNode, Promise!Add
  <2> QED BY <2>3 DEF Promise!Next
<1>2. CASE RunParallel \/ RunSerial
  <2>1. /\ mode = "adding" /\ UNCHANGED <<state, count, deps>>
        /\ \A n \in Nodes : state[n] = "Pending"
        /\ mode' = "returned" => count = 0
    BY <1>2, NothingRanYet DEF RunParallel, RunSerial, graphVars
  <2>2. CASE mode' # "returned" BY <1>a, <2>1, <2>2
  <2>3. CASE mode' = "returned"
    <3>1. finished = 0..(count - 1) /\ started' = started /\ finished' = finished
      BY <1>0, <2>1, <2>3
    <3>2. Promise!Return BY <2>1, <2>3, <3>1 DEF Promise!Return
    <3> QED BY <3>2 DEF Promise!Next
  <2> QED BY <2>2, <2>3
<1>3. CASE Seed
  <2>1. /\ UNCHANGED <<count, deps, mode>>
        /\ \/ state' = state
           \/ /\ state[node[Main]] = "Pending"
              /\ state' = [state EXCEPT ![node[Main]] = "Runnable"]
    BY <1>3 DEF Seed, Swaps, graphVars
  <2> QED BY <1>a, <2>1 DEF IInv, TypeOK
<1>4. CASE Spawn
  <2>1. mode # "returned" /\ mode' # "returned" /\ UNCHANGED <<count, deps, state>>
    BY <1>4 DEF Spawn, graphVars, IInv, ThreadsConsistent
  <2> QED BY <1>a, <2>1
<1>5. CASE ScanNode
  <2>1. UNCHANGED <<count, deps, mode, state>> BY <1>5 DEF ScanNode, graphVars
  <2> QED BY <1>a, <2>1
<1>6. CASE Joined \/ SweepEnds
  <2>1. /\ mode \in {"parallel", "serial"} /\ UNCHANGED <<state, count, deps>>
        /\ mode' = mode \/ mode' = "returned"
    <3>1. CASE Joined
      <4>1. mode = "parallel"
        BY <3>1 DEF Joined, IInv, TypeOK, ThreadsConsistent, Threads, EnqueuePlaces, ReportPlaces
      <4> QED BY <3>1, <4>1 DEF Joined, graphVars
    <3>2. CASE SweepEnds BY <3>2, AtRest DEF SweepEnds, graphVars
    <3> QED BY <1>6, <3>1, <3>2
  <2>2. CASE mode' # "returned" BY <1>a, <2>1, <2>2
  <2>3. CASE mode' = "returned"
    <3>1. \A n \in 0..(count - 1) : state[n] = "Done"
      BY <2>1, <2>3, NextKeepsIInv DEF IInv, ReturnsComplete
    <3>2. finished = 0..(count - 1)
      <4>1. 0..(count - 1) \subseteq Nodes BY DagAssumption DEF IInv, TypeOK, Nodes
      <4>2. \A n \in Nodes : state[n] = "Done" => n \in 0..(count - 1)
        BY DEF IInv, GraphShape, Nodes, TypeOK
      <4> QED BY <3>1, <4>1, <4>2
    <3>3. started' = started /\ finished' = finished BY <1>0, <2>1
    <3>4. Promise!Return BY <2>1, <2>3, <3>2, <3>3 DEF Promise!Return
    <3> QED BY <3>4 DEF Promise!Next
  <2> QED BY <2>1, <2>2, <2>3
<1>7. ASSUME NEW t \in Threads, ThreadStep(t) PROVE [Promise!Next]_(Promise!dagVars)
  <2>0. UNCHANGED <<count, deps, mode>>
    BY <1>7 DEF ThreadStep, Dequeues, Processes, Enqueues, LoadPos, CheckSeq, TakePos, LosePos,
       ReadToken, FreeSlot, ClaimRunnable, ClaimPending, ClaimFrom, FnReturns, Notify,
       MakeRunnable, NotifyEnds, Count, TakeTicket, AwaitSlot, PutToken, Publish, CheckDone,
       Leave, graphVars
  <2>1. CASE ClaimRunnable(t) \/ ClaimPending(t)
    <3>1. CASE state' = state BY <1>a, <2>0, <3>1
    <3>2. CASE state' # state
      <4>1. /\ state[node[t]] \in {"Runnable", "Pending"} /\ pc[t] \in {"claim", "claim_pending"}
            /\ state' = [state EXCEPT ![node[t]] = "Running"] /\ pc'[t] = "running"
        BY <2>1, <3>2 DEF ClaimRunnable, ClaimPending, ClaimFrom, Swaps, Go, IInv, TypeOK
      <4>2. node[t] \in Nodes /\ node[t] < count
        <5>1. node'[t] < count' /\ node' = node /\ count' = count
          BY <2>0, <2>1, <4>1, NextKeepsIInv
          DEF ClaimRunnable, ClaimPending, ClaimFrom, localVars, IInv, WorkOwned
        <5> QED BY <5>1, IndexIsNode DEF IInv, TypeOK
      <4>3. \A d \in deps[node[t]] : state[d] = "Done" /\ d \in Nodes
        <5>1. state'[node[t]] = "Running" BY <4>1, <4>2 DEF IInv, TypeOK
        <5>2. deps'[node[t]] \subseteq deps_seen'[node[t]]
          BY <1>0, <4>2, <5>1, NextKeepsIInv DEF IInv, DepsTold
        <5>3. deps_seen' = deps_seen /\ deps' = deps
          BY <2>0, <2>1 DEF ClaimRunnable, ClaimPending, ClaimFrom
        <5> QED BY <4>2, <5>2, <5>3 DEF IInv, DepsTold, TypeOK
      <4>4. /\ node[t] \notin started /\ started' = started \cup {node[t]}
            /\ finished' = finished /\ deps[node[t]] \subseteq finished
        BY <1>0, <4>1, <4>2, <4>3 DEF IInv, TypeOK
      <4>5. mode # "returned" /\ mode' = mode
        BY <1>7, <2>0, <4>1 DEF IInv, ThreadsConsistent, Threads
      <4>6. Promise!Start(node[t])
        BY <2>0, <4>4, <4>5 DEF Promise!Start
      <4>7. node[t] \in 0..(count - 1) BY <4>2 DEF Nodes, IInv, TypeOK
      <4>8. \E n \in 0..(count - 1) : Promise!Start(n) \/ Promise!Finish(n)
        BY ONLY <4>6, <4>7 DEF Promise!Start
      <4>9. Promise!Next BY ONLY <4>8 DEF Promise!Next
      <4> QED BY ONLY <4>9
    <3> QED BY <3>1, <3>2
  <2>2. CASE FnReturns(t)
    <3>1. /\ node[t] \in Nodes /\ node[t] < count /\ state[node[t]] = "Running"
          /\ state' = [state EXCEPT ![node[t]] = "Done"] /\ pc[t] = "running"
      BY <2>2, IndexIsNode DEF FnReturns, IInv, WorkOwned, TypeOK
    <3>2. /\ node[t] \in started \ finished /\ started' = started
          /\ finished' = finished \cup {node[t]}
      BY <1>0, <3>1 DEF IInv, TypeOK
    <3>3. mode # "returned" /\ mode' = mode
      BY <1>7, <2>0, <3>1 DEF IInv, ThreadsConsistent, Threads
    <3>4. Promise!Finish(node[t]) BY <2>0, <3>2, <3>3 DEF Promise!Finish
    <3>5. node[t] \in 0..(count - 1) BY <3>1 DEF Nodes, IInv, TypeOK
    <3>6. \E n \in 0..(count - 1) : Promise!Start(n) \/ Promise!Finish(n)
      BY ONLY <3>4, <3>5 DEF Promise!Finish
    <3>7. Promise!Next BY ONLY <3>6 DEF Promise!Next
    <3> QED BY ONLY <3>7
  <2>3. CASE MakeRunnable(t)
    <3>1. \/ state' = state
          \/ /\ state[ready[t]] = "Pending" /\ state' = [state EXCEPT ![ready[t]] = "Runnable"]
      BY <2>3 DEF MakeRunnable, Swaps
    <3>2. \A n \in Nodes : /\ state'[n] \in {"Running", "Done"} <=> state[n] \in {"Running", "Done"}
                           /\ state'[n] = "Done" <=> state[n] = "Done"
      BY <3>1 DEF IInv, TypeOK
    <3> QED BY <1>a, <2>0, <3>2
  <2>4. CASE ~ (ClaimRunnable(t) \/ ClaimPending(t) \/ FnReturns(t) \/ MakeRunnable(t))
    <3>1. state' = state
      BY <1>7, <2>4 DEF ThreadStep, Dequeues, Processes, Enqueues, LoadPos, CheckSeq, TakePos,
         LosePos, ReadToken, FreeSlot, Notify, NotifyEnds, Count, TakeTicket, AwaitSlot,
         PutToken, Publish, CheckDone, Leave
    <3>2. UNCHANGED Promise!dagVars BY <1>a, <2>0, <3>1
    <3> QED BY ONLY <3>2
  <2> QED BY <2>1, <2>2, <2>3, <2>4
<1>8. CASE UNCHANGED vars BY <1>a, <1>8 DEF vars, graphVars
<1> QED BY <1>1, <1>2, <1>3, <1>4, <1>5, <1>6, <1>7, <1>8 DEF Next, CallerStep, Over

(* A run of the executor is a run of DagRun: every function is called once,  *)
(* after the functions of its dependencies returned, and the run returns     *)
(* when all have, however the pool's threads interleave.                     *)
THEOREM ImplementsDagRun == SafeSpec => DagRunSpec
<1>1. SafeSpec => [](IInv) BY Invariance
<1> QED BY <1>1, InitRefines, StepRefines, PTL DEF SafeSpec, DagRunSpec, Promise!Spec
=============================================================================
