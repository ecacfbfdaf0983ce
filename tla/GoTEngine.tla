------------------------------ MODULE GoTEngine ------------------------------
(***************************************************************************)
(* Graph-of-thought evaluation of one prompt, the command /got             *)
(* (src/engine/got_engine.cpp).                                            *)
(*                                                                         *)
(* run() launches one worker per branch, each with an API client of its    *)
(* own, collects their answers in branch order, scores them, merges those  *)
(* that reach the threshold (or, failing that, the best one) through one   *)
(* more request, and stores the graph of the run as a row of metrics.      *)
(* Node 0 is the prompt, node b the answer of branch b, node B + 1 the     *)
(* merged answer.  The workers run at the same time as the main thread,    *)
(* and answer in any order.  Scores are in hundredths.                     *)
(***************************************************************************)
EXTENDS Integers, Sequences, FiniteSets, FiniteSetsExt

CONSTANTS B,          \* options_.num_branches
          Threshold,  \* options_.prune_threshold, in ten-thousandths
          Qualities   \* what the scores look at in an answer with content

Quality == [balanced : BOOLEAN, closed : BOOLEAN, hits : 0..100, density : 0..100]

ASSUME EngineAssumption ==
    /\ B \in Nat \ {0}
    /\ Threshold \in 4001..10000
    /\ Qualities \subseteq Quality

VARIABLES
    pc,           \* where run() is
    significant,  \* does the prompt have tokens that constraint_score looks for?
    mode,         \* how each branch was launched
    outcome,      \* the future of each branch: <<>> until its worker returned
    nodes,        \* nodes_[0 .. node_count_ - 1]
    edges,        \* edges_[0 .. edge_count_ - 1]
    kept, pruned, best_conf, best_idx,  \* the locals of run()
    agg_conf,     \* nodes_[B + 1].confidence, while that node is not counted yet
    usage,        \* history: usage records of each branch in this run
    metrics,      \* history: the row this run stored, if any
    result        \* what run() returned

scores == <<kept, pruned, best_conf, best_idx>>
vars == <<pc, significant, mode, outcome, nodes, edges, scores, agg_conf, usage,
          metrics, result>>

Branches == 1..B
Agg == B + 1

(* What a worker returns: not ok, ok without content, or ok with content.  *)
Failed == [ok |-> FALSE, content |-> <<>>]
Blank  == [ok |-> TRUE, content |-> <<>>]
Outcomes == {Failed, Blank} \cup {[ok |-> TRUE, content |-> <<q>>] : q \in Qualities}
Empty(a) == a.content = <<>>

-----------------------------------------------------------------------------
Clamp(x) == IF x < 0 THEN 0 ELSE IF x > 100 THEN 100 ELSE x

SyntaxScore(a) ==
    IF Empty(a) THEN 0
    ELSE Clamp((IF a.content[1].balanced THEN 100 ELSE 50)
               + (IF a.content[1].closed THEN 20 ELSE -20))

(* A prompt without significant tokens puts no constraint on the answer.   *)
ConstraintScore(a) ==
    IF ~ significant THEN 100 ELSE IF Empty(a) THEN 0 ELSE a.content[1].hits

DensityScore(a) == IF Empty(a) THEN 0 ELSE a.content[1].density

Confidence(a) == 40 * SyntaxScore(a) + 40 * ConstraintScore(a) + 20 * DensityScore(a)

Node(kind, confidence, empty) ==
    [kind |-> kind, confidence |-> confidence, empty |-> empty]

NodeAt(i) == nodes[i + 1]

Passes(confidence) == confidence >= Threshold

(* Mutant: every answer that scores replaces the best one. *)
ImprovesAlways(confidence) == confidence > 0

(* Is this the best answer so far? *)
Improves(confidence) == confidence > best_conf

(* record_branch_usage: only a request that succeeded used tokens. *)
CountsUsage(a) == a.ok

(* Mutant: the tracker is handed to the branch clients as well. *)
AllClients == 0..B

(* The clients with a usage tracker: the primary one (0), no branch's.     *)
TrackedClients == {0}

-----------------------------------------------------------------------------
Init ==
    /\ pc = "idle"
    /\ significant \in BOOLEAN
    /\ mode = [b \in Branches |-> "none"]
    /\ outcome = [b \in Branches |-> <<>>]
    /\ nodes = <<>> /\ edges = <<>>
    /\ kept = 0 /\ pruned = 0 /\ best_conf = 0 /\ best_idx = 0
    /\ agg_conf = 0
    /\ usage = [b \in Branches |-> 0]
    /\ metrics = <<>>
    /\ result = "none"

(* Mutant: the edge count of the run before is not reset. *)
StaleEdges == edges

(* edge_count_ = 0 *)
FreshEdges == <<>>

(* The REPL calls run() with a prompt; the graph of the run before is gone. *)
Begin ==
    /\ pc = "idle"
    /\ pc' = "launch"
    /\ significant' \in BOOLEAN
    /\ mode' = [b \in Branches |-> "none"]
    /\ outcome' = [b \in Branches |-> <<>>]
    /\ nodes' = <<Node("root", 10000, FALSE)>> /\ edges' = FreshEdges
    /\ kept' = 0 /\ pruned' = 0 /\ best_conf' = 0 /\ best_idx' = 0
    /\ usage' = [b \in Branches |-> 0]
    /\ metrics' = <<>>
    /\ result' = "none"
    /\ UNCHANGED agg_conf

(* The next branch gets a thread or, when none can be created, a deferred  *)
(* task that will run inside get().                                        *)
Launch ==
    /\ pc = "launch"
    /\ \E b \in Branches :
         /\ mode[b] = "none" /\ \A c \in 1..(b - 1) : mode[c] # "none"
         /\ \E m \in {"async", "deferred"} : mode' = [mode EXCEPT ![b] = m]
         /\ pc' = IF b = B THEN "collect" ELSE "launch"
    /\ UNCHANGED <<significant, outcome, nodes, edges, scores, agg_conf, usage, metrics,
                   result>>

(* A worker's request ends, in one way or another. *)
BranchAnswers(b) ==
    /\ mode[b] = "async" /\ outcome[b] = <<>>
    /\ \E a \in Outcomes :
         /\ outcome' = [outcome EXCEPT ![b] = <<a>>]
         /\ usage' = [usage EXCEPT ![b] = @ + (IF a.ok /\ b \in TrackedClients THEN 1 ELSE 0)]
    /\ UNCHANGED <<pc, significant, mode, nodes, edges, scores, agg_conf, metrics, result>>

(* The branch whose answer is collected next. *)
Awaited == Len(nodes)

(* An iteration of the loop over the futures, with answer a. *)
Collects(b, a) ==
    /\ nodes' = Append(nodes, Node("branch", Confidence(a), Empty(a)))
    /\ edges' = Append(edges, <<0, b>>)
    /\ usage' = [usage EXCEPT ![b] = @ + (IF CountsUsage(a) THEN 1 ELSE 0)]
    /\ kept' = kept + (IF Passes(Confidence(a)) THEN 1 ELSE 0)
    /\ pruned' = pruned + (IF Passes(Confidence(a)) THEN 0 ELSE 1)
    /\ best_conf' = (IF Improves(Confidence(a)) THEN Confidence(a) ELSE best_conf)
    /\ best_idx' = (IF Improves(Confidence(a)) THEN b ELSE best_idx)
    /\ pc' = IF b = B THEN "aggregate" ELSE "collect"
    /\ UNCHANGED <<significant, mode, agg_conf, metrics, result>>

Collect ==
    /\ pc = "collect"
    /\ mode[Awaited] = "async" /\ outcome[Awaited] # <<>>
    /\ Collects(Awaited, outcome[Awaited][1])
    /\ UNCHANGED outcome

(* get() runs a deferred task.  The task holds a reference to the launch   *)
(* loop's b, which is out of scope: it finds there the awaited branch (the *)
(* collecting loop's variable took the same place) or the value the launch *)
(* loop ended with, one past the last client.                              *)
CollectDeferred ==
    /\ pc = "collect"
    /\ mode[Awaited] = "deferred"
    /\ \E client \in {Awaited, B + 1} :
         \/ /\ client \in Branches
            /\ \E a \in Outcomes :
                 /\ outcome' = [outcome EXCEPT ![Awaited] = <<a>>]
                 /\ Collects(Awaited, a)
         \/ /\ client \notin Branches
            /\ pc' = "crashed"
            /\ UNCHANGED <<significant, mode, outcome, nodes, edges, scores, agg_conf, usage,
                           metrics, result>>

-----------------------------------------------------------------------------
(* Mutant: strictly above the threshold, which is not how kept is counted. *)
UsableStrictly(b) == NodeAt(b).confidence > Threshold /\ ~ NodeAt(b).empty

Usable(b) == Passes(NodeAt(b).confidence) /\ ~ NodeAt(b).empty

(* The best answer, when no answer passes and there is a best one. *)
Fallback ==
    {b \in {best_idx} : best_conf > 0 /\ ~ NodeAt(b).empty}

(* The branches whose answers are merged. *)
Chosen ==
    LET usable == {b \in Branches : Usable(b)}
    IN  IF usable # {} THEN usable ELSE Fallback

(* The n-th of the branches in S. *)
NthOf(S, n) == CHOOSE b \in S : Cardinality({c \in S : c <= b}) = n

EdgesTo(to, S) == [n \in 1..Cardinality(S) |-> <<NthOf(S, n), to>>]

(* The aggregate's confidence: the mean over the merged answers. *)
MeanConfidence(S) ==
    LET sum[b \in 0..B] ==
            IF b = 0 THEN 0
            ELSE sum[b - 1] + (IF b \in S THEN NodeAt(b).confidence ELSE 0)
    IN  sum[B] \div Cardinality(S)

(* persist_metrics: the graph as it is counted, or nothing if the database *)
(* cannot be opened or refuses the row.                                    *)
Row(ns, es) ==
    [nodes |-> ns, edges |-> es, kept |-> kept, pruned |-> pruned,
     best |-> Max({0} \cup {ns[i].confidence : i \in 2..Len(ns)})]

PersistMetrics(ns, es) == metrics' \in {<<>>, <<Row(ns, es)>>}

Aggregate ==
    /\ pc = "aggregate"
    /\ edges' = edges \o EdgesTo(Agg, Chosen)
    /\ \/ /\ Chosen # {}
          /\ agg_conf' = MeanConfidence(Chosen)
          /\ pc' = "stream"
          /\ UNCHANGED <<metrics, result>>
       \/ /\ Chosen = {}
          /\ PersistMetrics(nodes, edges)
          /\ result' = "no_candidate" /\ pc' = "idle"
          /\ UNCHANGED agg_conf
    /\ UNCHANGED <<significant, mode, outcome, nodes, scores, usage>>

(* The merging request failed: the aggregate is never counted as a node.   *)
SynthesisFails ==
    /\ pc = "stream"
    /\ PersistMetrics(nodes, edges)
    /\ result' = "stream_failed" /\ pc' = "idle"
    /\ UNCHANGED <<significant, mode, outcome, nodes, edges, scores, agg_conf, usage>>

SynthesisDone ==
    /\ pc = "stream"
    /\ nodes' = Append(nodes, Node("aggregate", agg_conf, FALSE))
    /\ PersistMetrics(nodes', edges)
    /\ result' = "answer" /\ pc' = "idle"
    /\ UNCHANGED <<significant, mode, outcome, edges, scores, agg_conf, usage>>

(* The process is gone after the access past the last client. *)
Over == pc = "crashed" /\ UNCHANGED vars

Next == Begin \/ Launch \/ Collect \/ CollectDeferred \/ Aggregate
        \/ SynthesisFails \/ SynthesisDone \/ Over
        \/ \E b \in Branches : BranchAnswers(b)

Spec == Init /\ [][Next]_vars

-----------------------------------------------------------------------------
Confident == 0..10000
NodeType  == [kind : {"root", "branch", "aggregate"}, confidence : Confident,
              empty : BOOLEAN]
Futures   == {<<>>} \cup {<<a>> : a \in Outcomes}

TypeOK ==
    /\ pc \in {"idle", "launch", "collect", "aggregate", "stream", "crashed"}
    /\ significant \in BOOLEAN
    /\ mode \in [Branches -> {"none", "async", "deferred"}]
    /\ outcome \in [Branches -> Futures]
    /\ nodes \in Seq(NodeType)
    /\ edges \in Seq((0..B) \X (1..Agg))
    /\ kept \in 0..B /\ pruned \in 0..B
    /\ best_conf \in Confident /\ best_idx \in 0..B
    /\ agg_conf \in Confident
    /\ usage \in [Branches -> 0..1]
    /\ result \in {"none", "answer", "no_candidate", "stream_failed"}

(* The arrays of nodes and edges are allocated once, for B + 2 and 2B       *)
(* entries, and written without a check: no run writes past them, whichever *)
(* branches pass and whether or not the fallback adds its edge.             *)
GraphFits ==
    /\ Len(nodes) <= B + 2
    /\ Len(edges) <= 2 * B

(* The edges of the graph es that say which answers were merged. *)
Merged(es) == {e[1] : e \in {es[i] : i \in {j \in DOMAIN es : es[j][2] = Agg}}}

Confidences == [b \in Branches |-> Confidence(outcome[b][1])]
HaveContent == {b \in Branches : ~ Empty(outcome[b][1])}

(* The best of the answers with content is always among the merged ones,   *)
(* and a run gives up only when no branch has content: neither a failed    *)
(* branch that scores (a prompt without significant tokens gives an empty  *)
(* answer 0.40) nor the order of the answers can make the fallback miss.   *)
BestAnswerMerged ==
    /\ pc = "stream" =>
         \E b \in Merged(edges) \cap HaveContent :
             \A c \in HaveContent : Confidences[b] >= Confidences[c]
    /\ result = "no_candidate" => HaveContent = {}

(* The stored row tells what happened: node b is the answer of branch b,   *)
(* whatever order the workers finished in; "kept" is the number of merged  *)
(* answers, unless the only merged one is a fallback below the threshold;  *)
(* "best_confidence", taken over all nodes but the prompt, is the best     *)
(* branch's, never the aggregate's mean; and the edges join stored nodes,  *)
(* except after a failed synthesis, when they point to an aggregate that   *)
(* is not stored.                                                          *)
MetricsTellTheRun ==
    \A i \in DOMAIN metrics :
        LET row == metrics[i]
            merged == Cardinality(Merged(row.edges))
        IN  /\ \A b \in Branches : row.nodes[b + 1].confidence = Confidences[b]
            /\ row.kept + row.pruned = B
            /\ merged = row.kept \/ (row.kept = 0 /\ merged = 1)
            /\ row.best = Max({Confidences[b] : b \in Branches})
            /\ \/ result = "stream_failed"
               \/ \A j \in DOMAIN row.edges : row.edges[j][2] < Len(row.nodes)

(* Each branch whose request succeeded is in the usage ledger once, each   *)
(* other one never: run() records it, and the branch's client does not.    *)
UsageRecordedOnce ==
    pc \in {"aggregate", "stream"} =>
        \A b \in Branches : usage[b] = IF outcome[b][1].ok THEN 1 ELSE 0

-----------------------------------------------------------------------------
(* The inductive invariant behind these.                                   *)

(* The branches whose answers are in the graph. *)
Collected == 1..(Len(nodes) - 1)

ConfidenceOf(b) == Confidence(outcome[b][1])

(* No worker of a run that is over is still at work, and a run stores its    *)
(* row and its result when it ends.                                          *)
RunEnds ==
    /\ pc = "idle" => \A b \in Branches : mode[b] = "async" => outcome[b] # <<>>
    /\ pc # "idle" => metrics = <<>> /\ result = "none"
    /\ pc \in {"collect", "aggregate", "stream"} =>
          \A b \in Branches : mode[b] # "none"

(* While the run is on, the nodes are the answers collected so far, in       *)
(* branch order, each with its edge from the prompt.                         *)
GraphTellsTheAnswers == pc # "idle" =>
    /\ Len(nodes) \in 1..(B + 1)
    /\ pc = "launch" => Len(nodes) = 1
    /\ pc = "collect" => Len(nodes) <= B
    /\ pc \in {"aggregate", "stream"} => Len(nodes) = B + 1
    /\ Len(edges) >= Len(nodes) - 1
    /\ pc # "stream" => Len(edges) = Len(nodes) - 1
    /\ \A b \in Collected :
          /\ outcome[b] # <<>>
          /\ nodes[b + 1] = Node("branch", ConfidenceOf(b), Empty(outcome[b][1]))
          /\ edges[b] = <<0, b>>

(* So do the usage records... *)
UsageTellsTheAnswers == pc # "idle" =>
    \A b \in Branches :
        usage[b] = IF b \in Collected /\ outcome[b][1].ok THEN 1 ELSE 0

(* ... and the scores. *)
ScoresTellTheAnswers == pc # "idle" =>
    /\ kept = Cardinality({b \in Collected : Passes(ConfidenceOf(b))})
    /\ kept + pruned = Len(nodes) - 1
    /\ \A b \in Collected : ConfidenceOf(b) <= best_conf
    /\ best_conf > 0 => best_idx \in Collected /\ ConfidenceOf(best_idx) = best_conf

(* While the answers are merged, the edges past the branches' say which, and *)
(* the mean of their confidences is no better than the best one.             *)
MergeUnderWay == pc = "stream" =>
    /\ Chosen # {} /\ agg_conf <= best_conf
    /\ Len(edges) = B + Cardinality(Chosen)
    /\ \A n \in 1..Cardinality(Chosen) : edges[B + n] = EdgesTo(Agg, Chosen)[n]

IInv ==
    /\ TypeOK /\ RunEnds /\ GraphTellsTheAnswers /\ UsageTellsTheAnswers
    /\ ScoresTellTheAnswers /\ MergeUnderWay
    /\ GraphFits /\ BestAnswerMerged /\ MetricsTellTheRun
=============================================================================
