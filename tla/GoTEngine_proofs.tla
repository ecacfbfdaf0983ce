--------------------------- MODULE GoTEngine_proofs ---------------------------
(***************************************************************************)
(* A graph-of-thought run for any number of branches, any threshold above  *)
(* what an empty answer can score, and any answers in any order.           *)
(***************************************************************************)
EXTENDS GoTEngine, FiniteSetTheorems, SequenceTheorems, WellFoundedInduction, TLAPS

LEMMA BranchesFacts ==
    /\ B \in Nat /\ B >= 1 /\ Agg = B + 1
    /\ IsFiniteSet(Branches) /\ Cardinality(Branches) = B
BY EngineAssumption, FS_Interval DEF Branches, Agg

-----------------------------------------------------------------------------
(* The scores.                                                             *)

(* An answer without content scores at most 40 of 100, and only by a prompt  *)
(* that puts no constraint; one with content scores more than that then, and *)
(* never nothing.                                                            *)
LEMMA ConfidenceFacts ==
    ASSUME significant \in BOOLEAN, NEW a \in Outcomes
    PROVE  /\ Confidence(a) \in Nat /\ Confidence(a) <= 10000
           /\ Empty(a) => /\ Confidence(a) <= 4000
                          /\ significant => Confidence(a) = 0
           /\ ~ Empty(a) => /\ Confidence(a) > 0
                            /\ ~ significant => Confidence(a) > 4000
<1>1. CASE Empty(a)
  BY <1>1 DEF Confidence, SyntaxScore, ConstraintScore, DensityScore
<1>2. CASE ~ Empty(a)
  <2>1. PICK q \in Quality : a.content = <<q>>
    BY <1>2, EngineAssumption DEF Outcomes, Failed, Blank, Empty
  <2>2. /\ a.content[1] = q /\ q.balanced \in BOOLEAN /\ q.closed \in BOOLEAN
        /\ q.hits \in 0..100 /\ q.density \in 0..100
    BY <2>1 DEF Quality
  <2>3. SyntaxScore(a) \in 30..100 BY <1>2, <2>2 DEF SyntaxScore, Clamp
  <2>4. ConstraintScore(a) = IF significant THEN q.hits ELSE 100
    BY <1>2, <2>2 DEF ConstraintScore
  <2>5. DensityScore(a) = q.density BY <1>2, <2>2 DEF DensityScore
  <2>6. 40 * SyntaxScore(a) \in 1200..4000 BY <2>3
  <2>7. /\ 40 * ConstraintScore(a) \in 0..4000
        /\ ~ significant => 40 * ConstraintScore(a) = 4000
    <3>1. CASE significant BY <3>1, <2>2, <2>4
    <3>2. CASE ~ significant BY <3>2, <2>4
    <3> QED BY <3>1, <3>2
  <2>8. 20 * DensityScore(a) \in 0..2000 BY SMTT(40), <2>2, <2>5
  <2> DEFINE x == 40 * SyntaxScore(a)
             y == 40 * ConstraintScore(a)
             z == 20 * DensityScore(a)
  <2>9. Confidence(a) = x + y + z BY DEF Confidence
  <2> HIDE DEF x, y, z
  <2>10. x \in 1200..4000 /\ y \in 0..4000 /\ z \in 0..2000 BY <2>6, <2>7, <2>8 DEF x, y, z
  <2>11. Confidence(a) \in Nat /\ Confidence(a) <= 10000 /\ Confidence(a) > 0
    BY ONLY <2>9, <2>10
  <2>12. ASSUME ~ significant PROVE Confidence(a) > 4000
    <3>1. y = 4000 BY <2>7, <2>12 DEF y
    <3> QED BY ONLY <2>9, <2>10, <3>1
  <2> QED BY <1>2, <2>11, <2>12
<1> QED BY <1>1, <1>2

LEMMA InConfident == \A x : x \in Nat /\ x <= 10000 => x \in Confident
BY SMTT(40) DEF Confident

(* An answer that passes the threshold has content. *)
LEMMA PassersHaveContent ==
    ASSUME significant \in BOOLEAN, NEW a \in Outcomes, Passes(Confidence(a))
    PROVE  ~ Empty(a)
<1>1. Threshold > 4000 /\ Threshold \in Nat BY EngineAssumption
<1>2. Confidence(a) \in Nat /\ Confidence(a) > 4000
  <2>1. Confidence(a) \in Nat BY ConfidenceFacts
  <2>2. Confidence(a) >= Threshold BY DEF Passes
  <2> QED BY ONLY <1>1, <2>1, <2>2
<1> SUFFICES ASSUME Empty(a) PROVE FALSE OBVIOUS
<1>3. Confidence(a) <= 4000 BY ConfidenceFacts
<1> QED BY <1>2, <1>3

-----------------------------------------------------------------------------
(* The edges to the aggregate, and its confidence.                         *)

(* Counting up to a branch enumerates the branches in a set. *)
LEMMA NthOfFacts ==
    ASSUME NEW S, S \subseteq Branches
    PROVE  /\ Cardinality(S) \in 0..B /\ IsFiniteSet(S)
           /\ \A n \in 1..Cardinality(S) : NthOf(S, n) \in S
           /\ \A b \in S : \E n \in 1..Cardinality(S) : NthOf(S, n) = b
<1> DEFINE UpTo(b) == {c \in S : c <= b}
           rank == [b \in S |-> Cardinality(UpTo(b))]
           N == Cardinality(S)
<1>1. IsFiniteSet(S) /\ N \in Nat /\ N <= B
  BY BranchesFacts, FS_Subset, FS_CardinalityType
<1>2. \A b \in S : /\ UpTo(b) \subseteq S /\ IsFiniteSet(UpTo(b)) /\ b \in UpTo(b)
                   /\ Cardinality(UpTo(b)) \in 1..N
  <2>1. TAKE b \in S
  <2>2. UpTo(b) \in SUBSET S /\ b \in UpTo(b) BY DEF Branches
  <2> HIDE DEF UpTo
  <2>3. IsFiniteSet(UpTo(b)) /\ Cardinality(UpTo(b)) <= N
    BY <1>1, <2>2, FS_Subset
  <2>4. Cardinality(UpTo(b)) \in Nat BY <2>3, FS_CardinalityType
  <2>5. Cardinality(UpTo(b)) # 0 BY <2>2, <2>3, FS_EmptySet
  <2> HIDE DEF N
  <2> QED BY <1>1, <2>2, <2>3, <2>4, <2>5
<1>3. ASSUME NEW b \in S, NEW c \in S, b < c
      PROVE  Cardinality(UpTo(b)) < Cardinality(UpTo(c))
  <2>1. UpTo(b) \in SUBSET UpTo(c) /\ UpTo(b) # UpTo(c)
    <3>1. c \notin UpTo(b) /\ b \in Int /\ c \in Int BY <1>3 DEF Branches
    <3>2. \A d \in UpTo(b) : d \in UpTo(c) BY <1>3, <3>1 DEF Branches
    <3> QED BY <3>1, <3>2, <1>2
  <2>2. /\ Cardinality(UpTo(b)) <= Cardinality(UpTo(c))
        /\ Cardinality(UpTo(b)) # Cardinality(UpTo(c))
    <3> HIDE DEF UpTo
    <3>1. IsFiniteSet(UpTo(c)) BY <1>2
    <3> QED BY <2>1, <3>1, FS_Subset
  <2>3. Cardinality(UpTo(b)) \in Nat /\ Cardinality(UpTo(c)) \in Nat
    <3> HIDE DEF UpTo, N
    <3> QED BY <1>1, <1>2
  <2> QED BY <2>2, <2>3
<1>4. \A b, c \in S : Cardinality(UpTo(b)) = Cardinality(UpTo(c)) => b = c
  <2> SUFFICES ASSUME NEW b \in S, NEW c \in S, b # c
               PROVE  Cardinality(UpTo(b)) # Cardinality(UpTo(c))
    OBVIOUS
  <2>1. b < c \/ c < b BY DEF Branches
  <2>2. Cardinality(UpTo(b)) \in Nat /\ Cardinality(UpTo(c)) \in Nat
    <3> HIDE DEF UpTo, N
    <3> QED BY <1>1, <1>2
  <2> HIDE DEF UpTo
  <2> QED BY <2>1, <2>2, <1>3
<1>5. rank \in Injection(S, 1..N)
  <2> HIDE DEF UpTo, N
  <2>1. rank \in [S -> 1..N] BY <1>2
  <2> QED BY <2>1, <1>4 DEF Injection, IsInjective
<1>6. rank \in Surjection(S, 1..N)
  <2>1. IsFiniteSet(1..N) /\ Cardinality(1..N) = N
    <3> HIDE DEF N
    <3> QED BY <1>1, FS_Interval
  <2> HIDE DEF rank
  <2> QED BY <2>1, <1>5, FS_Injection
<1>7. \A n \in 1..N : \E b \in S : Cardinality(UpTo(b)) = n
  <2> HIDE DEF UpTo, N
  <2> QED BY <1>6 DEF Surjection
<1>8. \A n \in 1..N : NthOf(S, n) \in S /\ Cardinality(UpTo(NthOf(S, n))) = n
  BY <1>7 DEF NthOf
<1>9. \A b \in S : NthOf(S, Cardinality(UpTo(b))) = b
  <2> HIDE DEF UpTo, N
  <2> QED BY <1>2, <1>4, <1>8
<1> HIDE DEF UpTo
<1> QED BY <1>1, <1>2, <1>8, <1>9, BranchesFacts

(* EdgesTo has one edge for each branch of the set, and no other. *)
LEMMA EdgesToFacts ==
    ASSUME NEW S, S \subseteq Branches
    PROVE  /\ EdgesTo(Agg, S) \in Seq((0..B) \X (1..Agg))
           /\ Len(EdgesTo(Agg, S)) = Cardinality(S)
           /\ \A n \in 1..Cardinality(S) : /\ EdgesTo(Agg, S)[n][2] = Agg
                                           /\ EdgesTo(Agg, S)[n][1] = NthOf(S, n)
<1> DEFINE es == EdgesTo(Agg, S)
<1>1. Cardinality(S) \in Nat /\ \A n \in 1..Cardinality(S) : NthOf(S, n) \in Branches
  BY NthOfFacts, BranchesFacts
<1>2. \A n \in 1..Cardinality(S) : <<NthOf(S, n), Agg>> \in (0..B) \X (1..Agg)
  <2>1. Branches \subseteq 0..B /\ Agg \in 1..Agg BY BranchesFacts DEF Branches
  <2> QED BY <1>1, <2>1
<1>3. es \in [1..Cardinality(S) -> (0..B) \X (1..Agg)] BY <1>2 DEF EdgesTo
<1>4. es \in Seq((0..B) \X (1..Agg)) /\ Len(es) = Cardinality(S)
  <2> HIDE DEF es
  <2> QED BY <1>1, <1>3
<1>5. \A n \in 1..Cardinality(S) : es[n] = <<NthOf(S, n), Agg>> BY DEF EdgesTo
<1> QED BY <1>4, <1>5

LEMMA LeastNat ==
    ASSUME NEW T, T \subseteq Nat, T # {}
    PROVE  \E m \in T : \A k \in T : m <= k
<1> DEFINE Less == {p \in Nat \X Nat : p[1] < p[2]}
<1>1. IsWellFoundedOn(Less, Nat) BY NatLessThanWellFounded DEF OpToRel
<1>2. PICK x \in T : \A y \in T : ~ (<<y, x>> \in Less) BY <1>1, WFMin
<1>3. \A y \in T : x <= y
  <2>1. TAKE y \in T
  <2>2. x \in Nat /\ y \in Nat OBVIOUS
  <2>3. ~ (y < x) BY <1>2, <2>2
  <2> QED BY <2>2, <2>3
<1> QED BY <1>3

LEMMA Quotient ==
    ASSUME NEW a \in Nat, NEW c \in Nat \ {0}, NEW m \in Nat, a <= m * c
    PROVE  a \div c \in 0..m
<1>1. a \div c \in Nat /\ c * (a \div c) <= a OBVIOUS
<1>2. ASSUME a \div c > m PROVE FALSE
  <2>1. PICK d \in Nat : a \div c = m + 1 + d BY <1>1, <1>2
  <2>2. c * (m + 1 + d) <= m * c BY <1>1, <2>1
  <2>3. c * (m + 1 + d) = m * c + c + c * d OBVIOUS
  <2>4. c * d \in Nat /\ m * c \in Nat OBVIOUS
  <2> QED BY <2>2, <2>3, <2>4
<1> QED BY <1>1, <1>2

(* The mean of some confidences is at most the best of them. *)
LEMMA MeanBounded ==
    ASSUME NEW S, S \subseteq Branches, S # {}, NEW m \in Nat,
           \A b \in S : NodeAt(b).confidence \in 0..m
    PROVE  MeanConfidence(S) \in 0..m
<1> DEFINE conf(b) == IF b \in S THEN NodeAt(b).confidence ELSE 0
           Counted(n) == Cardinality(S \cap (1..n))
           Fits(f, n) == /\ f[0] = 0
                         /\ \A b \in 1..n : f[b] = f[b - 1] + conf(b)
                         /\ f[n] <= m * Counted(n)
           Good(n) == \E f \in [0..n -> Nat] : Fits(f, n)
           Rec(h) == h = [b \in 0..B |-> IF b = 0 THEN 0 ELSE h[b - 1] + conf(b)]
           g == CHOOSE h : Rec(h)
<1>1. \A b \in Branches : conf(b) \in Nat /\ conf(b) <= m OBVIOUS
<1>2. IsFiniteSet(S) BY BranchesFacts, FS_Subset
<1>3. \A n \in Nat : IsFiniteSet(S \cap (1..n)) /\ Counted(n) \in Nat
  BY <1>2, FS_Intersection, FS_CardinalityType
<1>4. Good(0)
  <2>1. S \cap (1..0) = {} OBVIOUS
  <2>2. Counted(0) = 0 BY <2>1, FS_EmptySet
  <2> DEFINE f == [b \in 0..0 |-> 0]
  <2>3. f \in [0..0 -> Nat] /\ Fits(f, 0) BY <2>2
  <2> QED BY <2>3
<1>5. ASSUME NEW n \in Branches, Good(n - 1) PROVE Good(n)
  <2>1. PICK f \in [0..(n - 1) -> Nat] : Fits(f, n - 1) BY <1>5
  <2>2. n \in Nat /\ n - 1 \in Nat /\ n >= 1 BY BranchesFacts DEF Branches
  <2> DEFINE h == [b \in 0..n |-> IF b = n THEN f[n - 1] + conf(n) ELSE f[b]]
  <2>3. f[n - 1] \in Nat BY <2>2
  <2>4. h \in [0..n -> Nat] BY <2>2, <2>3, <1>1
  <2>5. h[0] = 0 /\ \A b \in 1..n : h[b] = h[b - 1] + conf(b)
    <3> HIDE DEF conf
    <3> QED BY <2>1, <2>2
  <2>6. h[n] <= m * Counted(n)
    <3>1. h[n] = f[n - 1] + conf(n) BY <2>2
    <3>2. f[n - 1] <= m * Counted(n - 1) BY <2>1
    <3>3. CASE n \in S
      <4>1. S \cap (1..n) = (S \cap (1..(n - 1))) \cup {n} BY <2>2, <3>3
      <4>2. n \notin S \cap (1..(n - 1)) BY <2>2
      <4>3. Counted(n) = Counted(n - 1) + 1 BY <4>1, <4>2, <1>3, <2>2, FS_AddElement
      <4>4. m * Counted(n) = m * Counted(n - 1) + m
        <5>1. \A k \in Nat : m * (k + 1) = m * k + m OBVIOUS
        <5> HIDE DEF Counted
        <5> QED BY <4>3, <5>1, <1>3, <2>2
      <4>5. m * Counted(n - 1) \in Nat
        <5>1. \A k \in Nat : m * k \in Nat OBVIOUS
        <5> HIDE DEF Counted
        <5> QED BY <1>3, <2>2, <5>1
      <4> HIDE DEF Counted, conf, h
      <4> QED BY <3>1, <3>2, <4>4, <4>5, <2>3, <1>1
    <3>4. CASE n \notin S
      <4>1. S \cap (1..n) = S \cap (1..(n - 1)) BY <2>2, <3>4
      <4>2. conf(n) = 0 BY <3>4
      <4>3. Counted(n) = Counted(n - 1) BY <4>1
      <4> HIDE DEF Counted, conf, h
      <4> QED BY <3>1, <3>2, <4>2, <4>3, <2>3
    <3> QED BY <3>3, <3>4
  <2> HIDE DEF h, conf, Counted
  <2> QED BY <2>4, <2>5, <2>6
<1>6. Good(B)
  <2> DEFINE Bad == {n \in 0..B : ~ Good(n)}
  <2> HIDE DEF Good
  <2> SUFFICES ASSUME Bad # {} PROVE FALSE BY BranchesFacts
  <2>1. PICK n \in Bad : \A k \in Bad : n <= k
    <3>1. Bad \subseteq Nat BY BranchesFacts
    <3> HIDE DEF Bad
    <3> QED BY <3>1, LeastNat
  <2>2. n # 0 BY <1>4
  <2>3. n \in Branches /\ n - 1 \in 0..B /\ ~ (n <= n - 1)
    BY <2>2, BranchesFacts DEF Branches
  <2>4. Good(n - 1) BY <2>1, <2>3
  <2> QED BY <1>5, <2>3, <2>4
<1>7. PICK f \in [0..B -> Nat] : Fits(f, B) BY <1>6
<1>8. Rec(f)
  <2> DEFINE r == [b \in 0..B |-> IF b = 0 THEN 0 ELSE f[b - 1] + conf(b)]
  <2>1. \A b \in 0..B : f[b] = r[b]
    <3> HIDE DEF conf
    <3> QED BY <1>7, BranchesFacts
  <2> HIDE DEF conf
  <2> QED BY <2>1
<1>9. Rec(g)
  <2> HIDE DEF Rec
  <2> QED BY <1>8
<1>10. g[0] = 0 /\ \A b \in 1..B : g[b] = g[b - 1] + conf(b)
  <2> HIDE DEF g, conf
  <2>1. \A b \in 0..B : g[b] = IF b = 0 THEN 0 ELSE g[b - 1] + conf(b) BY <1>9
  <2> QED BY <2>1, BranchesFacts
<1>11. g[B] = f[B]
  <2> DEFINE Bad == {n \in 0..B : f[n] # g[n]}
  <2> HIDE DEF g, conf
  <2> SUFFICES ASSUME Bad # {} PROVE FALSE BY BranchesFacts
  <2>1. PICK n \in Bad : \A k \in Bad : n <= k
    <3>1. Bad \subseteq Nat BY BranchesFacts
    <3> HIDE DEF Bad
    <3> QED BY <3>1, LeastNat
  <2>2. n # 0 BY <1>7, <1>10
  <2>3. n \in 1..B /\ n - 1 \in 0..B /\ ~ (n <= n - 1) BY <2>2, BranchesFacts
  <2>4. f[n - 1] = g[n - 1] BY <2>1, <2>3
  <2> QED BY <2>3, <2>4, <1>7, <1>10
<1>12. MeanConfidence(S) = g[B] \div Cardinality(S) BY DEF MeanConfidence
<1>13. f[B] \in Nat /\ f[B] <= m * Cardinality(S)
  <2>1. S \cap (1..B) = S BY DEF Branches
  <2>2. f[B] <= m * Counted(B) BY <1>7
  <2>3. Counted(B) = Cardinality(S) BY <2>1
  <2>4. B \in 0..B BY BranchesFacts
  <2> HIDE DEF Counted
  <2> QED BY <2>2, <2>3, <2>4
<1>14. Cardinality(S) \in Nat \ {0} BY <1>2, FS_CardinalityType, FS_EmptySet
<1> HIDE DEF g
<1> QED BY <1>11, <1>12, <1>13, <1>14, Quotient

-----------------------------------------------------------------------------
(* What the invariant says of one branch.                                  *)

LEMMA AnswerType ==
    ASSUME TypeOK, NEW b \in Branches, outcome[b] # <<>>
    PROVE  outcome[b][1] \in Outcomes /\ outcome[b] = <<outcome[b][1]>>
<1>1. PICK a \in Outcomes : outcome[b] = <<a>> BY DEF TypeOK, Futures
<1> QED BY <1>1

(* A score depends on the answer and the prompt only. *)
LEMMA SameScores ==
    ASSUME significant' = significant
    PROVE  \A a : Confidence(a)' = Confidence(a)
BY DEF Confidence, SyntaxScore, ConstraintScore, DensityScore

LEMMA InitIInv == Init => IInv
<1> SUFFICES ASSUME Init PROVE IInv OBVIOUS
<1> USE DEF Init
<1>1. TypeOK
  <2>1. \A S : <<>> \in Seq(S) OBVIOUS
  <2>2. <<>> \in Futures /\ 0 \in Confident BY DEF Futures, Confident
  <2> QED BY <2>1, <2>2, BranchesFacts DEF TypeOK
<1>2. RunEnds BY DEF RunEnds
<1>3. GraphFits
  <2>1. Len(nodes) = 0 /\ Len(edges) = 0 OBVIOUS
  <2> QED BY <2>1, BranchesFacts DEF GraphFits
<1>4. BestAnswerMerged /\ MetricsTellTheRun BY DEF BestAnswerMerged, MetricsTellTheRun
<1> QED BY <1>1, <1>2, <1>3, <1>4
        DEF IInv, GraphTellsTheAnswers, UsageTellsTheAnswers, ScoresTellTheAnswers,
            MergeUnderWay

LEMMA BeginKeepsIInv == IInv /\ Begin => IInv'
<1> SUFFICES ASSUME IInv, Begin PROVE IInv' OBVIOUS
<1> USE DEF Begin
<1>1. Node("root", 10000, FALSE) \in NodeType BY DEF Node, NodeType, Confident
<1>2. Len(nodes') = 1 /\ Len(edges') = 0 BY DEF FreshEdges
<1>3. TypeOK'
  <2>1. \A S : <<>> \in Seq(S) /\ \A x \in S : <<x>> \in Seq(S) OBVIOUS
  <2>2. <<>> \in Futures /\ 0 \in Confident BY DEF Futures, Confident
  <2>3. agg_conf' \in Confident BY DEF IInv, TypeOK
  <2>4. nodes' \in Seq(NodeType)
    <3> DEFINE root == [kind |-> "root", confidence |-> 10000, empty |-> FALSE]
    <3>1. nodes' = <<root>> /\ root \in NodeType BY <1>1 DEF Node
    <3> HIDE DEF root
    <3> QED BY ONLY <3>1
  <2>5. edges' \in Seq((0..B) \X (1..Agg)) BY <2>1 DEF FreshEdges
  <2>6. /\ mode' \in [Branches -> {"none", "async", "deferred"}]
        /\ outcome' \in [Branches -> Futures] /\ usage' \in [Branches -> 0..1]
    BY <2>2
  <2>7. kept' \in 0..B /\ pruned' \in 0..B /\ best_idx' \in 0..B BY BranchesFacts
  <2>8. best_conf' \in Confident BY <2>2
  <2>9. pc' = "launch" /\ significant' \in BOOLEAN /\ result' = "none" OBVIOUS
  <2> QED BY ONLY <2>3, <2>4, <2>5, <2>6, <2>7, <2>8, <2>9 DEF TypeOK
<1>4. RunEnds' BY DEF RunEnds
<1>5. GraphTellsTheAnswers' BY <1>2, BranchesFacts DEF GraphTellsTheAnswers, Collected
<1>6. UsageTellsTheAnswers' BY <1>2 DEF UsageTellsTheAnswers, Collected
<1>7. ScoresTellTheAnswers'
  <2>1. Collected' = {} BY <1>2 DEF Collected
  <2>2. {b \in Collected : Passes(ConfidenceOf(b))}' = {} BY <2>1
  <2>3. Cardinality({}) = 0 BY FS_EmptySet
  <2> QED BY <1>2, <2>1, <2>2, <2>3 DEF ScoresTellTheAnswers
<1>8. MergeUnderWay' /\ BestAnswerMerged' /\ MetricsTellTheRun'
  BY DEF MergeUnderWay, BestAnswerMerged, MetricsTellTheRun
<1>9. GraphFits' BY <1>2, BranchesFacts DEF GraphFits
<1> QED BY <1>3, <1>4, <1>5, <1>6, <1>7, <1>8, <1>9 DEF IInv

(* The steps that change neither the graph, nor the answers in it, nor how   *)
(* far the run is with them.                                                 *)
LEMMA GraphUntouched ==
    ASSUME IInv, pc # "idle", pc' # "idle", pc' # "stream",
           pc \notin {"aggregate", "stream"}, pc' # "aggregate",
           pc' = "launch" => pc = "launch", pc' = "collect" => Len(nodes) <= B,
           UNCHANGED <<significant, nodes, edges, scores, agg_conf, usage, metrics, result>>,
           \A b \in Branches : outcome[b] # <<>> => outcome'[b] = outcome[b]
    PROVE  /\ GraphTellsTheAnswers' /\ UsageTellsTheAnswers' /\ ScoresTellTheAnswers'
           /\ MergeUnderWay' /\ GraphFits' /\ BestAnswerMerged' /\ MetricsTellTheRun'
<1> USE DEF IInv, scores
<1>1. /\ Collected' = Collected /\ Collected \subseteq Branches
      /\ \A b \in Collected : outcome[b] # <<>> /\ outcome'[b] = outcome[b]
  BY BranchesFacts DEF Collected, Branches, GraphTellsTheAnswers
<1>2. \A b \in Collected : ConfidenceOf(b)' = ConfidenceOf(b)
  BY <1>1, SameScores DEF ConfidenceOf
<1>3. GraphTellsTheAnswers' BY <1>1, <1>2 DEF GraphTellsTheAnswers
<1>4. UsageTellsTheAnswers' BY <1>1 DEF UsageTellsTheAnswers
<1>5. ScoresTellTheAnswers'
  <2>1. {b \in Collected : Passes(ConfidenceOf(b))}'
          = {b \in Collected : Passes(ConfidenceOf(b))}
    BY <1>1, <1>2 DEF Passes
  <2> QED BY <1>1, <1>2, <2>1 DEF ScoresTellTheAnswers
<1>6. MergeUnderWay' /\ GraphFits' BY DEF MergeUnderWay, GraphFits
<1>7. BestAnswerMerged' /\ MetricsTellTheRun'
  <2>1. metrics' = <<>> /\ result' = "none" BY DEF RunEnds
  <2> QED BY <2>1 DEF BestAnswerMerged, MetricsTellTheRun
<1> QED BY <1>3, <1>4, <1>5, <1>6, <1>7

LEMMA LaunchKeepsIInv == IInv /\ Launch => IInv'
<1> SUFFICES ASSUME IInv, Launch PROVE IInv' OBVIOUS
<1>1. PICK b \in Branches :
         /\ mode[b] = "none" /\ \A c \in 1..(b - 1) : mode[c] # "none"
         /\ \E m \in {"async", "deferred"} : mode' = [mode EXCEPT ![b] = m]
         /\ pc' = IF b = B THEN "collect" ELSE "launch"
  BY DEF Launch
<1>2. /\ pc = "launch"
      /\ UNCHANGED <<significant, outcome, nodes, edges, scores, agg_conf, usage,
                     metrics, result>>
  BY DEF Launch
<1>3. mode \in [Branches -> {"none", "async", "deferred"}] BY DEF IInv, TypeOK
<1>4. TypeOK'
  <2>1. mode' \in [Branches -> {"none", "async", "deferred"}] BY <1>1, <1>3
  <2> QED BY <1>1, <1>2, <2>1 DEF IInv, TypeOK, scores
<1>5. RunEnds'
  <2>1. pc' = "collect" => \A c \in Branches : mode'[c] # "none"
    BY <1>1, <1>3 DEF Branches
  <2> QED BY <1>1, <1>2, <2>1 DEF IInv, RunEnds
<1>6. Len(nodes) <= B BY <1>2, BranchesFacts DEF IInv, GraphTellsTheAnswers
<1> QED BY <1>1, <1>2, <1>4, <1>5, <1>6, GraphUntouched DEF IInv

LEMMA BranchAnswersKeepsIInv ==
    ASSUME NEW b \in Branches, IInv, BranchAnswers(b)
    PROVE  IInv'
<1>1. PICK a \in Outcomes :
         /\ outcome' = [outcome EXCEPT ![b] = <<a>>]
         /\ usage' = [usage EXCEPT ![b] =
                         @ + (IF a.ok /\ b \in TrackedClients THEN 1 ELSE 0)]
  BY DEF BranchAnswers
<1>2. /\ mode[b] = "async" /\ outcome[b] = <<>>
      /\ UNCHANGED <<pc, significant, mode, nodes, edges, scores, agg_conf, metrics, result>>
  BY DEF BranchAnswers
<1>3. outcome \in [Branches -> Futures] /\ usage \in [Branches -> 0..1]
  BY DEF IInv, TypeOK
<1>4. usage' = usage
  <2>1. b \notin TrackedClients BY DEF Branches, TrackedClients
  <2>2. usage' = [usage EXCEPT ![b] = usage[b] + 0] BY <1>1, <2>1
  <2>3. usage[b] + 0 = usage[b] BY <1>3
  <2> QED BY <1>3, <2>2, <2>3
<1>5. pc \notin {"idle", "aggregate", "stream"}
  <2>1. pc # "idle" BY <1>2 DEF IInv, RunEnds
  <2>2. b \notin Collected BY <1>2, <2>1 DEF IInv, GraphTellsTheAnswers
  <2>3. Len(nodes) # B + 1 BY <2>2, BranchesFacts DEF Collected, Branches
  <2> QED BY <2>1, <2>3 DEF IInv, GraphTellsTheAnswers
<1>6. \A c \in Branches : outcome[c] # <<>> => outcome'[c] = outcome[c]
  BY <1>1, <1>2, <1>3
<1>7. TypeOK'
  <2>1. <<a>> \in Futures BY DEF Futures
  <2>2. outcome' \in [Branches -> Futures] BY <1>1, <1>3, <2>1
  <2> QED BY <1>2, <1>4, <2>2 DEF IInv, TypeOK, scores
<1>8. RunEnds' BY <1>2, <1>5 DEF IInv, RunEnds
<1>9. pc' = "collect" => Len(nodes) <= B BY <1>2 DEF IInv, GraphTellsTheAnswers
<1> QED BY <1>2, <1>4, <1>5, <1>6, <1>7, <1>8, <1>9, GraphUntouched DEF IInv

(* The task of a failed launch reads past the last client. *)
LEMMA CrashKeepsIInv ==
    ASSUME IInv, pc = "collect", pc' = "crashed",
           UNCHANGED <<significant, mode, outcome, nodes, edges, scores, agg_conf, usage,
                       metrics, result>>
    PROVE  IInv'
<1>1. TypeOK' BY DEF IInv, TypeOK, scores
<1>2. RunEnds' BY DEF IInv, RunEnds
<1> QED BY <1>1, <1>2, GraphUntouched DEF IInv

(* An iteration of the loop over the futures, whoever ran the task. *)
LEMMA CollectsKeepsIInv ==
    ASSUME IInv, pc = "collect", NEW a \in Outcomes, Collects(Awaited, a),
           outcome' = [outcome EXCEPT ![Awaited] = <<a>>]
    PROVE  IInv'
<1>0. /\ TypeOK /\ RunEnds /\ GraphTellsTheAnswers /\ UsageTellsTheAnswers
      /\ ScoresTellTheAnswers /\ pc = "collect"
  BY DEF IInv
<1>t. /\ significant \in BOOLEAN /\ nodes \in Seq(NodeType)
      /\ outcome \in [Branches -> Futures] /\ edges \in Seq((0..B) \X (1..Agg))
      /\ kept \in 0..B /\ pruned \in 0..B /\ best_conf \in Confident
      /\ best_idx \in 0..B /\ usage \in [Branches -> 0..1]
  BY <1>0 DEF TypeOK
<1>1. PICK n \in Nat : n = Awaited BY <1>t DEF Awaited
<1>2. /\ n = Len(nodes) /\ n \in Branches /\ n <= B /\ n >= 1
      /\ Collected = 1..(n - 1) /\ Collected \subseteq Branches /\ n \notin Collected
  BY <1>0, <1>1, BranchesFacts DEF Awaited, Branches, Collected, GraphTellsTheAnswers
<1>3. /\ nodes' = Append(nodes, Node("branch", Confidence(a), Empty(a)))
      /\ edges' = Append(edges, <<0, n>>)
      /\ usage' = [usage EXCEPT ![n] = @ + (IF CountsUsage(a) THEN 1 ELSE 0)]
      /\ kept' = kept + (IF Passes(Confidence(a)) THEN 1 ELSE 0)
      /\ pruned' = pruned + (IF Passes(Confidence(a)) THEN 0 ELSE 1)
      /\ best_conf' = (IF Improves(Confidence(a)) THEN Confidence(a) ELSE best_conf)
      /\ best_idx' = (IF Improves(Confidence(a)) THEN n ELSE best_idx)
      /\ pc' = IF n = B THEN "aggregate" ELSE "collect"
      /\ UNCHANGED <<significant, mode, agg_conf, metrics, result>>
      /\ outcome' = [outcome EXCEPT ![n] = <<a>>]
  BY <1>1 DEF Collects
<1>4. Confidence(a) \in Nat /\ Confidence(a) <= 10000
  BY <1>t, ConfidenceFacts
<1>5. Empty(a) \in BOOLEAN BY DEF Empty
<1>6. /\ nodes' \in Seq(NodeType)
      /\ Len(nodes') = n + 1
      /\ nodes'[n + 1] = Node("branch", Confidence(a), Empty(a))
      /\ \A i \in 1..n : nodes'[i] = nodes[i]
  <2> DEFINE node == Node("branch", Confidence(a), Empty(a))
  <2>1. node \in NodeType
    <3>1. Confidence(a) \in Confident BY <1>4, InConfident
    <3> QED BY <1>5, <3>1 DEF Node, NodeType
  <2>3. nodes' = Append(nodes, node) BY <1>3
  <2> HIDE DEF node
  <2>4. /\ nodes' \in Seq(NodeType) /\ Len(nodes') = n + 1
        /\ nodes'[n + 1] = node /\ \A i \in 1..n : nodes'[i] = nodes[i]
    BY <1>t, <2>1, <2>3, <1>2
  <2> QED BY <2>4 DEF node
<1>7. /\ edges' \in Seq((0..B) \X (1..Agg)) /\ Len(edges') = n
      /\ edges'[n] = <<0, n>> /\ \A i \in 1..(n - 1) : edges'[i] = edges[i]
  <2>1. <<0, n>> \in (0..B) \X (1..Agg) BY <1>2, BranchesFacts
  <2>2. edges \in Seq((0..B) \X (1..Agg)) /\ Len(edges) = n - 1
    BY <1>0, <1>t, <1>2 DEF GraphTellsTheAnswers
  <2> QED BY <1>2, <1>3, <2>1, <2>2
<1>8. /\ outcome' \in [Branches -> Futures]
      /\ outcome'[n] = <<a>> /\ outcome'[n][1] = a
      /\ \A b \in Branches : b # n => outcome'[b] = outcome[b]
  <2>1. <<a>> \in Futures BY DEF Futures
  <2>2. outcome' \in [Branches -> Futures] BY <1>t, <1>3, <2>1
  <2>3. outcome'[n] = <<a>> BY <1>t, <1>2, <1>3
  <2>4. \A b \in Branches : b # n => outcome'[b] = outcome[b] BY <1>t, <1>2, <1>3
  <2> QED BY <2>2, <2>3, <2>4
<1>9. /\ ConfidenceOf(n)' = Confidence(a)
      /\ \A b \in Collected : ConfidenceOf(b)' = ConfidenceOf(b)
  BY <1>2, <1>3, <1>8, SameScores DEF ConfidenceOf
<1>10. Collected' = 1..n /\ Collected' = Collected \cup {n}
  BY <1>2, <1>6 DEF Collected
<1>11. usage[n] = 0 /\ usage \in [Branches -> 0..1]
  BY <1>0, <1>t, <1>2 DEF UsageTellsTheAnswers
<1>12. kept' + pruned' = n /\ kept' \in Nat /\ pruned' \in Nat
  BY SMTT(40), <1>0, <1>t, <1>2, <1>3 DEF ScoresTellTheAnswers
<1>13. TypeOK'
  <2>1. kept' \in 0..B /\ pruned' \in 0..B BY <1>2, <1>12, BranchesFacts
  <2>2. best_conf' \in Confident /\ best_idx' \in 0..B
    <3>1. n \in 0..B BY <1>2
    <3>2. Confidence(a) \in Confident BY <1>4, InConfident
    <3> QED BY <1>t, <1>3, <3>1, <3>2
  <2>3. usage' \in [Branches -> 0..1] BY <1>2, <1>3, <1>11
  <2> QED BY <1>0, <1>3, <1>6, <1>7, <1>8, <2>1, <2>2, <2>3 DEF TypeOK
<1>14. RunEnds' BY <1>0, <1>3 DEF RunEnds
<1>15. GraphTellsTheAnswers'
  <2>1. \A b \in Collected' :
          /\ outcome'[b] # <<>>
          /\ nodes'[b + 1] = Node("branch", ConfidenceOf(b)', Empty(outcome'[b][1]))
          /\ edges'[b] = <<0, b>>
    <3>1. TAKE b \in Collected'
    <3>2. CASE b = n BY <3>2, <1>6, <1>7, <1>8, <1>9
    <3>3. CASE b # n
      <4>1. b \in Collected /\ b + 1 \in 1..n /\ b \in 1..(n - 1) BY <3>3, <1>2, <1>10
      <4>2. nodes[b + 1] = Node("branch", ConfidenceOf(b), Empty(outcome[b][1]))
            /\ edges[b] = <<0, b>> /\ outcome[b] # <<>>
        BY <1>0, <4>1 DEF GraphTellsTheAnswers
      <4> QED BY <3>3, <4>1, <4>2, <1>2, <1>6, <1>7, <1>8, <1>9
    <3> QED BY <3>2, <3>3
  <2>2. pc' # "launch" /\ (pc' = "collect" => n + 1 <= B) /\ (pc' = "aggregate" => n = B)
    BY <1>2, <1>3, BranchesFacts
  <2>3. pc' # "stream" /\ pc' # "idle" /\ n + 1 \in 1..(B + 1) BY <1>2, <1>3, BranchesFacts
  <2>4. Len(nodes') = n + 1 /\ Len(edges') = n BY <1>6, <1>7
  <2> QED BY <2>1, <2>2, <2>3, <2>4, BranchesFacts DEF GraphTellsTheAnswers, Empty
<1>16. UsageTellsTheAnswers'
  BY <1>0, <1>2, <1>3, <1>8, <1>10, <1>11 DEF UsageTellsTheAnswers, CountsUsage
<1>17. ScoresTellTheAnswers'
  <2> DEFINE P == {b \in Collected : Passes(ConfidenceOf(b))}
  <2>1. P' = IF Passes(Confidence(a)) THEN P \cup {n} ELSE P
    <3>1. P' = {b \in Collected \cup {n} : Passes(ConfidenceOf(b)')}
      BY <1>10 DEF Passes
    <3> QED BY <3>1, <1>9
  <2>2. IsFiniteSet(P) /\ n \notin P BY <1>2, BranchesFacts, FS_Subset
  <2>3. kept = Cardinality(P) BY <1>0 DEF ScoresTellTheAnswers
  <2> HIDE DEF P
  <2>4. Cardinality(P') = kept + (IF Passes(Confidence(a)) THEN 1 ELSE 0)
    <3>1. kept \in Nat BY <1>t
    <3>2. Cardinality(P \cup {n}) = kept + 1 BY <2>2, <2>3, FS_AddElement
    <3> QED BY <2>1, <2>3, <3>1, <3>2
  <2>5. \A b \in Collected' : ConfidenceOf(b)' <= best_conf'
    <3>1. TAKE b \in Collected'
    <3>2. best_conf \in Nat /\ best_conf' \in Nat /\ best_conf <= best_conf'
          /\ Confidence(a) <= best_conf'
      <4>1. best_conf \in Nat BY <1>t DEF Confident
      <4> QED BY <4>1, <1>3, <1>4 DEF Improves
    <3>3. CASE b = n BY <3>2, <3>3, <1>9
    <3>4. CASE b # n
      <4>1. b \in Collected BY <3>4, <1>10
      <4>2. outcome[b][1] \in Outcomes
        BY <1>0, <4>1, <1>2, AnswerType DEF GraphTellsTheAnswers
      <4>3. ConfidenceOf(b) \in Nat BY <1>t, <4>2, ConfidenceFacts DEF ConfidenceOf
      <4>4. ConfidenceOf(b) <= best_conf BY <1>0, <4>1 DEF ScoresTellTheAnswers
      <4>5. ConfidenceOf(b)' = ConfidenceOf(b) BY <4>1, <1>9
      <4> QED BY <3>2, <4>3, <4>4, <4>5
    <3> QED BY <3>3, <3>4
  <2>6. best_conf' > 0 => best_idx' \in Collected' /\ ConfidenceOf(best_idx)' = best_conf'
    <3>1. CASE Improves(Confidence(a))
      <4>1. best_idx' = n /\ best_conf' = Confidence(a) BY <1>3, <3>1
      <4> QED BY <4>1, <1>2, <1>9, <1>10 DEF ConfidenceOf
    <3>2. CASE ~ Improves(Confidence(a))
      <4>1. best_idx' = best_idx /\ best_conf' = best_conf BY <1>3, <3>2
      <4>2. best_conf > 0 => best_idx \in Collected /\ ConfidenceOf(best_idx) = best_conf
        BY <1>0 DEF ScoresTellTheAnswers
      <4>3. best_conf > 0 => outcome'[best_idx] = outcome[best_idx]
        BY <4>2, <1>2, <1>8
      <4>4. best_conf > 0 => ConfidenceOf(best_idx)' = ConfidenceOf(best_idx)
        BY <4>1, <4>3, <1>3, SameScores DEF ConfidenceOf
      <4> QED BY <4>1, <4>2, <4>4, <1>10
    <3> QED BY <3>1, <3>2
  <2>7. kept' = Cardinality(P') BY <1>3, <2>4
  <2>8. kept' + pruned' = Len(nodes') - 1
    <3>1. kept' + pruned' = n /\ Len(nodes') = n + 1 /\ n \in Nat BY <1>6, <1>12
    <3> QED BY ONLY <3>1
  <2> QED BY <2>5, <2>6, <2>7, <2>8 DEF ScoresTellTheAnswers, P
<1>18. MergeUnderWay' BY <1>3 DEF MergeUnderWay
<1>19. GraphFits' BY <1>2, <1>6, <1>7, BranchesFacts DEF GraphFits
<1>20. BestAnswerMerged' /\ MetricsTellTheRun'
  BY <1>0, <1>3 DEF BestAnswerMerged, MetricsTellTheRun, RunEnds
<1> QED BY <1>13, <1>14, <1>15, <1>16, <1>17, <1>18, <1>19, <1>20 DEF IInv

LEMMA CollectKeepsIInv == IInv /\ (Collect \/ CollectDeferred) => IInv'
<1> SUFFICES ASSUME IInv, Collect \/ CollectDeferred PROVE IInv' OBVIOUS
<1>1. CASE Collect
  <2>1. pc = "collect" /\ Awaited \in Branches
    BY <1>1, BranchesFacts
    DEF Collect, IInv, GraphTellsTheAnswers, Awaited, Branches
  <2> DEFINE a == outcome[Awaited][1]
  <2>2. a \in Outcomes /\ outcome[Awaited] = <<a>>
    BY <1>1, <2>1, AnswerType DEF Collect, IInv
  <2>3. outcome' = [outcome EXCEPT ![Awaited] = <<a>>]
    <3>1. outcome \in [Branches -> Futures] /\ outcome' = outcome
      BY <1>1 DEF Collect, IInv, TypeOK
    <3> HIDE DEF a
    <3> QED BY <2>1, <2>2, <3>1
  <2>4. PICK c \in Outcomes : c = outcome[Awaited][1] BY <2>2
  <2>5. Collects(Awaited, c) /\ outcome' = [outcome EXCEPT ![Awaited] = <<c>>]
    BY <1>1, <2>3, <2>4 DEF Collect
  <2> QED BY <2>1, <2>4, <2>5, CollectsKeepsIInv
<1>2. CASE CollectDeferred
  <2>1. pc = "collect" BY <1>2 DEF CollectDeferred
  <2>2. CASE \E a \in Outcomes : /\ outcome' = [outcome EXCEPT ![Awaited] = <<a>>]
                                /\ Collects(Awaited, a)
    BY <2>1, <2>2, CollectsKeepsIInv
  <2>3. CASE /\ pc' = "crashed"
             /\ UNCHANGED <<significant, mode, outcome, nodes, edges, scores, agg_conf,
                            usage, metrics, result>>
    BY <2>1, <2>3, CrashKeepsIInv
  <2> QED BY <1>2, <2>2, <2>3 DEF CollectDeferred
<1> QED BY <1>1, <1>2

-----------------------------------------------------------------------------
(* All answers are in: what the merge takes, and what the metrics say.     *)

(* The answers that pass the threshold. *)
Passing == {b \in Branches : Passes(ConfidenceOf(b))}

LEMMA AllCollected ==
    ASSUME IInv, pc \in {"aggregate", "stream"}
    PROVE  /\ Len(nodes) = B + 1 /\ Collected = Branches
           /\ \A b \in Branches :
                /\ outcome[b][1] \in Outcomes
                /\ NodeAt(b) = Node("branch", ConfidenceOf(b), Empty(outcome[b][1]))
                /\ NodeAt(b).confidence = ConfidenceOf(b)
                /\ NodeAt(b).empty = Empty(outcome[b][1])
                /\ ConfidenceOf(b) \in Nat /\ ConfidenceOf(b) <= best_conf
                /\ Confidences[b] = ConfidenceOf(b)
                /\ edges[b] = <<0, b>>
<1>1. /\ TypeOK /\ GraphTellsTheAnswers /\ ScoresTellTheAnswers /\ significant \in BOOLEAN
  BY DEF IInv, TypeOK
<1>2. Len(nodes) = B + 1 BY <1>1 DEF GraphTellsTheAnswers
<1>3. Collected = Branches BY <1>2, BranchesFacts DEF Collected, Branches
<1>4. ASSUME NEW b \in Branches
      PROVE  /\ outcome[b][1] \in Outcomes
             /\ NodeAt(b) = Node("branch", ConfidenceOf(b), Empty(outcome[b][1]))
             /\ NodeAt(b).confidence = ConfidenceOf(b)
             /\ NodeAt(b).empty = Empty(outcome[b][1])
             /\ ConfidenceOf(b) \in Nat /\ ConfidenceOf(b) <= best_conf
             /\ Confidences[b] = ConfidenceOf(b)
             /\ edges[b] = <<0, b>>
  <2>1. /\ outcome[b] # <<>> /\ edges[b] = <<0, b>> /\ ConfidenceOf(b) <= best_conf
        /\ nodes[b + 1] = Node("branch", ConfidenceOf(b), Empty(outcome[b][1]))
    BY <1>1, <1>3 DEF GraphTellsTheAnswers, ScoresTellTheAnswers
  <2>2. outcome[b][1] \in Outcomes BY <1>1, <2>1, AnswerType
  <2>3. ConfidenceOf(b) \in Nat BY <1>1, <2>2, ConfidenceFacts DEF ConfidenceOf
  <2>4. NodeAt(b) = Node("branch", ConfidenceOf(b), Empty(outcome[b][1]))
    BY <2>1 DEF NodeAt
  <2>5. NodeAt(b).confidence = ConfidenceOf(b) /\ NodeAt(b).empty = Empty(outcome[b][1])
    BY <2>4 DEF Node
  <2>6. Confidences[b] = ConfidenceOf(b) BY DEF Confidences, ConfidenceOf
  <2> QED BY <2>1, <2>2, <2>3, <2>4, <2>5, <2>6
<1> QED BY <1>2, <1>3, <1>4

(* The merge takes the answers that pass, all of which have content; if none *)
(* passes, the best one, if it has content.                                  *)
LEMMA ChosenCases ==
    ASSUME IInv, pc \in {"aggregate", "stream"}
    PROVE  /\ Chosen \subseteq HaveContent
           /\ Passing # {} => Chosen = Passing
           /\ Passing = {} => /\ Chosen \subseteq {best_idx}
                              /\ (best_conf > 0 /\ best_idx \in HaveContent)
                                    => Chosen = {best_idx}
           /\ best_conf > 0 => best_idx \in Branches /\ ConfidenceOf(best_idx) = best_conf
<1>1. \A b \in Branches :
        /\ NodeAt(b).confidence = ConfidenceOf(b)
        /\ NodeAt(b).empty = Empty(outcome[b][1])
        /\ outcome[b][1] \in Outcomes
  BY AllCollected
<1>2. \A b \in Branches : Passes(ConfidenceOf(b)) => ~ Empty(outcome[b][1])
  <2>1. significant \in BOOLEAN BY DEF IInv, TypeOK
  <2> QED BY <1>1, <2>1, PassersHaveContent DEF ConfidenceOf
<1>3. {b \in Branches : Usable(b)} = Passing
  BY <1>1, <1>2 DEF Usable, Passing
<1>4. best_conf > 0 => best_idx \in Branches /\ ConfidenceOf(best_idx) = best_conf
  <2>1. ScoresTellTheAnswers BY DEF IInv
  <2>2. Collected = Branches BY AllCollected
  <2> QED BY <2>1, <2>2 DEF ScoresTellTheAnswers
<1>5. /\ Fallback \subseteq HaveContent /\ Fallback \subseteq {best_idx}
      /\ (best_conf > 0 /\ best_idx \in HaveContent) => Fallback = {best_idx}
  BY <1>1, <1>4 DEF Fallback, HaveContent
<1>6. Chosen = IF Passing # {} THEN Passing ELSE Fallback BY <1>3 DEF Chosen
<1>7. Passing \subseteq HaveContent BY <1>2 DEF Passing, HaveContent
<1> QED BY <1>4, <1>5, <1>6, <1>7

(* A nonempty set of branches has one with the best confidence. *)
LEMMA BestOf ==
    ASSUME IInv, pc \in {"aggregate", "stream"}, NEW S, S \subseteq Branches, S # {}
    PROVE  \E b \in S : \A c \in S : Confidences[b] >= Confidences[c]
<1>1. \A b \in S : Confidences[b] \in Nat /\ Confidences[b] <= best_conf
  BY SMTT(40), AllCollected
<1>2. best_conf \in Nat BY DEF IInv, TypeOK, Confident
<1> DEFINE Gaps == {best_conf - Confidences[b] : b \in S}
<1>3. Gaps \subseteq Nat /\ Gaps # {}
  <2>1. \A b \in S : best_conf - Confidences[b] \in Nat BY <1>1, <1>2
  <2> QED BY <2>1
<1>4. PICK g \in Gaps : \A k \in Gaps : g <= k
  <2> HIDE DEF Gaps
  <2> QED BY <1>3, LeastNat
<1>5. PICK b \in S : g = best_conf - Confidences[b] BY <1>4
<1>6. \A c \in S : Confidences[b] >= Confidences[c]
  <2>1. TAKE c \in S
  <2>2. g <= best_conf - Confidences[c] BY <1>4
  <2> QED BY <1>1, <1>2, <1>5, <2>2
<1> QED BY <1>6

(* If any answer has content, the best of them is merged. *)
LEMMA BestContentChosen ==
    ASSUME IInv, pc \in {"aggregate", "stream"}, HaveContent # {}
    PROVE  \E b \in Chosen : \A c \in HaveContent : Confidences[b] >= Confidences[c]
<1>1. PICK b \in HaveContent : \A c \in HaveContent : Confidences[b] >= Confidences[c]
  BY BestOf DEF HaveContent
<1>2. /\ b \in Branches /\ ~ Empty(outcome[b][1]) /\ outcome[b][1] \in Outcomes
      /\ Confidences[b] = ConfidenceOf(b)
  BY <1>1, AllCollected DEF HaveContent
<1>t. significant \in BOOLEAN /\ best_conf \in Nat BY DEF IInv, TypeOK, Confident
<1>3. CASE Passing # {}
  <2>1. PICK p \in Passing : TRUE BY <1>3
  <2>2. p \in HaveContent BY <1>3, <2>1, ChosenCases
  <2>3. ConfidenceOf(p) \in Nat /\ ConfidenceOf(b) \in Nat /\ Confidences[p] = ConfidenceOf(p)
    BY <1>2, <2>1, AllCollected DEF Passing
  <2>4. ConfidenceOf(b) >= ConfidenceOf(p) BY <1>1, <1>2, <2>2, <2>3
  <2>5. Passes(ConfidenceOf(b))
    <3>1. Threshold \in Nat BY EngineAssumption
    <3>2. ConfidenceOf(p) >= Threshold BY <2>1 DEF Passing, Passes
    <3>3. ConfidenceOf(b) >= Threshold BY ONLY <2>3, <2>4, <3>1, <3>2
    <3> QED BY <3>3 DEF Passes
  <2>6. b \in Chosen BY <1>2, <1>3, <2>5, ChosenCases DEF Passing
  <2> QED BY <1>1, <2>6
<1>4. CASE Passing = {}
  <2>1. /\ ConfidenceOf(b) \in Nat /\ ConfidenceOf(b) > 0
        /\ ~ significant => ConfidenceOf(b) > 4000
    BY <1>t, <1>2, ConfidenceFacts DEF ConfidenceOf
  <2>2. best_conf > 0 /\ ConfidenceOf(b) <= best_conf
    <3>1. ConfidenceOf(b) <= best_conf BY <1>2, AllCollected
    <3> QED BY <1>t, <2>1, <3>1
  <2>3. best_idx \in Branches /\ ConfidenceOf(best_idx) = best_conf
    BY <2>2, ChosenCases
  <2>4. best_idx \in HaveContent
    <3> SUFFICES ASSUME Empty(outcome[best_idx][1]) PROVE FALSE
      BY <2>3 DEF HaveContent
    <3>1. outcome[best_idx][1] \in Outcomes BY <2>3, AllCollected
    <3>2. best_conf <= 4000 /\ (significant => best_conf = 0)
      BY <1>t, <2>3, <3>1, ConfidenceFacts DEF ConfidenceOf
    <3>3. ~ significant BY <2>2, <3>2
    <3>4. ConfidenceOf(b) > 4000 BY <2>1, <3>3
    <3> QED BY <1>t, <2>1, <2>2, <3>2, <3>4
  <2>5. best_idx \in Chosen BY <1>4, <2>2, <2>4, ChosenCases
  <2>6. Confidences[best_idx] >= Confidences[b]
    BY <1>2, <1>t, <2>1, <2>2, <2>3, AllCollected
  <2>7. ASSUME NEW c \in HaveContent PROVE Confidences[best_idx] >= Confidences[c]
    <3>1. /\ Confidences[b] >= Confidences[c] /\ Confidences[c] \in Nat
          /\ Confidences[b] \in Nat /\ Confidences[best_idx] \in Nat
      BY <1>1, <1>2, <2>3, <2>7, AllCollected DEF HaveContent
    <3> QED BY <2>6, <3>1
  <2> QED BY <2>5, <2>7
<1> QED BY <1>3, <1>4

(* Among the edges, those to the aggregate are the ones EdgesTo added. *)
LEMMA MergedAre ==
    ASSUME NEW es, DOMAIN es = 1..(B + Cardinality(Chosen)), Chosen \subseteq Branches,
           \A b \in Branches : es[b] = <<0, b>>,
           \A n \in 1..Cardinality(Chosen) : es[B + n] = EdgesTo(Agg, Chosen)[n]
    PROVE  Merged(es) = Chosen
<1> DEFINE K == Cardinality(Chosen)
<1>1. /\ K \in Nat /\ \A n \in 1..K : NthOf(Chosen, n) \in Chosen
      /\ \A b \in Chosen : \E n \in 1..K : NthOf(Chosen, n) = b
  BY NthOfFacts, BranchesFacts
<1>2. \A n \in 1..K : es[B + n][1] = NthOf(Chosen, n) /\ es[B + n][2] = Agg
  BY EdgesToFacts
<1>3. \A j \in 1..B : es[j][2] # Agg BY BranchesFacts DEF Branches
<1> HIDE DEF K
<1>4. DOMAIN es = 1..(B + K) BY DEF K
<1>5. \A j \in DOMAIN es : es[j][2] = Agg => \E n \in 1..K : j = B + n
  <2>1. TAKE j \in DOMAIN es
  <2>2. HAVE es[j][2] = Agg
  <2>3. j \notin 1..B BY <1>3, <2>2
  <2>4. j \in 1..(B + K) /\ B \in Nat /\ K \in Nat BY <1>1, <1>4, <2>1, BranchesFacts
  <2>5. j - B \in 1..K /\ j = B + (j - B) BY ONLY <2>3, <2>4
  <2> QED BY <2>5
<1>6. \A n \in 1..K : B + n \in DOMAIN es
  <2>1. B \in Nat /\ K \in Nat BY <1>1, BranchesFacts
  <2>2. \A n \in 1..K : B + n \in 1..(B + K) BY ONLY <2>1
  <2> QED BY <1>4, <2>2
<1>7. \A b \in Merged(es) : b \in Chosen
  <2>1. TAKE b \in Merged(es)
  <2>2. PICK j \in DOMAIN es : es[j][2] = Agg /\ b = es[j][1] BY <2>1 DEF Merged
  <2>3. PICK n \in 1..K : j = B + n BY <1>5, <2>2
  <2> QED BY <1>1, <1>2, <2>2, <2>3
<1>8. \A b \in Chosen : b \in Merged(es)
  <2>1. TAKE b \in Chosen
  <2>2. PICK n \in 1..K : NthOf(Chosen, n) = b BY <1>1
  <2>3. B + n \in DOMAIN es /\ es[B + n][2] = Agg /\ es[B + n][1] = b
    BY <1>2, <1>6, <2>2
  <2> QED BY <2>3 DEF Merged
<1> QED BY <1>7, <1>8

(* The best confidence of the row is the best branch's, with or without the  *)
(* aggregate's node.                                                         *)
LEMMA RowBest ==
    ASSUME IInv, pc \in {"aggregate", "stream"}, NEW ns, Len(ns) \in {B + 1, B + 2},
           \A b \in Branches : ns[b + 1] = NodeAt(b),
           Len(ns) = B + 2 => ns[B + 2].confidence \in 0..best_conf
    PROVE  /\ Max({0} \cup {ns[i].confidence : i \in 2..Len(ns)}) = best_conf
           /\ Max({Confidences[b] : b \in Branches}) = best_conf
<1>t. best_conf \in Nat
  <2>1. best_conf \in Confident BY DEF IInv, TypeOK
  <2> QED BY <2>1 DEF Confident
<1>1. \A b \in Branches : /\ ns[b + 1].confidence = Confidences[b]
                          /\ Confidences[b] \in 0..best_conf
  <2>1. TAKE b \in Branches
  <2>2. /\ ns[b + 1].confidence = Confidences[b] /\ Confidences[b] \in Nat
        /\ Confidences[b] <= best_conf
    BY AllCollected
  <2> QED BY <1>t, <2>2
<1>2. best_conf > 0 => \E b \in Branches : Confidences[b] = best_conf
  BY ChosenCases, AllCollected
<1>3. \A S : best_conf \in S /\ (\A x \in S : x \in 0..best_conf) => Max(S) = best_conf
  <2>1. TAKE S
  <2>2. HAVE best_conf \in S /\ (\A x \in S : x \in 0..best_conf)
  <2>3. \E x \in S : \A y \in S : x >= y BY <1>t, <2>2
  <2>4. Max(S) \in S /\ \A y \in S : Max(S) >= y BY <2>3 DEF Max
  <2>5. Max(S) \in 0..best_conf /\ Max(S) >= best_conf BY <2>2, <2>4
  <2> QED BY <1>t, <2>5
<1>4. Max({Confidences[b] : b \in Branches}) = best_conf
  <2> DEFINE S == {Confidences[b] : b \in Branches}
  <2>1. \A x \in S : x \in 0..best_conf BY <1>1
  <2>2. best_conf \in S
    <3>1. CASE best_conf > 0 BY <1>2, <3>1
    <3>2. CASE best_conf = 0
      <4>1. 1 \in Branches BY BranchesFacts DEF Branches
      <4>2. Confidences[1] = 0 BY <1>1, <3>2, <4>1
      <4> QED BY <3>2, <4>1, <4>2
    <3> QED BY <1>t, <3>1, <3>2
  <2> HIDE DEF S
  <2>3. Max(S) = best_conf BY <1>3, <2>1, <2>2
  <2> QED BY <2>3 DEF S
<1>5. Max({0} \cup {ns[i].confidence : i \in 2..Len(ns)}) = best_conf
  <2> DEFINE S == {0} \cup {ns[i].confidence : i \in 2..Len(ns)}
  <2>1. \A i \in 2..Len(ns) : ns[i].confidence \in 0..best_conf
    <3>1. TAKE i \in 2..Len(ns)
    <3>2. CASE i = B + 2 BY <3>1, <3>2, BranchesFacts
    <3>3. CASE i # B + 2
      <4>1. i - 1 \in Branches /\ (i - 1) + 1 = i BY <3>1, <3>3, BranchesFacts DEF Branches
      <4> QED BY <1>1, <4>1
    <3> QED BY <3>2, <3>3
  <2>2. \A x \in S : x \in 0..best_conf BY <1>t, <2>1
  <2>3. best_conf \in S
    <3>1. CASE best_conf > 0
      <4>1. PICK b \in Branches : Confidences[b] = best_conf BY <1>2, <3>1
      <4>2. b + 1 \in 2..Len(ns) BY BranchesFacts DEF Branches
      <4> QED BY <1>1, <4>1, <4>2
    <3>2. CASE best_conf = 0 BY <3>2
    <3> QED BY <1>t, <3>1, <3>2
  <2> HIDE DEF S
  <2>4. Max(S) = best_conf BY <1>3, <2>2, <2>3
  <2> QED BY <2>4 DEF S
<1> QED BY <1>4, <1>5

(* The row stored at the end of a run tells what happened in it.             *)
LEMMA RowTells ==
    ASSUME IInv, pc \in {"aggregate", "stream"}, UNCHANGED <<significant, outcome>>,
           Len(edges) = B + Cardinality(Chosen),
           \A n \in 1..Cardinality(Chosen) : edges[B + n] = EdgesTo(Agg, Chosen)[n],
           NEW ns, Len(ns) \in {B + 1, B + 2}, \A b \in Branches : ns[b + 1] = NodeAt(b),
           Len(ns) = B + 2 => ns[B + 2].confidence \in 0..best_conf,
           Chosen = {} \/ Len(ns) = B + 2 \/ result' = "stream_failed",
           metrics' \in {<<>>, <<Row(ns, edges)>>}
    PROVE  MetricsTellTheRun'
<1> DEFINE row == Row(ns, edges)
<1>t. /\ ScoresTellTheAnswers /\ edges \in Seq((0..B) \X (1..Agg))
      /\ pc # "idle" /\ kept \in 0..B
  BY DEF IInv, TypeOK
<1>1. /\ row.nodes = ns /\ row.edges = edges /\ row.kept = kept /\ row.pruned = pruned
      /\ row.best = Max({0} \cup {ns[i].confidence : i \in 2..Len(ns)})
  BY DEF Row
<1>2. Confidences' = Confidences
  <2>1. \A b \in Branches : Confidence(outcome[b][1])' = Confidence(outcome[b][1])
    BY SameScores
  <2> QED BY <2>1 DEF Confidences
<1>3. \A b \in Branches : row.nodes[b + 1].confidence = Confidences[b]
  BY <1>1, AllCollected
<1>4. kept + pruned = B /\ kept = Cardinality(Passing)
  <2>1. Len(nodes) = B + 1 /\ Collected = Branches BY AllCollected
  <2>2. kept + pruned = Len(nodes) - 1 BY <1>t DEF ScoresTellTheAnswers
  <2>3. kept + pruned = B BY <2>1, <2>2, BranchesFacts
  <2> QED BY <1>t, <2>1, <2>3 DEF ScoresTellTheAnswers, Passing
<1>5. Chosen \subseteq Branches BY ChosenCases DEF HaveContent
<1>6. Cardinality(Chosen) \in Nat BY <1>5, NthOfFacts
<1>7. DOMAIN edges = 1..(B + Cardinality(Chosen)) BY <1>t
<1>8. Merged(edges) = Chosen
  <2>1. \A b \in Branches : edges[b] = <<0, b>> BY AllCollected
  <2> QED BY <1>5, <1>7, <2>1, MergedAre
<1>9. Cardinality(Chosen) = kept \/ (kept = 0 /\ Cardinality(Chosen) = 1)
  <2>1. CASE Passing # {}
    <3>1. Chosen = Passing BY <2>1, ChosenCases
    <3> QED BY <1>4, <3>1
  <2>2. CASE Passing = {}
    <3>1. kept = 0 BY <1>4, <2>2, FS_EmptySet
    <3>2. Chosen = {} \/ Chosen = {best_idx} BY <2>2, ChosenCases
    <3> QED BY <3>1, <3>2, FS_EmptySet, FS_Singleton
  <2> QED BY <2>1, <2>2
<1>10. row.best = Max({Confidences[b] : b \in Branches})
  BY <1>1, RowBest
<1>11. \/ result' = "stream_failed"
       \/ \A j \in DOMAIN edges : edges[j][2] < Len(ns)
  <2> SUFFICES ASSUME result' # "stream_failed", NEW j \in DOMAIN edges
               PROVE  edges[j][2] < Len(ns)
    OBVIOUS
  <2>1. CASE j \in Branches
    <3>1. edges[j][2] = j BY <2>1, AllCollected
    <3>2. j < B + 1 /\ j < B + 2 BY <2>1, BranchesFacts DEF Branches
    <3> QED BY <3>1, <3>2
  <2>2. CASE j \notin Branches
    <3>1. Cardinality(Chosen) # 0
      <4>1. CASE Cardinality(Chosen) = 0
        <5>1. j \in 1..B BY <4>1, <1>7, BranchesFacts
        <5> QED BY <2>2, <5>1 DEF Branches
      <4> QED BY <4>1
    <3>2. Len(ns) = B + 2 BY <3>1, FS_EmptySet
    <3>3. edges[j] \in (0..B) \X (1..Agg) BY <1>t
    <3>4. edges[j][2] \in 1..Agg BY <3>3
    <3> QED BY <3>2, <3>4, BranchesFacts
  <2> QED BY <2>1, <2>2
<1> HIDE DEF row
<1>12. ASSUME NEW i \in DOMAIN metrics'
       PROVE  LET r == metrics'[i]
                  merged == Cardinality(Merged(r.edges))
              IN  /\ \A b \in Branches : r.nodes[b + 1].confidence = Confidences'[b]
                  /\ r.kept + r.pruned = B
                  /\ merged = r.kept \/ (r.kept = 0 /\ merged = 1)
                  /\ r.best = Max({Confidences'[b] : b \in Branches})
                  /\ \/ result' = "stream_failed"
                     \/ \A j \in DOMAIN r.edges : r.edges[j][2] < Len(r.nodes)
  <2>1. metrics' = <<row>> BY <1>12 DEF row
  <2>2. metrics'[i] = row BY <1>12, <2>1
  <2> QED BY <2>2, <1>1, <1>2, <1>3, <1>4, <1>8, <1>9, <1>10, <1>11
<1> QED BY <1>12 DEF MetricsTellTheRun, Merged

(* A run is over, with the answers and the graph as they were. *)
LEMMA RunOverKeepsIInv ==
    ASSUME IInv, pc \in {"aggregate", "stream"}, TypeOK', pc' = "idle",
           UNCHANGED <<significant, mode, outcome>>, GraphFits', MetricsTellTheRun',
           result' = "no_candidate" => HaveContent = {}
    PROVE  IInv'
<1>1. \A b \in Branches : outcome[b] # <<>>
  <2>1. GraphTellsTheAnswers BY DEF IInv
  <2>2. Collected = Branches BY AllCollected
  <2> QED BY <2>1, <2>2 DEF GraphTellsTheAnswers
<1>2. RunEnds' BY <1>1 DEF RunEnds
<1>3. HaveContent' = HaveContent BY DEF HaveContent, Empty
<1>4. BestAnswerMerged' BY <1>3 DEF BestAnswerMerged
<1> QED BY <1>2, <1>4 DEF IInv, GraphTellsTheAnswers, UsageTellsTheAnswers,
               ScoresTellTheAnswers, MergeUnderWay

LEMMA AggregateKeepsIInv == IInv /\ Aggregate => IInv'
<1> SUFFICES ASSUME IInv, Aggregate PROVE IInv' OBVIOUS
<1>t. /\ TypeOK /\ GraphTellsTheAnswers /\ pc = "aggregate"
      /\ edges \in Seq((0..B) \X (1..Agg)) /\ nodes \in Seq(NodeType)
  BY DEF IInv, TypeOK, Aggregate
<1>1. /\ edges' = edges \o EdgesTo(Agg, Chosen)
      /\ UNCHANGED <<significant, mode, outcome, nodes, scores, usage>>
  BY DEF Aggregate
<1>2. Len(nodes) = B + 1 /\ Len(edges) = B /\ DOMAIN nodes = 1..(B + 1)
  <2>1. Len(nodes) = B + 1 /\ Len(edges) = Len(nodes) - 1
    BY <1>t DEF GraphTellsTheAnswers
  <2> QED BY <1>t, <2>1, BranchesFacts
<1>3. Chosen \subseteq Branches /\ Chosen \subseteq HaveContent
  BY <1>t, ChosenCases DEF HaveContent
<1>4. Cardinality(Chosen) \in 0..B BY <1>3, NthOfFacts
<1>5. /\ EdgesTo(Agg, Chosen) \in Seq((0..B) \X (1..Agg))
      /\ Len(EdgesTo(Agg, Chosen)) = Cardinality(Chosen)
  BY <1>3, EdgesToFacts
<1>6. /\ edges' \in Seq((0..B) \X (1..Agg)) /\ Len(edges') = B + Cardinality(Chosen)
      /\ \A i \in 1..B : edges'[i] = edges[i]
      /\ \A n \in 1..Cardinality(Chosen) : edges'[B + n] = EdgesTo(Agg, Chosen)[n]
  <2> DEFINE es == EdgesTo(Agg, Chosen)
             K == Cardinality(Chosen)
  <2>1. es \in Seq((0..B) \X (1..Agg)) /\ Len(es) = K /\ K \in Nat /\ B \in Nat
        /\ edges' = edges \o es
    BY <1>1, <1>4, <1>5, BranchesFacts
  <2> HIDE DEF es, K
  <2>2. edges' \in Seq((0..B) \X (1..Agg)) /\ Len(edges') = B + K
    <3>1. Len(edges') = Len(edges) + Len(es) BY ONLY <1>t, <2>1, ConcatProperties
    <3>2. edges' \in Seq((0..B) \X (1..Agg)) BY ONLY <1>t, <2>1, ConcatProperties
    <3> QED BY <1>2, <2>1, <3>1, <3>2
  <2>3. \A i \in 1..B : edges'[i] = edges[i] BY <1>t, <1>2, <2>1
  <2>4. \A n \in 1..K : edges'[B + n] = es[n] BY SMTT(40), <1>t, <1>2, <2>1
  <2> QED BY <2>2, <2>3, <2>4 DEF es, K
<1>7. GraphFits'
  <2>1. Len(nodes') = B + 1 BY <1>1, <1>2
  <2> QED BY <1>4, <1>6, <2>1, BranchesFacts DEF GraphFits
<1>8. CASE Chosen # {}
  <2>1. /\ agg_conf' = MeanConfidence(Chosen) /\ pc' = "stream"
        /\ UNCHANGED <<metrics, result>>
    BY <1>8 DEF Aggregate
  <2>2. best_conf \in Confident /\ best_conf \in Nat BY <1>t DEF TypeOK, Confident
  <2>3. agg_conf' \in 0..best_conf
    <3>1. \A b \in Chosen : NodeAt(b).confidence \in 0..best_conf
      <4>1. TAKE b \in Chosen
      <4>2. /\ NodeAt(b).confidence = ConfidenceOf(b) /\ ConfidenceOf(b) \in Nat
            /\ ConfidenceOf(b) <= best_conf
        BY <1>t, <1>3, AllCollected
      <4> QED BY <2>2, <4>2
    <3> QED BY <1>3, <1>8, <2>1, <2>2, <3>1, MeanBounded
  <2>4. agg_conf' \in Confident
    <3>1. best_conf <= 10000 BY <2>2 DEF Confident
    <3>2. agg_conf' \in Nat /\ agg_conf' <= 10000 BY <2>2, <2>3, <3>1
    <3> QED BY <3>2, InConfident
  <2>5. TypeOK' BY <1>t, <1>1, <1>6, <2>1, <2>4 DEF TypeOK, scores
  <2>6. RunEnds' BY <1>t, <1>1, <2>1 DEF IInv, RunEnds
  <2>7. Collected' = Branches /\ Collected = Branches
    BY <1>t, <1>1, AllCollected DEF Collected
  <2>8. \A b \in Branches : ConfidenceOf(b)' = ConfidenceOf(b)
    BY <1>1, SameScores DEF ConfidenceOf
  <2>9. GraphTellsTheAnswers'
    <3>1. \A b \in Branches :
            /\ outcome'[b] # <<>> /\ edges'[b] = <<0, b>>
            /\ nodes'[b + 1] = Node("branch", ConfidenceOf(b)', Empty(outcome'[b][1]))
      <4>1. TAKE b \in Branches
      <4>2. /\ outcome[b] # <<>> /\ edges[b] = <<0, b>>
            /\ nodes[b + 1] = Node("branch", ConfidenceOf(b), Empty(outcome[b][1]))
        BY <1>t, <2>7 DEF GraphTellsTheAnswers
      <4> QED BY <1>1, <1>6, <2>8, <4>2 DEF Branches
    <3>2. /\ Len(nodes') = B + 1 /\ B + 1 \in 1..(B + 1) /\ Len(edges') >= (B + 1) - 1
      BY <1>1, <1>2, <1>4, <1>6, BranchesFacts
    <3> QED BY <2>1, <2>7, <3>1, <3>2 DEF GraphTellsTheAnswers, Empty
  <2>10. UsageTellsTheAnswers'
    BY <1>t, <1>1, <2>7 DEF IInv, UsageTellsTheAnswers
  <2>11. ScoresTellTheAnswers'
    <3>1. {b \in Collected : Passes(ConfidenceOf(b))}'
            = {b \in Collected : Passes(ConfidenceOf(b))}
      BY <2>7, <2>8 DEF Passes
    <3>2. UNCHANGED <<kept, pruned, best_conf, best_idx, nodes>> BY <1>1 DEF scores
    <3>3. ScoresTellTheAnswers BY DEF IInv
    <3>4. best_conf > 0 => ConfidenceOf(best_idx)' = ConfidenceOf(best_idx)
      BY <1>1, <3>2, SameScores DEF ConfidenceOf
    <3> QED BY <1>t, <2>7, <2>8, <3>1, <3>2, <3>3, <3>4 DEF ScoresTellTheAnswers
  <2>12. Chosen' = Chosen
    <3>1. UNCHANGED <<nodes, best_conf, best_idx>> BY <1>1 DEF scores
    <3> QED BY <3>1 DEF Chosen, Usable, Fallback, NodeAt, Passes
  <2>13. MergeUnderWay'
    <3>1. EdgesTo(Agg, Chosen)' = EdgesTo(Agg, Chosen) BY <2>12 DEF EdgesTo, NthOf
    <3>2. best_conf' = best_conf BY <1>1 DEF scores
    <3> QED BY <1>6, <1>8, <2>2, <2>3, <2>12, <3>1, <3>2 DEF MergeUnderWay
  <2>14. BestAnswerMerged'
    <3>1. Merged(edges') = Chosen
      <4>1. DOMAIN edges' = 1..(B + Cardinality(Chosen)) BY <1>6
      <4>2. \A b \in Branches : edges'[b] = <<0, b>>
        BY <1>t, <1>6, AllCollected DEF Branches
      <4> QED BY <1>3, <1>6, <4>1, <4>2, MergedAre
    <3>2. HaveContent # {} BY <1>3, <1>8
    <3>3. PICK b \in Chosen : \A c \in HaveContent : Confidences[b] >= Confidences[c]
      BY <1>t, <3>2, BestContentChosen
    <3>4. HaveContent' = HaveContent BY <1>1 DEF HaveContent, Empty
    <3>5. Confidences' = Confidences
      <4>1. \A c \in Branches : Confidence(outcome[c][1])' = Confidence(outcome[c][1])
        BY <1>1, SameScores
      <4> QED BY <4>1 DEF Confidences
    <3>6. b \in Merged(edges)' \cap HaveContent' BY <1>3, <3>1, <3>3, <3>4 DEF Merged
    <3>7. result' # "no_candidate" BY <1>t, <2>1 DEF IInv, RunEnds
    <3> QED BY <3>3, <3>4, <3>5, <3>6, <3>7 DEF BestAnswerMerged
  <2>15. MetricsTellTheRun'
    <3>1. metrics' = <<>> BY <1>t, <2>1 DEF IInv, RunEnds
    <3> QED BY <3>1 DEF MetricsTellTheRun
  <2> QED BY <2>5, <2>6, <2>9, <2>10, <2>11, <2>13, <2>14, <2>15, <1>7 DEF IInv
<1>9. CASE Chosen = {}
  <2>1. /\ metrics' \in {<<>>, <<Row(nodes, edges)>>} /\ agg_conf' = agg_conf
        /\ result' = "no_candidate" /\ pc' = "idle"
    BY <1>9 DEF Aggregate, PersistMetrics
  <2>2. TypeOK' BY <1>t, <1>1, <1>6, <2>1 DEF TypeOK, scores
  <2>3. Cardinality(Chosen) = 0 BY <1>9, FS_EmptySet
  <2>4. MetricsTellTheRun'
    <3>1. PICK ns : ns = nodes OBVIOUS
    <3>2. /\ Len(ns) = B + 1 /\ \A b \in Branches : ns[b + 1] = NodeAt(b)
          /\ B + 1 # B + 2
      BY <1>2, <3>1, BranchesFacts DEF NodeAt
    <3>3. Len(edges) = B + Cardinality(Chosen) BY <1>2, <2>3, BranchesFacts
    <3>4. \A n \in 1..Cardinality(Chosen) : edges[B + n] = EdgesTo(Agg, Chosen)[n]
      BY <2>3
    <3>5. metrics' \in {<<>>, <<Row(ns, edges)>>} BY <2>1, <3>1
    <3>6. pc \in {"aggregate", "stream"} /\ UNCHANGED <<significant, outcome>>
      BY <1>t, <1>1
    <3>7. Len(ns) \in {B + 1, B + 2} /\ ~ (Len(ns) = B + 2) BY <3>2
    <3> QED BY ONLY IInv, <1>9, <3>2, <3>3, <3>4, <3>5, <3>6, <3>7, RowTells
  <2>5. HaveContent = {} BY <1>t, <1>9, BestContentChosen
  <2> QED BY <1>t, <1>1, <1>7, <2>1, <2>2, <2>4, <2>5, RunOverKeepsIInv
<1> QED BY <1>8, <1>9

LEMMA SynthesisKeepsIInv == IInv /\ (SynthesisFails \/ SynthesisDone) => IInv'
<1> SUFFICES ASSUME IInv, SynthesisFails \/ SynthesisDone PROVE IInv' OBVIOUS
<1>t. /\ TypeOK /\ GraphTellsTheAnswers /\ MergeUnderWay /\ GraphFits /\ pc = "stream"
      /\ nodes \in Seq(NodeType) /\ Len(nodes) = B + 1 /\ agg_conf \in Confident
      /\ best_conf \in Confident
  BY DEF IInv, TypeOK, GraphTellsTheAnswers, SynthesisFails, SynthesisDone
<1>1. /\ UNCHANGED <<significant, mode, outcome, edges, scores, agg_conf, usage>>
      /\ pc' = "idle" /\ result' # "no_candidate"
  BY DEF SynthesisFails, SynthesisDone
<1>2. /\ Len(edges) = B + Cardinality(Chosen)
      /\ \A n \in 1..Cardinality(Chosen) : edges[B + n] = EdgesTo(Agg, Chosen)[n]
  BY <1>t DEF MergeUnderWay
<1>3. CASE SynthesisFails
  <2>1. /\ metrics' \in {<<>>, <<Row(nodes, edges)>>} /\ nodes' = nodes
        /\ result' = "stream_failed"
    BY <1>3 DEF SynthesisFails, PersistMetrics
  <2>2. TypeOK' BY <1>t, <1>1, <2>1 DEF TypeOK, scores
  <2>3. MetricsTellTheRun'
    <3>1. PICK ns : ns = nodes OBVIOUS
    <3>2. /\ Len(ns) = B + 1 /\ \A b \in Branches : ns[b + 1] = NodeAt(b)
          /\ B + 1 # B + 2
      BY <1>t, <3>1, BranchesFacts DEF NodeAt
    <3>3. metrics' \in {<<>>, <<Row(ns, edges)>>} BY <2>1, <3>1
    <3>4. pc \in {"aggregate", "stream"} /\ UNCHANGED <<significant, outcome>>
      BY <1>t, <1>1
    <3>5. Len(ns) \in {B + 1, B + 2} /\ ~ (Len(ns) = B + 2) BY <3>2
    <3> QED BY ONLY IInv, <1>2, <2>1, <3>2, <3>3, <3>4, <3>5, RowTells
  <2>4. GraphFits' BY <1>t, <1>1, <2>1 DEF GraphFits
  <2> QED BY <1>t, <1>1, <2>2, <2>3, <2>4, RunOverKeepsIInv
<1>4. CASE SynthesisDone
  <2> DEFINE node == [kind |-> "aggregate", confidence |-> agg_conf, empty |-> FALSE]
  <2>1. node \in NodeType /\ node.confidence = agg_conf BY <1>t DEF NodeType
  <2>2. /\ nodes' = Append(nodes, node) /\ metrics' \in {<<>>, <<Row(nodes', edges)>>}
        /\ result' = "answer"
    BY <1>4 DEF SynthesisDone, PersistMetrics, Node
  <2> HIDE DEF node
  <2>3. /\ nodes' \in Seq(NodeType) /\ Len(nodes') = B + 2 /\ nodes'[B + 2] = node
        /\ \A i \in 1..(B + 1) : nodes'[i] = nodes[i]
    <3>1. (B + 1) + 1 = B + 2 BY BranchesFacts
    <3> QED BY <1>t, <2>1, <2>2, <3>1
  <2>4. TypeOK' BY <1>t, <1>1, <2>2, <2>3 DEF TypeOK, scores
  <2>5. MetricsTellTheRun'
    <3>1. PICK ns : ns = nodes' OBVIOUS
    <3>2. Len(ns) = B + 2 /\ \A b \in Branches : ns[b + 1] = NodeAt(b)
      <4>1. \A b \in Branches : b + 1 \in 1..(B + 1) BY BranchesFacts DEF Branches
      <4> QED BY <2>3, <3>1, <4>1 DEF NodeAt
    <3>3. ns[B + 2].confidence \in 0..best_conf
      <4>1. ns[B + 2].confidence = agg_conf BY SMTT(40), <2>1, <2>3, <3>1
      <4>2. agg_conf <= best_conf /\ agg_conf \in Nat /\ best_conf \in Nat
        BY SMTT(40), <1>t DEF MergeUnderWay, Confident
      <4> QED BY <4>1, <4>2
    <3>4. metrics' \in {<<>>, <<Row(ns, edges)>>} BY <2>2, <3>1
    <3>5. pc \in {"aggregate", "stream"} /\ UNCHANGED <<significant, outcome>>
      BY <1>t, <1>1
    <3>6. Len(ns) \in {B + 1, B + 2} BY <3>2
    <3>7. Len(ns) = B + 2 => ns[B + 2].confidence \in 0..best_conf BY <3>3
    <3>8. Chosen = {} \/ Len(ns) = B + 2 \/ result' = "stream_failed" BY <3>2
    <3>9. \A b \in Branches : ns[b + 1] = NodeAt(b) BY <3>2
    <3> QED BY ONLY IInv, <1>2, <3>4, <3>5, <3>6, <3>7, <3>8, <3>9, RowTells
  <2>6. GraphFits'
    <3>1. Len(nodes') = B + 2 /\ edges' = edges BY <1>1, <2>3
    <3> QED BY <1>t, <3>1, BranchesFacts DEF GraphFits
  <2> QED BY <1>t, <1>1, <2>4, <2>5, <2>6, RunOverKeepsIInv
<1> QED BY <1>3, <1>4

LEMMA StutterKeepsIInv == IInv /\ UNCHANGED vars => IInv'
<1> SUFFICES ASSUME IInv, UNCHANGED vars PROVE IInv' OBVIOUS
<1> USE DEF vars, scores
<1>1. TypeOK' BY DEF IInv, TypeOK
<1>2. RunEnds' /\ GraphFits' BY DEF IInv, RunEnds, GraphFits
<1>3. Collected' = Collected BY DEF Collected
<1>4. \A b : ConfidenceOf(b)' = ConfidenceOf(b) BY SameScores DEF ConfidenceOf
<1>5. GraphTellsTheAnswers'
  BY <1>3, <1>4 DEF IInv, GraphTellsTheAnswers, Empty
<1>6. UsageTellsTheAnswers' BY <1>3 DEF IInv, UsageTellsTheAnswers
<1>7. ScoresTellTheAnswers'
  <2>1. {b \in Collected : Passes(ConfidenceOf(b))}'
          = {b \in Collected : Passes(ConfidenceOf(b))}
    BY <1>3, <1>4 DEF Passes
  <2>2. ConfidenceOf(best_idx)' = ConfidenceOf(best_idx) BY SameScores DEF ConfidenceOf
  <2> QED BY <1>3, <1>4, <2>1, <2>2 DEF IInv, ScoresTellTheAnswers
<1>8. Chosen' = Chosen BY DEF Chosen, Usable, Fallback, NodeAt, Passes
<1>9. MergeUnderWay'
  <2>1. EdgesTo(Agg, Chosen)' = EdgesTo(Agg, Chosen) BY <1>8 DEF EdgesTo, NthOf
  <2> QED BY <1>8, <2>1 DEF IInv, MergeUnderWay
<1>10. Confidences' = Confidences
  <2>1. \A b \in Branches : Confidence(outcome[b][1])' = Confidence(outcome[b][1])
    BY SameScores
  <2> QED BY <2>1 DEF Confidences
<1>11. BestAnswerMerged'
  BY <1>10 DEF IInv, BestAnswerMerged, HaveContent, Merged, Empty
<1>12. MetricsTellTheRun'
  <2>1. metrics' = metrics /\ result' = result OBVIOUS
  <2>2. MetricsTellTheRun BY DEF IInv
  <2>3. {Confidences'[b] : b \in Branches} = {Confidences[b] : b \in Branches}
    BY ONLY <1>10
  <2>4. Max({Confidences'[b] : b \in Branches}) = Max({Confidences[b] : b \in Branches})
    BY ONLY <2>3
  <2>5. \A i \in DOMAIN metrics :
          /\ \A b \in Branches : metrics[i].nodes[b + 1].confidence = Confidences[b]
          /\ metrics[i].kept + metrics[i].pruned = B
          /\ \/ Cardinality(Merged(metrics[i].edges)) = metrics[i].kept
             \/ metrics[i].kept = 0 /\ Cardinality(Merged(metrics[i].edges)) = 1
          /\ metrics[i].best = Max({Confidences[b] : b \in Branches})
          /\ \/ result = "stream_failed"
             \/ \A j \in DOMAIN metrics[i].edges :
                   metrics[i].edges[j][2] < Len(metrics[i].nodes)
    BY ONLY <2>2 DEF MetricsTellTheRun
  <2>6. \A i \in DOMAIN metrics' :
          /\ \A b \in Branches : metrics'[i].nodes[b + 1].confidence = Confidences'[b]
          /\ metrics'[i].kept + metrics'[i].pruned = B
          /\ \/ Cardinality(Merged(metrics'[i].edges)) = metrics'[i].kept
             \/ metrics'[i].kept = 0 /\ Cardinality(Merged(metrics'[i].edges)) = 1
          /\ metrics'[i].best = Max({Confidences'[b] : b \in Branches})
          /\ \/ result' = "stream_failed"
             \/ \A j \in DOMAIN metrics'[i].edges :
                   metrics'[i].edges[j][2] < Len(metrics'[i].nodes)
    BY ONLY <1>10, <2>1, <2>4, <2>5
  <2> QED BY ONLY <2>6 DEF MetricsTellTheRun, Merged
<1> QED BY <1>1, <1>2, <1>5, <1>6, <1>7, <1>9, <1>11, <1>12 DEF IInv

LEMMA NextKeepsIInv == IInv /\ [Next]_vars => IInv'
BY BeginKeepsIInv, LaunchKeepsIInv, CollectKeepsIInv, AggregateKeepsIInv,
   SynthesisKeepsIInv, BranchAnswersKeepsIInv, StutterKeepsIInv
DEF Next, Over

-----------------------------------------------------------------------------
(* The inductive invariant holds in every state of every run. *)
THEOREM Invariance == Spec => []IInv
BY InitIInv, NextKeepsIInv, PTL DEF Spec

(* Every variable keeps its type; no confidence leaves 0..1. *)
THEOREM TypeCorrect == Spec => []TypeOK
<1>1. IInv => TypeOK BY DEF IInv
<1> QED BY <1>1, Invariance, PTL

(* The arrays of run() are never written past their end. *)
THEOREM GraphWithinArrays == Spec => []GraphFits
<1>1. IInv => GraphFits BY DEF IInv
<1> QED BY <1>1, Invariance, PTL

(* The best answer with content is merged, and a run that has one never      *)
(* gives up for want of a candidate.                                         *)
THEOREM BestAnswerNeverDropped == Spec => []BestAnswerMerged
<1>1. IInv => BestAnswerMerged BY DEF IInv
<1> QED BY <1>1, Invariance, PTL

(* The stored row tells what happened in the run, in whatever order the      *)
(* workers answered.                                                         *)
THEOREM MetricsFaithful == Spec => []MetricsTellTheRun
<1>1. IInv => MetricsTellTheRun BY DEF IInv
<1> QED BY <1>1, Invariance, PTL

(* A branch's tokens are recorded once, when its answer is collected.        *)
THEOREM UsageNotDoubled == Spec => []UsageRecordedOnce
<1>1. IInv => UsageRecordedOnce
  <2> SUFFICES ASSUME IInv, pc \in {"aggregate", "stream"}, NEW b \in Branches
               PROVE  usage[b] = IF outcome[b][1].ok THEN 1 ELSE 0
    BY DEF UsageRecordedOnce
  <2>1. UsageTellsTheAnswers BY DEF IInv
  <2>2. Collected = Branches BY AllCollected
  <2> QED BY <2>1, <2>2 DEF UsageTellsTheAnswers
<1> QED BY <1>1, Invariance, PTL
=============================================================================
