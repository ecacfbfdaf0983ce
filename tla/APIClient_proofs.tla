-------------------------- MODULE APIClient_proofs --------------------------
(***************************************************************************)
(* The client and its cache for any prompts, similarity, capacity and      *)
(* answers, and any way of cutting a streamed answer into fragments.       *)
(***************************************************************************)
EXTENDS APIClient, SequenceTheorems, FiniteSetTheorems, WellFoundedInduction, TLAPS

-----------------------------------------------------------------------------
(* Facts about numbers and sequences.                                      *)

LEMMA LeastNat ==
    ASSUME NEW T, T \subseteq Nat, T # {}
    PROVE  \E m \in T : \A k \in T : m <= k
<1> DEFINE Less == {p \in Nat \X Nat : p[1] < p[2]}
<1>1. IsWellFoundedOn(Less, Nat) BY NatLessThanWellFounded DEF OpToRel
<1>2. PICK x \in T : \A y \in T : ~ (<<y, x>> \in Less) BY <1>1, WFMin
<1>3. \A y \in T : x <= y
  <2>1. TAKE y \in T
  <2>2. x \in Nat /\ y \in Nat OBVIOUS
  <2>3. ~ (y < x) BY <1>2, <2>2
  <2> QED BY <2>2, <2>3
<1> QED BY <1>3

(* Induction up to n, over a set instead of a predicate. *)
LEMMA InductionUpTo ==
    ASSUME NEW n \in Nat, NEW T, 0 \in T, \A k \in 1..n : k - 1 \in T => k \in T
    PROVE  0..n \subseteq T
<1> DEFINE Bad == (0..n) \ T
<1> SUFFICES ASSUME Bad # {} PROVE FALSE OBVIOUS
<1>1. PICK m \in Bad : \A k \in Bad : m <= k
  <2>1. Bad \subseteq Nat OBVIOUS
  <2> HIDE DEF Bad
  <2> QED BY <2>1, LeastNat
<1>2. m \in 0..n /\ m \notin T /\ m # 0 OBVIOUS
<1>3. m \in 1..n /\ m - 1 \in 0..n /\ ~ (m <= m - 1) BY <1>2
<1>4. m - 1 \in T BY <1>1, <1>3
<1> QED BY <1>2, <1>3, <1>4

(* Readings defined by recursion up to n exist. *)
LEMMA RecursionUpTo ==
    ASSUME NEW n \in Nat, NEW base \in ReadType,
           NEW step \in [ReadType \X (1..n) -> ReadType]
    PROVE  \E f \in [0..n -> ReadType] :
              f[0] = base /\ \A k \in 1..n : f[k] = step[<<f[k - 1], k>>]
<1> DEFINE Fits(f, m) == f[0] = base /\ \A k \in 1..m : f[k] = step[<<f[k - 1], k>>]
           T == {m \in 0..n : \E f \in [0..m -> ReadType] : Fits(f, m)}
<1>1. 0 \in T
  <2> DEFINE f == [k \in 0..0 |-> base]
  <2>1. f \in [0..0 -> ReadType] /\ Fits(f, 0) OBVIOUS
  <2> HIDE DEF f, Fits
  <2> QED BY <2>1
<1>2. ASSUME NEW m \in 1..n, m - 1 \in T PROVE m \in T
  <2>1. PICK f \in [0..(m - 1) -> ReadType] : Fits(f, m - 1) BY <1>2
  <2>2. m \in Nat /\ m - 1 \in 0..(m - 1) /\ m \in 0..n OBVIOUS
  <2>3. <<f[m - 1], m>> \in ReadType \X (1..n) BY <2>2
  <2>4. step[<<f[m - 1], m>>] \in ReadType BY <2>3
  <2> DEFINE g == [k \in 0..m |-> IF k = m THEN step[<<f[m - 1], m>>] ELSE f[k]]
  <2>5. g \in [0..m -> ReadType] BY <2>2, <2>4
  <2>6. Fits(g, m)
    <3>1. g[0] = base BY <2>1, <2>2
    <3>2. ASSUME NEW k \in 1..m PROVE g[k] = step[<<g[k - 1], k>>]
      <4>1. g[k - 1] = f[k - 1] BY <2>2
      <4>2. CASE k = m
        <5>1. g[m] = step[<<f[m - 1], m>>] BY <2>2
        <5> HIDE DEF g
        <5> QED BY <4>1, <4>2, <5>1
      <4>3. CASE k # m
        <5>1. k \in 1..(m - 1) /\ g[k] = f[k] BY <2>2, <4>3
        <5> QED BY <2>1, <4>1, <5>1
      <4> QED BY <4>2, <4>3
    <3> HIDE DEF g
    <3> QED BY <3>1, <3>2
  <2> HIDE DEF g, Fits
  <2> QED BY <2>2, <2>5, <2>6
<1>3. n \in T
  <2> HIDE DEF T
  <2>1. 0..n \subseteq T BY <1>1, <1>2, InductionUpTo
  <2> QED BY <2>1
<1> QED BY <1>3

LEMMA Halves ==
    ASSUME NEW k \in Nat
    PROVE  /\ k \div 2 \in Nat
           /\ \/ k % 2 = 1 /\ k = 2 * (k \div 2) + 1
              \/ k % 2 = 0 /\ k = 2 * (k \div 2)
OBVIOUS

LEMMA DoubleHalf == ASSUME NEW h \in Nat PROVE (2 * h) \div 2 = h /\ (2 * h + 1) \div 2 = h
      /\ (2 * h) % 2 = 0 /\ (2 * h + 1) % 2 = 1
OBVIOUS

LEMMA UnitIs ==
    ASSUME NEW h \in Nat
    PROVE  /\ Unit(2 * h + 1) = <<h + 1, "head">>
           /\ Unit(2 * h + 2) = <<h + 1, "end">>
<1>1. (2 * h + 1) % 2 = 1 /\ ((2 * h + 1) + 1) \div 2 = h + 1 OBVIOUS
<1>2. (2 * h + 2) % 2 = 0 /\ ((2 * h + 2) + 1) \div 2 = h + 1 OBVIOUS
<1> QED BY <1>1, <1>2 DEF Unit

-----------------------------------------------------------------------------
LEMMA EmptyTells ==
    /\ Nothing \in ReadType /\ Tells(Nothing, 0)
<1>1. <<>> \in Seq(Nat) /\ \A i \in DOMAIN <<>> : FALSE OBVIOUS
<1>2. \A kinds : Sent(kinds, 0) = {} BY DEF Sent
<1>3. InOrder(<<>>, {}) BY <1>1 DEF InOrder
<1>4. Sent({"piece"}, 0) = {} /\ Sent(UsageKind, 0) = {} BY ONLY <1>2
<1>5. \A i \in 1..0 : FALSE OBVIOUS
<1> QED BY <1>1, <1>3, <1>4, <1>5 DEF Nothing, ReadType, Tells

LEMMA EmptyTellsNext == Tells(Nothing, 0)'
<1>1. <<>> \in Seq(Nat) /\ \A i \in DOMAIN <<>> : FALSE OBVIOUS
<1>2. \A kinds : Sent(kinds, 0)' = {} BY DEF Sent
<1>3. InOrder(<<>>, {}) BY <1>1 DEF InOrder
<1>4. InOrder(<<>>, Sent({"piece"}, 0))' BY <1>2, <1>3 DEF InOrder
<1> QED BY <1>1, <1>2, <1>4 DEF Nothing, Tells

(* One more line. *)
LEMMA SentOneMore ==
    ASSUME NEW n \in Nat \ {0}, NEW kinds,
           \A i \in 1..(n - 1) : script[i] # "done"
    PROVE  Sent(kinds, n) = Sent(kinds, n - 1) \cup (IF script[n] \in kinds THEN {n} ELSE {})
<1>1. 1..n = (1..(n - 1)) \cup {n} OBVIOUS
<1>2. \A i \in 1..n : \A j \in 1..(i - 1) : j \in 1..(n - 1) OBVIOUS
<1> QED BY <1>1, <1>2 DEF Sent

LEMMA SentNoMore ==
    ASSUME NEW n \in Nat \ {0}, NEW kinds, \E i \in 1..(n - 1) : script[i] = "done"
    PROVE  Sent(kinds, n) = Sent(kinds, n - 1)
<1>1. 1..n = (1..(n - 1)) \cup {n} OBVIOUS
<1>2. n \notin Sent(kinds, n) BY DEF Sent
<1> QED BY <1>1, <1>2 DEF Sent

LEMMA HandleTells ==
    ASSUME NEW n \in Nat \ {0}, script[n] \in LineKind,
           NEW r \in ReadType, Tells(r, n - 1)
    PROVE  Handle(r, n) \in ReadType /\ Tells(Handle(r, n), n)
<1>t. /\ r = [content |-> r.content, done |-> r.done, usage |-> r.usage]
      /\ r.content \in Seq(Nat) /\ r.done \in BOOLEAN /\ r.usage \in Nat
  BY DEF ReadType
<1>n. n \in Nat /\ n > 0 /\ 1..n = (1..(n - 1)) \cup {n} OBVIOUS
<1>s. \A kinds : \A i \in Sent(kinds, n - 1) : i \in Nat /\ i < n /\ i > 0 BY DEF Sent
<1>d. r.done = (\E i \in 1..(n - 1) : script[i] = "done") BY DEF Tells
<1>1. CASE r.done
  <2>1. Handle(r, n) = r BY <1>1 DEF Handle
  <2>2. \A kinds : Sent(kinds, n) = Sent(kinds, n - 1) BY <1>1, <1>d, SentNoMore
  <2>3. \E i \in 1..n : script[i] = "done" BY <1>1, <1>d, <1>n
  <2>4. Sent({"piece"}, n) = Sent({"piece"}, n - 1) /\ Sent(UsageKind, n) = Sent(UsageKind, n - 1)
    BY <2>2
  <2>5. r.done = (\E i \in 1..n : script[i] = "done") BY <1>t, <1>1, <2>3
  <2>6. Tells(r, n) BY <2>4, <2>5 DEF Tells
  <2> QED BY <2>1, <2>6
<1>2. CASE ~ r.done
  <2>1. \A i \in 1..(n - 1) : script[i] # "done" BY <1>2, <1>d
  <2>2. \A kinds : Sent(kinds, n)
                     = Sent(kinds, n - 1) \cup (IF script[n] \in kinds THEN {n} ELSE {})
    BY <2>1, SentOneMore
  <2>d. (\E i \in 1..n : script[i] = "done") <=> script[n] = "done" BY <2>1, <1>n
  <2>3. CASE script[n] = "piece"
    <3> DEFINE c == Append(r.content, n)
    <3>1. Handle(r, n) = [content |-> c, done |-> FALSE, usage |-> r.usage]
      BY <1>t, <1>2, <2>3 DEF Handle, UsageKind
    <3>2. Sent({"piece"}, n) = Sent({"piece"}, n - 1) \cup {n} /\ Sent(UsageKind, n) = Sent(UsageKind, n - 1)
      BY <2>2, <2>3 DEF UsageKind
    <3>3. /\ c \in Seq(Nat) /\ Len(c) = Len(r.content) + 1 /\ c[Len(r.content) + 1] = n
          /\ \A i \in 1..Len(r.content) : c[i] = r.content[i]
      BY <1>t, AppendProperties
    <3> HIDE DEF c
    <3>4. Len(r.content) \in Nat /\ DOMAIN c = 1..(Len(r.content) + 1)
          /\ DOMAIN r.content = 1..Len(r.content)
      BY <1>t, <3>3
    <3>5. InOrder(r.content, Sent({"piece"}, n - 1)) BY DEF Tells
    <3>6. \A i \in DOMAIN r.content : r.content[i] \in Sent({"piece"}, n - 1)
      BY <3>5 DEF InOrder
    <3>7. \A i, j \in DOMAIN c : i < j => c[i] < c[j]
      <4>1. TAKE i, j \in DOMAIN c
      <4>2. HAVE i < j
      <4>3. i \in DOMAIN r.content /\ c[i] = r.content[i] BY SMTT(40), <3>3, <3>4, <4>2
      <4>4. CASE j \in DOMAIN r.content BY <3>3, <3>4, <3>5, <4>2, <4>3, <4>4 DEF InOrder
      <4>5. CASE j = Len(r.content) + 1 BY <1>s, <3>3, <3>6, <4>3, <4>5
      <4> QED BY <3>4, <4>4, <4>5
    <3>8. {c[i] : i \in DOMAIN c} = Sent({"piece"}, n)
      <4>1. {r.content[i] : i \in DOMAIN r.content} = Sent({"piece"}, n - 1)
        BY <3>5 DEF InOrder
      <4>2. DOMAIN c = DOMAIN r.content \cup {Len(r.content) + 1} BY <3>4
      <4>3. \A i \in DOMAIN r.content : c[i] = r.content[i] BY <3>3, <3>4
      <4> QED BY ONLY <3>2, <3>3, <4>1, <4>2, <4>3
    <3>9. InOrder(c, Sent({"piece"}, n)) BY <3>7, <3>8 DEF InOrder
    <3>10. Handle(r, n) \in ReadType BY <1>t, <3>1, <3>3 DEF ReadType
    <3> QED BY <2>d, <2>3, <3>1, <3>2, <3>9, <3>10 DEF Tells
  <2>4. CASE script[n] \in UsageKind
    <3> DEFINE u == IF r.usage = 0 THEN n ELSE r.usage
    <3>1. Handle(r, n) = [content |-> r.content, done |-> FALSE, usage |-> u]
      BY <1>t, <1>2, <2>4 DEF Handle, UsageKind
    <3>2. Sent({"piece"}, n) = Sent({"piece"}, n - 1) /\ Sent(UsageKind, n) = Sent(UsageKind, n - 1) \cup {n}
      BY <2>2, <2>4 DEF UsageKind
    <3>3. u \in Nat /\ u # 0 /\ u \in Sent(UsageKind, n) /\ \A i \in Sent(UsageKind, n) : u <= i
      <4>1. CASE r.usage = 0
        <5>1. Sent(UsageKind, n - 1) = {} BY <4>1 DEF Tells
        <5> QED BY <1>n, <3>2, <4>1, <5>1
      <4>2. CASE r.usage # 0
        <5>1. r.usage \in Sent(UsageKind, n - 1)
              /\ \A i \in Sent(UsageKind, n - 1) : r.usage <= i
          BY <4>2 DEF Tells
        <5>2. r.usage <= n BY <1>s, <1>n, <1>t, <5>1
        <5> QED BY <1>t, <3>2, <4>2, <5>1, <5>2
      <4> QED BY <4>1, <4>2
    <3> HIDE DEF u
    <3>4. Handle(r, n) \in ReadType BY <1>t, <3>1, <3>3 DEF ReadType
    <3> QED BY <2>d, <2>4, <3>1, <3>2, <3>3, <3>4 DEF Tells, UsageKind
  <2>5. CASE script[n] = "done"
    <3>1. Handle(r, n) = [content |-> r.content, done |-> TRUE, usage |-> r.usage]
      BY <1>t, <1>2, <2>5 DEF Handle, UsageKind
    <3>2. Sent({"piece"}, n) = Sent({"piece"}, n - 1) /\ Sent(UsageKind, n) = Sent(UsageKind, n - 1)
      BY <2>2, <2>5 DEF UsageKind
    <3>3. Handle(r, n) \in ReadType BY <1>t, <3>1 DEF ReadType
    <3> QED BY <2>d, <2>5, <3>1, <3>2, <3>3 DEF Tells
  <2>6. CASE script[n] = "noise"
    <3>1. Handle(r, n) = r BY <1>2, <2>6 DEF Handle, UsageKind
    <3>2. Sent({"piece"}, n) = Sent({"piece"}, n - 1) /\ Sent(UsageKind, n) = Sent(UsageKind, n - 1)
      BY <2>2, <2>6 DEF UsageKind
    <3> QED BY <2>d, <2>6, <1>2, <3>1, <3>2 DEF Tells
  <2> QED BY <2>3, <2>4, <2>5, <2>6 DEF LineKind, UsageKind
<1> QED BY <1>1, <1>2, <1>t
(* A line leaves a reading of the right type, whatever was read before. *)
LEMMA HandleType ==
    ASSUME NEW r \in ReadType, NEW n \in Nat, script[n] \in LineKind
    PROVE  Handle(r, n) \in ReadType
<1>t. /\ r = [content |-> r.content, done |-> r.done, usage |-> r.usage]
      /\ r.content \in Seq(Nat) /\ r.done \in BOOLEAN /\ r.usage \in Nat
  BY DEF ReadType
<1>1. CASE r.done \/ script[n] = "noise" BY <1>1 DEF Handle, LineKind, UsageKind
<1>2. CASE ~ r.done /\ script[n] = "piece"
  <2>1. Handle(r, n) = [content |-> Append(r.content, n), done |-> FALSE, usage |-> r.usage]
    BY <1>t, <1>2 DEF Handle, UsageKind
  <2>2. Append(r.content, n) \in Seq(Nat) BY <1>t, AppendProperties
  <2> QED BY <1>t, <2>1, <2>2 DEF ReadType
<1>3. CASE ~ r.done /\ script[n] \in UsageKind
  <2> DEFINE u == IF r.usage = 0 THEN n ELSE r.usage
  <2>1. Handle(r, n) = [content |-> r.content, done |-> FALSE, usage |-> u]
    BY <1>t, <1>3 DEF Handle, UsageKind
  <2>2. u \in Nat BY <1>t
  <2> QED BY <1>t, <2>1, <2>2 DEF ReadType
<1>4. CASE ~ r.done /\ script[n] = "done"
  <2>1. Handle(r, n) = [content |-> r.content, done |-> TRUE, usage |-> r.usage]
    BY <1>t, <1>4 DEF Handle, UsageKind
  <2> QED BY <1>t, <2>1 DEF ReadType
<1> QED BY <1>1, <1>2, <1>3, <1>4, <1>t DEF LineKind, UsageKind

-----------------------------------------------------------------------------
(* A buffer of n units that begins with the line h + 1.                    *)

Holds(b, h, n) ==
    /\ b \in Seq((1..Len(script)) \X {"head", "end"}) /\ Len(b) = n
    /\ \A k \in 1..n : b[k] = Unit(2 * h + k)

(* Even units end a line, odd ones begin one. *)
LEMMA HeldLines ==
    ASSUME NEW b, NEW h \in Nat, NEW n \in Nat, Holds(b, h, n), NEW k \in 1..n
    PROVE  \/ \E g \in Nat \ {0} :
                 k = 2 * g /\ EndsLine(b, k) /\ b[k][1] = h + g /\ b[k][2] = "end"
           \/ \E g \in Nat : k = 2 * g + 1 /\ ~ EndsLine(b, k) /\ b[k][2] = "head"
<1>1. b[k] = Unit(2 * h + k) BY DEF Holds
<1>2. PICK g \in Nat : k = 2 * g \/ k = 2 * g + 1
  <2>1. k \in Nat OBVIOUS
  <2> QED BY <2>1, Halves
<1>3. CASE k = 2 * g
  <2>1. /\ g \in Nat \ {0} /\ k > 1 /\ k - 1 \in 1..n
        /\ h + g - 1 \in Nat /\ (h + g - 1) + 1 = h + g
    BY <1>2, <1>3
  <2>2. 2 * h + k = 2 * (h + g - 1) + 2 /\ 2 * h + (k - 1) = 2 * (h + g - 1) + 1
    BY <1>2, <1>3
  <2>3. b[k - 1] = Unit(2 * h + (k - 1)) BY <2>1 DEF Holds
  <2>4. /\ Unit(2 * (h + g - 1) + 2) = <<(h + g - 1) + 1, "end">>
        /\ Unit(2 * (h + g - 1) + 1) = <<(h + g - 1) + 1, "head">>
    BY <2>1, UnitIs
  <2>5. b[k] = <<h + g, "end">> BY ONLY <1>1, <2>1, <2>2, <2>4
  <2>6. b[k - 1] = <<h + g, "head">> BY ONLY <2>1, <2>2, <2>3, <2>4
  <2>7. b[k][1] = h + g /\ b[k][2] = "end" BY <2>5
  <2>8. EndsLine(b, k) BY <2>1, <2>6, <2>7 DEF EndsLine
  <2> QED BY <1>3, <2>1, <2>7, <2>8
<1>4. CASE k = 2 * g + 1
  <2>1. 2 * h + k = 2 * (h + g) + 1 /\ h + g \in Nat BY <1>2, <1>4
  <2>2. b[k] = <<h + g + 1, "head">> BY <1>1, <2>1, UnitIs
  <2>3. b[k][2] = "head" BY <2>2
  <2>4. ~ EndsLine(b, k) BY <2>3 DEF EndsLine
  <2> QED BY <1>2, <1>4, <2>3, <2>4
<1> QED BY <1>2, <1>3, <1>4

(* What is read through such a buffer is what its whole lines say. *)
LEMMA ReadThroughTells ==
    ASSUME script \in Seq(LineKind), read \in ReadType,
           NEW b, NEW h \in Nat, NEW n \in Nat, Holds(b, h, n),
           2 * h + n <= 2 * Len(script), Tells(read, h)
    PROVE  /\ ReadThrough(b) \in ReadType
           /\ \A g \in Nat : n = 2 * g \/ n = 2 * g + 1 => Tells(ReadThrough(b), h + g)
<1> DEFINE Step(r, k) == IF EndsLine(b, k) THEN Handle(r, b[k][1]) ELSE r
           Rec(f) == f = [k \in 0..n |-> IF k = 0 THEN read ELSE Step(f[k - 1], k)]
           up == CHOOSE f : Rec(f)
<1>0. b \in Seq((1..Len(script)) \X {"head", "end"}) /\ Len(b) = n /\ Len(script) \in Nat
  BY DEF Holds
<1>1. ReadThrough(b) = up[n] BY <1>0 DEF ReadThrough
<1>2. \A k \in 1..n : b[k][1] \in 1..Len(script) /\ script[b[k][1]] \in LineKind
  <2>1. TAKE k \in 1..n
  <2>2. b[k] \in (1..Len(script)) \X {"head", "end"} BY <1>0
  <2>3. b[k][1] \in 1..Len(script) BY <2>2
  <2> QED BY <2>3
<1>3. \A r \in ReadType, k \in 1..n : Step(r, k) \in ReadType
  BY <1>0, <1>2, HandleType
<1>4. PICK f \in [0..n -> ReadType] :
          f[0] = read /\ \A k \in 1..n : f[k] = Step(f[k - 1], k)
  <2> DEFINE step == [x \in ReadType \X (1..n) |-> Step(x[1], x[2])]
  <2> HIDE DEF Step
  <2>1. step \in [ReadType \X (1..n) -> ReadType] BY <1>3
  <2>2. \A r \in ReadType, k \in 1..n : step[<<r, k>>] = Step(r, k) OBVIOUS
  <2> HIDE DEF step
  <2>3. PICK f \in [0..n -> ReadType] :
           f[0] = read /\ \A k \in 1..n : f[k] = step[<<f[k - 1], k>>]
    <3>1. read \in ReadType OBVIOUS
    <3> QED BY ZenonT(60), <2>1, <3>1, RecursionUpTo
  <2>4. \A k \in 1..n : f[k - 1] \in ReadType OBVIOUS
  <2> QED BY <2>2, <2>3, <2>4
<1> HIDE DEF Step
<1>5. Rec(f)
  <2>1. \A k \in 0..n : f[k] = IF k = 0 THEN read ELSE Step(f[k - 1], k) BY <1>4
  <2> QED BY <2>1
<1>6. Rec(up)
  <2> HIDE DEF Rec
  <2> QED BY <1>5
<1> HIDE DEF up
<1>7. up[0] = read /\ \A k \in 1..n : up[k] = Step(up[k - 1], k)
  <2>1. \A k \in 0..n : up[k] = IF k = 0 THEN read ELSE Step(up[k - 1], k) BY <1>6
  <2>2. 0 \in 0..n /\ \A k \in 1..n : k \in 0..n /\ k # 0 OBVIOUS
  <2> QED BY <2>1, <2>2
<1> DEFINE T == {k \in 0..n :
                   /\ up[k] \in ReadType
                   /\ \A g \in Nat : k = 2 * g \/ k = 2 * g + 1 => Tells(up[k], h + g)}
<1>8. 0 \in T
  <2>1. \A g \in Nat : 0 = 2 * g \/ 0 = 2 * g + 1 => h + g = h OBVIOUS
  <2> QED BY <1>7, <2>1
<1>9. ASSUME NEW k \in 1..n, k - 1 \in T PROVE k \in T
  <2>1. /\ up[k - 1] \in ReadType /\ k \in 0..n
        /\ \A g \in Nat : k - 1 = 2 * g \/ k - 1 = 2 * g + 1 => Tells(up[k - 1], h + g)
    BY <1>9
  <2>2. up[k] = Step(up[k - 1], k) /\ up[k] \in ReadType BY <1>3, <1>7, <2>1
  <2>3. CASE \E g \in Nat \ {0} :
                k = 2 * g /\ EndsLine(b, k) /\ b[k][1] = h + g /\ b[k][2] = "end"
    <3>1. PICK g \in Nat \ {0} : k = 2 * g /\ EndsLine(b, k) /\ b[k][1] = h + g
      BY <2>3
    <3>2. g - 1 \in Nat /\ k - 1 = 2 * (g - 1) + 1 /\ h + (g - 1) = (h + g) - 1
          /\ h + g \in Nat \ {0}
      BY <3>1
    <3>3. Tells(up[k - 1], (h + g) - 1) BY <2>1, <3>2
    <3>4. script[h + g] \in LineKind BY <1>2, <3>1
    <3>5. Tells(Handle(up[k - 1], h + g), h + g) BY <2>1, <3>2, <3>3, <3>4, HandleTells
    <3>6. up[k] = Handle(up[k - 1], h + g) BY <2>2, <3>1 DEF Step
    <3>7. \A x \in Nat : k = 2 * x \/ k = 2 * x + 1 => x = g BY <3>1
    <3>8. Tells(up[k], h + g) BY <3>5, <3>6
    <3>9. \A x \in Nat : k = 2 * x \/ k = 2 * x + 1 => Tells(up[k], h + x) BY <3>7, <3>8
    <3> QED BY <2>1, <2>2, <3>9
  <2>4. CASE \E g \in Nat : k = 2 * g + 1 /\ ~ EndsLine(b, k) /\ b[k][2] = "head"
    <3>1. PICK g \in Nat : k = 2 * g + 1 /\ ~ EndsLine(b, k) BY <2>4
    <3>2. k - 1 = 2 * g BY <3>1
    <3>3. up[k] = up[k - 1] BY <2>2, <3>1 DEF Step
    <3>4. Tells(up[k], h + g) BY <2>1, <3>2, <3>3
    <3>5. \A x \in Nat : k = 2 * x \/ k = 2 * x + 1 => x = g BY <3>1
    <3>6. \A x \in Nat : k = 2 * x \/ k = 2 * x + 1 => Tells(up[k], h + x) BY <3>4, <3>5
    <3> QED BY <2>1, <2>2, <3>6
  <2> QED BY <2>3, <2>4, HeldLines
<1>10. n \in T
  <2> HIDE DEF T
  <2>1. 0..n \subseteq T BY <1>8, <1>9, InductionUpTo
  <2> QED BY <2>1
<1> QED BY <1>1, <1>10

LEMMA OneElement ==
    ASSUME NEW S, NEW s \in Seq(S), Len(s) = 1
    PROVE  s = <<s[1]>>
OBVIOUS

(* What stays of such a buffer is its last unit, if that begins a line. *)
LEMMA RestHolds ==
    ASSUME NEW b, NEW h \in Nat, NEW n \in Nat \ {0}, Holds(b, h, n)
    PROVE  Rest(b) = IF n % 2 = 1 THEN <<Unit(2 * h + n)>> ELSE <<>>
<1> DEFINE S == (1..Len(script)) \X {"head", "end"}
<1>0. b \in Seq(S) /\ Len(b) = n /\ n \in Nat /\ n >= 1 /\ DOMAIN b = 1..n
      /\ \A k \in 1..n : b[k] \in S
  BY DEF Holds
<1>1. \A k \in 1..n : k \in Ends(b) <=> \E g \in Nat : k = 2 * g
  <2>1. TAKE k \in 1..n
  <2>2. \A g, x \in Nat : ~ (2 * g = 2 * x + 1) OBVIOUS
  <2>3. \/ \E g \in Nat : k = 2 * g /\ b[k][2] = "end"
        \/ \E g \in Nat : k = 2 * g + 1 /\ b[k][2] = "head"
    <3>1. \/ \E g \in Nat \ {0} :
                k = 2 * g /\ EndsLine(b, k) /\ b[k][1] = h + g /\ b[k][2] = "end"
          \/ \E g \in Nat : k = 2 * g + 1 /\ ~ EndsLine(b, k) /\ b[k][2] = "head"
      BY HeldLines
    <3> QED BY ONLY <3>1
  <2> QED BY <1>0, <2>2, <2>3 DEF Ends
<1>2. Ends(b) \subseteq 1..n BY <1>0 DEF Ends
<1> HIDE DEF S
<1>3. CASE n % 2 = 1
  <2>1. PICK g \in Nat : n = 2 * g + 1 BY <1>0, <1>3, Halves
  <2>2. n \notin Ends(b)
    <3>1. \A x \in Nat : ~ (n = 2 * x) BY <2>1
    <3> QED BY <1>0, <1>1, <3>1
  <2>3. CASE n = 1
    <3>1. Ends(b) = {} BY <1>2, <2>2, <2>3
    <3>2. b = <<b[1]>> BY <1>0, <2>3, OneElement
    <3>3. b[1] = Unit(2 * h + 1) BY <2>3 DEF Holds
    <3> QED BY <1>3, <2>3, <3>1, <3>2, <3>3 DEF Rest
  <2>4. CASE n # 1
    <3>1. n - 1 \in Ends(b)
      <4>1. n - 1 \in 1..n /\ n - 1 = 2 * g BY <1>0, <2>1, <2>4
      <4> QED BY <1>1, <4>1
    <3>2. \A k \in Ends(b) : k <= n - 1 BY <1>0, <1>2, <2>2
    <3>3. Max(Ends(b)) = n - 1
      <4>1. \A x \in Ends(b) : (\A y \in Ends(b) : x >= y) => x = n - 1
        BY <1>0, <1>2, <3>1, <3>2
      <4>2. \A y \in Ends(b) : n - 1 >= y BY <1>0, <1>2, <3>2
      <4>3. n - 1 \in Ends(b) /\ \A y \in Ends(b) : n - 1 >= y BY <3>1, <4>2
      <4> QED BY ONLY <4>1, <4>3 DEF Max
    <3>4. Rest(b) = SubSeq(b, (n - 1) + 1, n) BY <1>0, <3>1, <3>3 DEF Rest
    <3>5. (n - 1) + 1 = n BY <1>0
    <3> DEFINE r == SubSeq(b, n, n)
    <3>6. r \in Seq(S) /\ Len(r) = 1 /\ r[1] = b[n]
      <4>1. n..n = {n} /\ \A i \in n..n : b[i] \in S BY <1>0
      <4>2. /\ r \in Seq(S) /\ Len(r) = IF n <= n THEN n - n + 1 ELSE 0
            /\ \A i \in 1..(n - n + 1) : r[i] = b[n + i - 1]
        BY <1>0, <4>1, SubSeqProperties
      <4>3. n <= n /\ n - n + 1 = 1 /\ 1 \in 1..1 /\ n + 1 - 1 = n BY <1>0
      <4> HIDE DEF r
      <4> QED BY <4>2, <4>3
    <3> HIDE DEF r
    <3>7. r = <<b[n]>> BY <3>6, OneElement
    <3>8. b[n] = Unit(2 * h + n) BY <1>0 DEF Holds
    <3> QED BY <1>3, <3>4, <3>5, <3>7, <3>8 DEF r
  <2> QED BY <2>3, <2>4
<1>4. CASE n % 2 # 1
  <2>1. PICK g \in Nat : n = 2 * g BY <1>0, <1>4, Halves
  <2>2. n \in Ends(b) BY <1>0, <1>1, <2>1
  <2>3. Max(Ends(b)) = n
    <3>1. \A x \in Ends(b) : (\A y \in Ends(b) : x >= y) => x = n BY <1>0, <1>2, <2>2
    <3>2. n \in Ends(b) /\ \A y \in Ends(b) : n >= y BY <1>0, <1>2, <2>2
    <3> QED BY ONLY <3>1, <3>2 DEF Max
  <2>4. Rest(b) = SubSeq(b, n + 1, n) BY <1>0, <2>2, <2>3 DEF Rest
  <2>5. SubSeq(b, n + 1, n) = <<>> BY <1>0, SubSeqEmpty
  <2> QED BY <1>4, <2>4, <2>5
<1> QED BY <1>3, <1>4
-----------------------------------------------------------------------------
(* The cache *)

LEMMA ClosenessFacts ==
    ASSUME cache \in Seq(Entries), NEW p \in Prompts
    PROVE  /\ \A i \in DOMAIN cache : cache[i].prompt \in Prompts
           /\ \A i \in DOMAIN cache : Closeness(p, i) \in 0..100
           /\ \A q \in Prompts : Similarity[<<p, q>>] = Similarity[<<q, p>>]
<1>1. \A i \in DOMAIN cache : cache[i] \in Entries BY LenProperties, ElementOfSeq
<1>2. \A i \in DOMAIN cache : cache[i].prompt \in Prompts
  <2>1. Keys \subseteq Prompts BY ClientAssumption
  <2> QED BY <1>1, <2>1 DEF Entries
<1>3. Similarity \in [Prompts \X Prompts -> 0..100]
      /\ \A q \in Prompts : Similarity[<<p, q>>] = Similarity[<<q, p>>]
  BY ClientAssumption
<1>4. \A q \in Prompts : Similarity[<<p, q>>] \in 0..100 BY <1>3
<1> QED BY <1>2, <1>3, <1>4 DEF Closeness

(* A lookup without a hit has seen no entry that is close enough. *)
LEMMA NoHit ==
    ASSUME cache \in Seq(Entries), NEW p \in Prompts, Hits(p) = {}
    PROVE  \A i \in DOMAIN cache : Closeness(p, i) < MinHit
<1> SUFFICES ASSUME NEW k \in DOMAIN cache, ~ (Closeness(p, k) < MinHit) PROVE FALSE
  OBVIOUS
<1>0. MinHit \in Nat BY ClientAssumption
<1>1. \A i \in DOMAIN cache : Closeness(p, i) \in Nat /\ Closeness(p, i) <= 100
  <2>1. \A i \in DOMAIN cache : Closeness(p, i) \in 0..100 BY ClosenessFacts
  <2>2. \A x \in 0..100 : x \in Nat /\ x <= 100 OBVIOUS
  <2> QED BY ONLY <2>1, <2>2
<1>2. DOMAIN cache = 1..Len(cache) /\ Len(cache) \in Nat OBVIOUS
<1> DEFINE Gaps == {100 - Closeness(p, i) : i \in DOMAIN cache}
<1>3. PICK g \in Gaps : \A x \in Gaps : g <= x
  <2>1. Gaps \subseteq Nat BY <1>1
  <2>2. Gaps # {} OBVIOUS
  <2> HIDE DEF Gaps
  <2> QED BY <2>1, <2>2, LeastNat
<1>4. PICK m \in DOMAIN cache : g = 100 - Closeness(p, m) BY <1>3
<1>5. \A j \in DOMAIN cache : Closeness(p, j) <= Closeness(p, m)
  <2>1. TAKE j \in DOMAIN cache
  <2>2. g <= 100 - Closeness(p, j) BY <1>3
  <2> QED BY <1>1, <1>4, <2>2
<1> DEFINE Best == {i \in DOMAIN cache : Closeness(p, i) = Closeness(p, m)}
<1>6. PICK b \in Best : \A x \in Best : b <= x
  <2>1. Best \subseteq Nat BY <1>2
  <2>2. Best # {} OBVIOUS
  <2> HIDE DEF Best
  <2> QED BY <2>1, <2>2, LeastNat
<1>7. b \in DOMAIN cache /\ Closeness(p, b) = Closeness(p, m) BY <1>6
<1>8. \A j \in 1..(b - 1) : Closeness(p, j) < Closeness(p, b)
  <2>1. TAKE j \in 1..(b - 1)
  <2>2. j \in DOMAIN cache /\ ~ (b <= j) BY <1>2, <1>7
  <2>3. j \notin Best BY <1>6, <2>2
  <2>4. Closeness(p, j) # Closeness(p, m) BY <2>2, <2>3
  <2> QED BY <1>1, <1>4, <1>5, <1>7, <2>2, <2>4
<1>9. Closeness(p, b) >= MinHit
  <2>1. Closeness(p, k) <= Closeness(p, b) BY <1>5, <1>7
  <2> QED BY <1>0, <1>1, <1>7, <2>1
<1>10. b \in Hits(p) BY <1>5, <1>7, <1>8, <1>9 DEF Hits
<1> QED BY <1>10

(* An answer that is kept is a new entry, far from all the others. *)
LEMMA KeepFacts ==
    ASSUME IInv, pc # "idle", NEW text \in Seq(Nat), Keep(text)
    PROVE  /\ cache' \in Seq(Entries) /\ Len(cache') <= Capacity /\ NoNearDuplicates'
           /\ \/ cache' = cache
              \/ cache' = Append(cache, [prompt |-> request.prompt, response |-> text])
<1>t. /\ cache \in Seq(Entries) /\ Len(cache) <= Capacity /\ NoNearDuplicates /\ NotInCache
      /\ request.prompt \in Prompts
  BY DEF IInv, TypeOK
<1>1. CASE cache' = cache
  <2>1. NoNearDuplicates' BY ONLY <1>t, <1>1 DEF NoNearDuplicates
  <2> QED BY <1>t, <1>1, <2>1
<1>2. CASE cache' # cache
  <2> DEFINE e == [prompt |-> request.prompt, response |-> text]
  <2>1. /\ Cacheable(request.kind, request.prompt) /\ Len(cache) < Capacity
        /\ cache' = Append(cache, e)
    BY <1>2 DEF Keep, Store
  <2>2. e \in Entries /\ e.prompt = request.prompt BY <2>1 DEF Cacheable, Entries
  <2> HIDE DEF e
  <2> PICK c : c = cache' OBVIOUS
  <2>3. /\ c \in Seq(Entries) /\ Len(c) = Len(cache) + 1 /\ c[Len(cache) + 1] = e
        /\ \A i \in 1..Len(cache) : c[i] = cache[i]
    BY <1>t, <2>1, <2>2, AppendProperties
  <2>4. Len(cache) \in Nat /\ DOMAIN cache = 1..Len(cache) /\ DOMAIN c = 1..(Len(cache) + 1)
    BY <1>t, <2>3
  <2>5. \A i \in DOMAIN cache :
           /\ Similarity[<<request.prompt, cache[i].prompt>>] < MinHit
           /\ Similarity[<<cache[i].prompt, request.prompt>>] < MinHit
    <3>1. TAKE i \in DOMAIN cache
    <3>2. Similarity[<<request.prompt, cache[i].prompt>>] < MinHit
      BY <1>2, <1>t, <2>1 DEF NotInCache, Closeness
    <3> QED BY <1>t, <3>2, ClosenessFacts
  <2>6. ASSUME NEW i \in DOMAIN c, NEW j \in DOMAIN c, i # j
        PROVE  Similarity[<<c[i].prompt, c[j].prompt>>] < MinHit
    <3>1. CASE i \in DOMAIN cache /\ j \in DOMAIN cache
      BY <1>t, <2>3, <2>4, <2>6, <3>1 DEF NoNearDuplicates
    <3>2. CASE i \in DOMAIN cache /\ j = Len(cache) + 1
      BY <2>2, <2>3, <2>4, <2>5, <3>2
    <3>3. CASE i = Len(cache) + 1 /\ j \in DOMAIN cache
      BY <2>2, <2>3, <2>4, <2>5, <3>3
    <3> QED BY <2>4, <2>6, <3>1, <3>2, <3>3
  <2>7. NoNearDuplicates'
    <3>1. c = cache' OBVIOUS
    <3> QED BY ONLY <2>6, <3>1 DEF NoNearDuplicates
  <2>8. Len(c) <= Capacity
    <3>1. Capacity \in Nat BY ClientAssumption
    <3> QED BY <2>1, <2>3, <2>4, <3>1
  <2> QED BY <1>2, <2>1, <2>3, <2>7, <2>8 DEF e
<1> QED BY <1>1, <1>2

(* The buffer when a fragment of n units has arrived. *)
LEMMA FragmentHolds ==
    ASSUME IInv, pc = "stream", NEW n \in Nat \ {0}, received + n <= 2 * Len(script)
    PROVE  LET b == buffer \o [k \in 1..n |-> Unit(received + k)]
               m == (received % 2) + n
           IN  /\ Holds(b, received \div 2, m) /\ m \in Nat \ {0}
               /\ 2 * (received \div 2) + m = received + n
<1> DEFINE U == (1..Len(script)) \X {"head", "end"}
           u == [k \in 1..n |-> Unit(received + k)]
           b == buffer \o u
           h == received \div 2
           m == (received % 2) + n
<1>t. /\ script \in Seq(LineKind) /\ Len(script) \in Nat /\ received \in Nat
      /\ received <= 2 * Len(script) /\ buffer \in Seq(U)
      /\ buffer = IF received % 2 = 1 THEN <<Unit(received)>> ELSE <<>>
  <2>1. /\ script \in Seq(LineKind) /\ received \in 0..(2 * Len(script))
        /\ buffer \in Seq(U) /\ BufferTellsTheRest
    BY DEF IInv, TypeOK
  <2> HIDE DEF U
  <2>2. Len(script) \in Nat BY <2>1
  <2> QED BY <2>1, <2>2 DEF BufferTellsTheRest
<1>h. /\ h \in Nat
      /\ \/ received % 2 = 1 /\ received = 2 * h + 1
         \/ received % 2 = 0 /\ received = 2 * h
  BY <1>t, Halves
<1> HIDE DEF h
<1>m. m \in Nat \ {0} /\ 2 * h + m = received + n /\ n \in Nat
  <2>1. n \in Nat /\ n > 0 OBVIOUS
  <2>2. CASE received % 2 = 1 /\ received = 2 * h + 1
    <3>1. m = 1 + n BY <2>2
    <3> HIDE DEF m
    <3> QED BY <1>h, <2>1, <2>2, <3>1
  <2>3. CASE received % 2 = 0 /\ received = 2 * h
    <3>1. m = 0 + n BY <2>3
    <3> HIDE DEF m
    <3> QED BY <1>h, <2>1, <2>3, <3>1
  <2> QED BY <1>h, <2>2, <2>3
<1> HIDE DEF m
<1>1. \A k \in 1..n : Unit(received + k) \in U
  <2>1. TAKE k \in 1..n
  <2>2. /\ received + k \in Nat /\ received + k <= 2 * Len(script) /\ received + k >= 1
        /\ k \in Nat
    BY <1>t
  <2>3. PICK g \in Nat : received + k = 2 * g + 1 \/ received + k = 2 * g + 2
    <3>1. PICK x \in Nat : received + k = x + 1 BY <1>t, <2>2
    <3>2. PICK g \in Nat : x = 2 * g + 1 \/ x = 2 * g BY Halves
    <3> QED BY <3>1, <3>2
  <2>4. g + 1 \in 1..Len(script) BY <1>t, <2>2, <2>3
  <2>5. CASE received + k = 2 * g + 1 BY <2>4, <2>5, UnitIs
  <2>6. CASE received + k = 2 * g + 2 BY <2>4, <2>6, UnitIs
  <2> QED BY <2>3, <2>5, <2>6
<1>2. u \in [1..n -> U] BY <1>1
<1>3. u \in Seq(U) /\ Len(u) = n /\ \A k \in 1..n : u[k] = Unit(received + k)
  <2>1. \A k \in 1..n : u[k] = Unit(received + k) OBVIOUS
  <2> HIDE DEF u, U
  <2> QED BY <1>2, <1>m, <2>1
<1> HIDE DEF u, U
<1>4. /\ b \in Seq(U) /\ Len(b) = Len(buffer) + n
      /\ \A k \in 1..(Len(buffer) + n) :
            b[k] = IF k <= Len(buffer) THEN buffer[k] ELSE u[k - Len(buffer)]
  BY <1>t, <1>3, ConcatProperties
<1> HIDE DEF b
<1>5. ASSUME received % 2 = 1, received = 2 * h + 1 PROVE Holds(b, h, m)
  <2>1. buffer = <<Unit(received)>> BY <1>t, <1>5
  <2>2. Len(buffer) = 1 /\ buffer[1] = Unit(received) BY <2>1
  <2>3. m = 1 + n BY <1>5 DEF m
  <2>4. ASSUME NEW k \in 1..m PROVE b[k] = Unit(2 * h + k)
    <3>1. CASE k = 1
      <4>1. b[1] = Unit(received) BY <1>4, <1>m, <2>2, <2>3
      <4> QED BY <1>5, <3>1, <4>1
    <3>2. CASE k # 1
      <4>1. k - 1 \in 1..n /\ ~ (k <= 1) /\ received + (k - 1) = 2 * h + k
        BY <1>5, <1>h, <1>m, <2>3, <3>2
      <4>2. b[k] = u[k - 1] BY <1>4, <2>2, <2>3, <4>1
      <4> QED BY <1>3, <4>1, <4>2
    <3> QED BY <3>1, <3>2
  <2>5. Len(b) = m BY <1>4, <2>2, <2>3
  <2> QED BY <1>4, <2>4, <2>5 DEF Holds, U
<1>6. ASSUME received % 2 = 0, received = 2 * h PROVE Holds(b, h, m)
  <2>1. buffer = <<>> /\ Len(buffer) = 0 BY <1>t, <1>6
  <2>3. m = n BY <1>6, <1>m
  <2>4. ASSUME NEW k \in 1..m PROVE b[k] = Unit(2 * h + k)
    <3>1. k \in 1..n /\ ~ (k <= 0) /\ received + k = 2 * h + k /\ k - 0 = k
      BY <1>6, <1>m, <2>3
    <3>2. b[k] = u[k] BY <1>4, <2>1, <3>1
    <3> QED BY <1>3, <3>1, <3>2
  <2>5. Len(b) = m BY <1>4, <1>m, <2>1, <2>3
  <2> QED BY <1>4, <2>4, <2>5 DEF Holds, U
<1>7. Holds(b, h, m) BY <1>h, <1>5, <1>6
<1> QED BY <1>m, <1>7 DEF b, u, h, m
-----------------------------------------------------------------------------
LEMMA NoStreamTypes ==
    /\ <<>> \in Seq(LineKind) /\ <<>> \in Seq((1..Len(<<>>)) \X {"head", "end"})
    /\ 0 \in 0..(2 * Len(<<>>)) /\ Nothing \in ReadType
<1>1. <<>> \in Seq(LineKind) /\ <<>> \in Seq((1..Len(<<>>)) \X {"head", "end"})
      /\ Len(<<>>) = 0
  BY EmptySeq
<1>2. 0 \in 0..(2 * 0) OBVIOUS
<1> QED BY <1>1, <1>2, EmptyTells

LEMMA ReturnedFacts ==
    ASSUME NEW ok \in BOOLEAN, NEW text \in Seq(Nat)
    PROVE  /\ Returned(ok, text) \in Seq(Answers) /\ Len(Returned(ok, text)) = 1
           /\ Returned(ok, text) # <<>>
           /\ Returned(ok, text)[1].ok = ok /\ Returned(ok, text)[1].text = text
<1> DEFINE a == [ok |-> ok, text |-> text]
<1>1. a \in Answers /\ a.ok = ok /\ a.text = text BY DEF Answers
<1> HIDE DEF a
<1>2. <<a>> \in Seq(Answers) /\ Len(<<a>>) = 1 /\ <<a>>[1] = a /\ <<a>> # <<>> BY <1>1
<1> QED BY <1>1, <1>2 DEF Returned, a

LEMMA OneFlag == \A ok \in BOOLEAN : <<ok>> \in Seq(BOOLEAN)
OBVIOUS

LEMMA InitIInv == Init => IInv
<1> SUFFICES ASSUME Init PROVE IInv OBVIOUS
<1>1. /\ has_key \in BOOLEAN /\ pc = "idle" /\ request \in [kind : {"plain"}, prompt : Prompts]
      /\ script = <<>> /\ received = 0 /\ buffer = <<>> /\ read = Nothing
      /\ answer = <<>> /\ recorded = 0 /\ timed = <<>> /\ cache = <<>>
  BY DEF Init
<1>2. request \in [kind : Kinds, prompt : Prompts] BY <1>1 DEF Kinds
<1>3. /\ <<>> \in Seq(Answers) /\ <<>> \in Seq(BOOLEAN) /\ <<>> \in Seq(Entries)
      /\ Len(<<>>) = 0 /\ \A i \in DOMAIN <<>> : FALSE
  BY EmptySeq
<1>4. 0 <= Capacity /\ Len(cache) <= Capacity /\ Len(answer) <= 1
  <2>1. Capacity \in Nat BY ClientAssumption
  <2> QED BY <1>1, <1>3, <2>1
<1>5. TypeOK BY <1>1, <1>2, <1>3, <1>4, NoStreamTypes DEF TypeOK
<1>6. NoNearDuplicates BY <1>1, <1>3 DEF NoNearDuplicates
<1> QED BY <1>1, <1>5, <1>6
      DEF IInv, NothingReturnedYet, NothingWithoutKey, NotInCache, BufferTellsTheRest,
          ReadIsWhatArrived, EveryRequestAccounted

(* A request is over: what it returned is accounted for, and the cache is   *)
(* as it was or has the answer.                                            *)
LEMMA OverKeepsIInv ==
    ASSUME IInv, has_key' = has_key, pc' = "idle",
           request' \in [kind : Kinds, prompt : Prompts],
           NEW ok \in BOOLEAN, NEW text \in Seq(Nat), answer' = Returned(ok, text),
           timed' = IF has_key THEN <<ok>> ELSE <<>>, recorded' = IF ok THEN 1 ELSE 0,
           has_key \/ cache' = <<>>,
           UNCHANGED streamVars \/ NoStream,
           cache' \in Seq(Entries), Len(cache') <= Capacity, NoNearDuplicates'
    PROVE  IInv'
<1>1. /\ answer' \in Seq(Answers) /\ Len(answer') <= 1 /\ answer'[1].ok = ok
      /\ timed' \in Seq(BOOLEAN) /\ recorded' \in 0..1
  <2>1. PICK a : a = Returned(ok, text) OBVIOUS
  <2>2. a \in Seq(Answers) /\ Len(a) = 1 /\ a[1].ok = ok BY <2>1, ReturnedFacts
  <2>3. answer' = a BY <2>1
  <2>4. answer' \in Seq(Answers) /\ Len(answer') <= 1 /\ answer'[1].ok = ok
    <3>1. a[1].ok = ok BY ONLY <2>2, Zenon
    <3>2. answer'[1].ok = ok BY ONLY <3>1, <2>3, Zenon
    <3>3. a \in Seq(Answers) /\ Len(a) = 1 BY ONLY <2>2, Zenon
    <3>4. answer' \in Seq(Answers) /\ Len(answer') = 1 BY ONLY <3>3, <2>3, Zenon
    <3>5. Len(answer') <= 1 BY ONLY <3>4
    <3> QED BY ONLY <3>2, <3>4, <3>5, Zenon
  <2>5. timed' \in Seq(BOOLEAN) BY OneFlag, EmptySeq
  <2>6. recorded' \in 0..1 OBVIOUS
  <2> QED BY ONLY <2>4, <2>5, <2>6
<1>2. /\ script' \in Seq(LineKind) /\ received' \in 0..(2 * Len(script'))
      /\ buffer' \in Seq((1..Len(script')) \X {"head", "end"}) /\ read' \in ReadType
  <2>1. CASE UNCHANGED streamVars
    <3>1. script' = script /\ received' = received /\ buffer' = buffer /\ read' = read
      BY <2>1 DEF streamVars
    <3>2. /\ script \in Seq(LineKind) /\ received \in 0..(2 * Len(script))
          /\ buffer \in Seq((1..Len(script)) \X {"head", "end"}) /\ read \in ReadType
      BY DEF IInv, TypeOK
    <3> QED BY ONLY <3>1, <3>2
  <2>2. CASE NoStream
    <3>1. script' = <<>> /\ received' = 0 /\ buffer' = <<>> /\ read' = Nothing
      BY <2>2 DEF NoStream
    <3> QED BY ONLY <3>1, NoStreamTypes
  <2> QED BY <2>1, <2>2
<1>3. TypeOK'
  <2>1. has_key' \in BOOLEAN BY DEF IInv, TypeOK
  <2> QED BY <1>1, <1>2, <2>1 DEF TypeOK
<1>6. NothingWithoutKey' BY DEF NothingWithoutKey
<1>4. NothingReturnedYet' /\ NotInCache' /\ BufferTellsTheRest' /\ ReadIsWhatArrived'
  BY DEF NothingReturnedYet, NotInCache, BufferTellsTheRest, ReadIsWhatArrived
<1>5. EveryRequestAccounted'
  <2>1. /\ timed' = IF has_key' THEN <<answer'[1].ok>> ELSE <<>>
        /\ recorded' = IF answer'[1].ok THEN 1 ELSE 0
    BY <1>1
  <2>2. pc' = "idle" /\ pc' # "thrown" OBVIOUS
  <2> QED BY ONLY <2>1, <2>2, Zenon DEF EveryRequestAccounted
<1> QED BY <1>3, <1>4, <1>5, <1>6 DEF IInv

(* The types of the cache and its answers. *)
LEMMA CacheTypes ==
    ASSUME IInv
    PROVE  /\ cache \in Seq(Entries) /\ Len(cache) <= Capacity /\ NoNearDuplicates
           /\ \A i \in DOMAIN cache : cache[i].response \in Seq(Nat)
<1>1. cache \in Seq(Entries) /\ Len(cache) <= Capacity /\ NoNearDuplicates
  BY DEF IInv, TypeOK
<1>2. \A i \in DOMAIN cache : cache[i] \in Entries BY <1>1, LenProperties, ElementOfSeq
<1> QED BY <1>1, <1>2 DEF Entries

LEMMA SameCache == ASSUME IInv, cache' = cache
                   PROVE  /\ cache' \in Seq(Entries) /\ Len(cache') <= Capacity
                          /\ NoNearDuplicates'
<1>1. NoNearDuplicates' BY CacheTypes DEF NoNearDuplicates
<1> QED BY <1>1, CacheTypes

LEMMA AskHitKeepsIInv == IInv /\ AskHit => IInv'
<1> SUFFICES ASSUME IInv, AskHit PROVE IInv' OBVIOUS
<1>1. PICK kind \in Kinds, p \in Prompts :
         /\ request' = [kind |-> kind, prompt |-> p]
         /\ \E i \in Hits(p) : answer' = Returned(TRUE, cache[i].response)
  BY DEF AskHit
<1>2. PICK i \in Hits(p) : answer' = Returned(TRUE, cache[i].response) BY <1>1
<1>3. cache[i].response \in Seq(Nat) BY CacheTypes DEF Hits
<1>4. request' \in [kind : Kinds, prompt : Prompts] BY <1>1
<1>5. /\ pc' = "idle" /\ timed' = <<TRUE>> /\ recorded' = 1 /\ UNCHANGED streamVars
      /\ cache' = cache /\ has_key' = has_key
  BY DEF AskHit
<1>6. has_key
  <2>1. cache # <<>> BY <1>2 DEF Hits
  <2> QED BY <2>1 DEF IInv, NothingWithoutKey
<1> QED BY <1>2, <1>3, <1>4, <1>5, <1>6, SameCache, OverKeepsIInv

LEMMA AskWithoutKeyKeepsIInv == IInv /\ AskWithoutKey => IInv'
<1> SUFFICES ASSUME IInv, AskWithoutKey PROVE IInv' OBVIOUS
<1>1. request' \in [kind : Kinds, prompt : Prompts] BY DEF AskWithoutKey
<1>2. /\ pc' = "idle" /\ ~ has_key /\ has_key' = has_key /\ timed' = <<>>
      /\ recorded' = 0 /\ answer' = Returned(FALSE, <<>>) /\ UNCHANGED streamVars
      /\ cache' = cache
  BY DEF AskWithoutKey
<1>3. cache' = <<>> BY <1>2 DEF IInv, NothingWithoutKey
<1>4. <<>> \in Seq(Nat) BY EmptySeq
<1> QED BY <1>1, <1>2, <1>3, <1>4, SameCache, OverKeepsIInv

LEMMA AskServerKeepsIInv == IInv /\ AskServer => IInv'
<1> SUFFICES ASSUME IInv, AskServer PROVE IInv' OBVIOUS
<1>1. PICK kind \in Kinds, p \in Prompts :
         /\ request' = [kind |-> kind, prompt |-> p]
         /\ Cacheable(kind, p) => Hits(p) = {}
         /\ \/ pc' = "stream" /\ script' \in Scripts
            \/ pc' = "reply" /\ script' = <<>>
  BY DEF AskServer
<1>2. /\ received' = 0 /\ buffer' = <<>> /\ read' = Nothing
      /\ answer' = <<>> /\ recorded' = 0 /\ timed' = <<>> /\ cache' = cache
      /\ has_key /\ has_key' = has_key /\ pc' \notin {"idle", "thrown"}
  BY DEF AskServer
<1>3. request' \in [kind : Kinds, prompt : Prompts]
      /\ request'.kind = kind /\ request'.prompt = p
  BY <1>1
<1>4. script' \in Seq(LineKind)
  <2>1. CASE script' \in Scripts
    <3>1. PICK m \in 0..MaxLines : script' \in [1..m -> LineKind]
      BY <2>1 DEF Scripts, BoundedSeq, SeqOf
    <3>2. MaxLines \in Nat BY ClientAssumption
    <3>3. m \in Nat BY <3>1, <3>2
    <3> QED BY <3>1, <3>3
  <2>2. CASE script' = <<>> BY <2>2, NoStreamTypes
  <2> QED BY <1>1, <2>1, <2>2
<1>5. /\ <<>> \in Seq(Answers) /\ <<>> \in Seq(BOOLEAN) /\ Len(<<>>) = 0
      /\ <<>> \in Seq((1..Len(script')) \X {"head", "end"}) /\ Nothing \in ReadType
  BY EmptySeq, NoStreamTypes
<1>6. received' \in 0..(2 * Len(script'))
  <2>1. Len(script') \in Nat BY <1>4
  <2> QED BY <1>2, <2>1
<1>7. TypeOK'
  <2>1. pc' \in {"reply", "stream"} /\ has_key' \in BOOLEAN /\ recorded' \in 0..1 /\ Len(answer') <= 1
    BY <1>1, <1>2, <1>5 DEF IInv, TypeOK
  <2> QED BY <1>2, <1>3, <1>4, <1>5, <1>6, <2>1, SameCache DEF TypeOK
<1>8. NothingReturnedYet' BY <1>2 DEF NothingReturnedYet
<1>9. NotInCache'
  <2>1. Cacheable(kind, p) => \A i \in DOMAIN cache : Closeness(p, i) < MinHit
    BY <1>1, CacheTypes, NoHit
  <2>2. request'.kind = kind /\ request'.prompt = p /\ cache' = cache BY <1>2, <1>3
  <2> QED BY ONLY <2>1, <2>2 DEF NotInCache, Closeness, Cacheable
<1>10. BufferTellsTheRest'
  <2>1. 0 % 2 = 0 OBVIOUS
  <2> QED BY <1>2, <2>1 DEF BufferTellsTheRest
<1>11. ReadIsWhatArrived'
  <2>1. 0 \div 2 = 0 OBVIOUS
  <2>2. received' \div 2 = 0 BY <1>2, <2>1
  <2>3. Tells(Nothing, 0)' BY EmptyTellsNext
  <2> QED BY <1>2, <2>2, <2>3 DEF ReadIsWhatArrived
<1>12. EveryRequestAccounted' BY <1>2 DEF EveryRequestAccounted
<1>13. NoNearDuplicates' BY <1>2, SameCache
<1>14. NothingWithoutKey' BY <1>2 DEF NothingWithoutKey
<1> QED BY <1>7, <1>8, <1>9, <1>10, <1>11, <1>12, <1>13, <1>14 DEF IInv

(* Only a client with a key waits for an answer. *)
LEMMA WaitingHasKey == ASSUME IInv, pc # "idle" PROVE has_key
BY DEF IInv, NothingWithoutKey

LEMMA ReplyFailsKeepsIInv == IInv /\ ReplyFails => IInv'
<1> SUFFICES ASSUME IInv, ReplyFails PROVE IInv' OBVIOUS
<1>1. /\ pc # "idle" /\ pc' = "idle" /\ answer' = Returned(FALSE, <<>>)
      /\ timed' = <<FALSE>> /\ recorded' = recorded /\ UNCHANGED streamVars
      /\ cache' = cache /\ request' = request /\ has_key' = has_key
  BY DEF ReplyFails
<1>2. recorded = 0 /\ request \in [kind : Kinds, prompt : Prompts]
  BY <1>1 DEF IInv, TypeOK, NothingReturnedYet
<1>3. <<>> \in Seq(Nat) BY EmptySeq
<1> QED BY <1>1, <1>2, <1>3, SameCache, WaitingHasKey, OverKeepsIInv

LEMMA ReplyKeepsIInv == IInv /\ Reply => IInv'
<1> SUFFICES ASSUME IInv, Reply PROVE IInv' OBVIOUS
<1>1. PICK text \in {<<>>, <<1>>, <<1, 2, 3>>} : answer' = Returned(TRUE, text) /\ Keep(text)
  BY DEF Reply
<1>2. /\ pc # "idle" /\ pc' = "idle" /\ timed' = <<TRUE>> /\ recorded' = 1
      /\ UNCHANGED streamVars /\ request' = request /\ has_key' = has_key
  BY DEF Reply
<1>3. text \in Seq(Nat)
  <2>1. <<>> \in Seq(Nat) /\ <<1>> \in Seq(Nat) /\ <<1, 2, 3>> \in Seq(Nat) OBVIOUS
  <2> QED BY <1>1, <2>1
<1>4. request \in [kind : Kinds, prompt : Prompts] BY DEF IInv, TypeOK
<1>5. cache' \in Seq(Entries) /\ Len(cache') <= Capacity /\ NoNearDuplicates'
  BY <1>1, <1>2, <1>3, KeepFacts
<1> QED BY <1>1, <1>2, <1>3, <1>4, <1>5, WaitingHasKey, OverKeepsIInv

LEMMA StreamFailsKeepsIInv == IInv /\ StreamFails => IInv'
<1> SUFFICES ASSUME IInv, StreamFails PROVE IInv' OBVIOUS
<1>1. /\ pc # "idle" /\ pc' = "idle" /\ answer' = Returned(FALSE, <<>>)
      /\ timed' = <<FALSE>> /\ recorded' = recorded /\ NoStream
      /\ cache' = cache /\ request' = request /\ has_key' = has_key
  BY DEF StreamFails
<1>2. recorded = 0 /\ request \in [kind : Kinds, prompt : Prompts]
  BY <1>1 DEF IInv, TypeOK, NothingReturnedYet
<1>3. <<>> \in Seq(Nat) BY EmptySeq
<1> QED BY <1>1, <1>2, <1>3, SameCache, WaitingHasKey, OverKeepsIInv

LEMMA StreamEndsKeepsIInv == IInv /\ StreamEnds => IInv'
<1> SUFFICES ASSUME IInv, StreamEnds PROVE IInv' OBVIOUS
<1>1. /\ pc # "idle" /\ pc' = "idle" /\ answer' = Returned(TRUE, read.content)
      /\ timed' = <<TRUE>> /\ recorded' = recorded + 1 /\ NoStream /\ Keep(read.content)
      /\ request' = request /\ has_key' = has_key
  BY DEF StreamEnds, Rows
<1>2. recorded = 0 /\ request \in [kind : Kinds, prompt : Prompts] /\ read \in ReadType
  BY <1>1 DEF IInv, TypeOK, NothingReturnedYet
<1>3. recorded' = 1 /\ read.content \in Seq(Nat) BY <1>1, <1>2 DEF ReadType
<1>4. cache' \in Seq(Entries) /\ Len(cache') <= Capacity /\ NoNearDuplicates'
  BY <1>1, <1>3, KeepFacts
<1> QED BY <1>1, <1>2, <1>3, <1>4, WaitingHasKey, OverKeepsIInv

LEMMA ThrowsKeepsIInv == IInv /\ Throws => IInv'
<1> SUFFICES ASSUME IInv, Throws PROVE IInv' OBVIOUS
<1>1. /\ pc # "idle" /\ pc' = "thrown" /\ has_key' = has_key /\ request' = request
      /\ answer' = answer /\ recorded' = recorded /\ timed' = timed /\ cache' = cache
  BY DEF Throws
<1>2. script' = <<>> /\ received' = 0 /\ buffer' = <<>> /\ read' = Nothing
  BY DEF Throws, NoStream
<1>3. TypeOK'
  <2>1. /\ has_key' \in BOOLEAN /\ request' \in [kind : Kinds, prompt : Prompts]
        /\ answer' \in Seq(Answers) /\ Len(answer') <= 1 /\ recorded' \in 0..1
        /\ timed' \in Seq(BOOLEAN)
    BY <1>1 DEF IInv, TypeOK
  <2>2. /\ script' \in Seq(LineKind) /\ received' \in 0..(2 * Len(script'))
        /\ buffer' \in Seq((1..Len(script')) \X {"head", "end"}) /\ read' \in ReadType
    BY ONLY <1>2, NoStreamTypes
  <2> QED BY <1>1, <2>1, <2>2, SameCache DEF TypeOK
<1>4. answer = <<>> /\ recorded = 0 /\ timed = <<>> BY <1>1 DEF IInv, NothingReturnedYet
<1>5. NothingReturnedYet' BY <1>1, <1>4 DEF NothingReturnedYet
<1>6. NothingWithoutKey' BY <1>1, WaitingHasKey DEF NothingWithoutKey
<1>7. NotInCache' BY <1>1 DEF IInv, NotInCache, Closeness, Cacheable
<1>8. BufferTellsTheRest' /\ ReadIsWhatArrived'
  BY <1>1 DEF BufferTellsTheRest, ReadIsWhatArrived
<1>9. EveryRequestAccounted' BY <1>1, <1>4 DEF EveryRequestAccounted
<1>10. NoNearDuplicates' BY <1>1, SameCache
<1> QED BY <1>3, <1>5, <1>6, <1>7, <1>8, <1>9, <1>10 DEF IInv

LEMMA ReceiveKeepsIInv ==
    ASSUME IInv, NEW n \in 1..(2 * MaxLines), Receive(n) PROVE IInv'
<1>1. /\ pc = "stream" /\ pc' = pc /\ received + n <= 2 * Len(script)
      /\ received' = received + n /\ script' = script /\ request' = request
      /\ answer' = answer /\ recorded' = recorded /\ timed' = timed /\ cache' = cache
      /\ has_key' = has_key
  BY DEF Receive
<1>2. n \in Nat \ {0}
  <2>1. MaxLines \in Nat BY ClientAssumption
  <2> QED BY <2>1
<1> DEFINE b == buffer \o [k \in 1..n |-> Unit(received + k)]
           h == received \div 2
           m == (received % 2) + n
<1>3. read' = ReadThrough(b) /\ buffer' = Rest(b) BY DEF Receive
<1>4. Holds(b, h, m) /\ m \in Nat \ {0} /\ 2 * h + m = received + n
  BY <1>1, <1>2, FragmentHolds
<1>t. /\ TypeOK /\ script \in Seq(LineKind) /\ Len(script) \in Nat /\ read \in ReadType
      /\ received \in Nat /\ Tells(read, h)
  <2>1. /\ TypeOK /\ script \in Seq(LineKind) /\ received \in 0..(2 * Len(script))
        /\ read \in ReadType /\ ReadIsWhatArrived
    BY DEF IInv, TypeOK
  <2>2. Len(script) \in Nat BY <2>1
  <2> QED BY <1>1, <2>1, <2>2 DEF ReadIsWhatArrived
<1>h. h \in Nat BY <1>t, Halves
<1> HIDE DEF b, h, m
<1>5. /\ ReadThrough(b) \in ReadType
      /\ \A g \in Nat : m = 2 * g \/ m = 2 * g + 1 => Tells(ReadThrough(b), h + g)
  BY <1>1, <1>4, <1>t, <1>h, ReadThroughTells
<1>6. buffer' = IF m % 2 = 1 THEN <<Unit(2 * h + m)>> ELSE <<>>
  BY <1>3, <1>4, <1>h, RestHolds
<1>7. PICK g \in Nat : (m % 2 = 1 /\ m = 2 * g + 1) \/ (m % 2 = 0 /\ m = 2 * g)
  BY <1>4, Halves
<1>8. received' \div 2 = h + g /\ received' % 2 = m % 2 /\ received' = 2 * h + m
  <2>0. received' = 2 * h + m /\ h + g \in Nat BY <1>1, <1>4, <1>h
  <2>1. CASE m % 2 = 1 /\ m = 2 * g + 1
    <3>1. received' = 2 * (h + g) + 1 BY <1>h, <2>0, <2>1
    <3> QED BY <2>0, <2>1, <3>1, DoubleHalf
  <2>2. CASE m % 2 = 0 /\ m = 2 * g
    <3>1. received' = 2 * (h + g) BY <1>h, <2>0, <2>2
    <3> QED BY <2>0, <2>2, <3>1, DoubleHalf
  <2> QED BY <1>7, <2>1, <2>2
<1>9. Tells(read', h + g) BY <1>3, <1>5, <1>7
<1>10. ReadIsWhatArrived'
  <2>1. script' = script BY <1>1
  <2> QED BY ONLY <1>8, <1>9, <2>1 DEF ReadIsWhatArrived, Tells, Sent, InOrder
<1>11. BufferTellsTheRest' BY ONLY <1>6, <1>8 DEF BufferTellsTheRest, Unit
<1>12. TypeOK'
  <2>1. received' \in 0..(2 * Len(script')) BY <1>1, <1>2, <1>t
  <2>2. buffer' \in Seq((1..Len(script')) \X {"head", "end"})
    <3>1. CASE m % 2 = 1
      <4>1. m \in 1..m /\ b[m] = Unit(2 * h + m) BY <1>4 DEF Holds
      <4>2. b \in Seq((1..Len(script)) \X {"head", "end"}) /\ Len(b) = m BY <1>4 DEF Holds
      <4>3. b[m] \in (1..Len(script)) \X {"head", "end"} BY <4>1, <4>2, ElementOfSeq
      <4>4. <<b[m]>> \in Seq((1..Len(script)) \X {"head", "end"}) BY <4>3
      <4> QED BY <1>1, <1>6, <3>1, <4>1, <4>4
    <3>2. CASE m % 2 # 1 BY <1>6, <3>2, EmptySeq
    <3> QED BY <3>1, <3>2
  <2>3. read' \in ReadType BY <1>3, <1>5
  <2> QED BY <1>1, <1>t, <2>1, <2>2, <2>3 DEF TypeOK
<1>13. NothingReturnedYet' BY <1>1 DEF IInv, NothingReturnedYet
<1>14. NotInCache' BY <1>1 DEF IInv, NotInCache, Closeness, Cacheable
<1>15. EveryRequestAccounted' BY <1>1 DEF EveryRequestAccounted
<1>16. NoNearDuplicates' BY <1>1, SameCache
<1>17. NothingWithoutKey' BY <1>1, WaitingHasKey DEF NothingWithoutKey
<1> QED BY <1>10, <1>11, <1>12, <1>13, <1>14, <1>15, <1>16, <1>17 DEF IInv

LEMMA StutterKeepsIInv == IInv /\ UNCHANGED vars => IInv'
<1> SUFFICES ASSUME IInv, UNCHANGED vars PROVE IInv' OBVIOUS
<1>1. /\ pc' = pc /\ request' = request /\ script' = script /\ received' = received
      /\ buffer' = buffer /\ read' = read /\ answer' = answer /\ recorded' = recorded
      /\ timed' = timed /\ cache' = cache /\ has_key' = has_key
  BY DEF vars, streamVars
<1>2. TypeOK' BY <1>1 DEF IInv, TypeOK
<1>3. NothingReturnedYet' /\ NothingWithoutKey' /\ NotInCache' /\ BufferTellsTheRest'
  BY <1>1 DEF IInv, NothingReturnedYet, NothingWithoutKey, NotInCache, Closeness, Cacheable, BufferTellsTheRest,
              Unit
<1>4. ReadIsWhatArrived'
  <2>1. ReadIsWhatArrived BY DEF IInv
  <2>2. PICK n : n = received \div 2 OBVIOUS
  <2>3. received' \div 2 = n BY ONLY <1>1, <2>2
  <2>4. pc = "stream" => Tells(read, n) BY ONLY <2>1, <2>2 DEF ReadIsWhatArrived
  <2>5. pc' = "stream" => Tells(read, n)'
    <3>1. pc' = pc /\ script' = script /\ read' = read BY ONLY <1>1
    <3>2. \A kinds : Sent(kinds, n)' = Sent(kinds, n) BY ONLY <3>1 DEF Sent
    <3>3. InOrder(read.content, Sent({"piece"}, n))' <=> InOrder(read.content, Sent({"piece"}, n))
      BY ONLY <3>1, <3>2 DEF InOrder
    <3>4. (read.done = (\E i \in 1..n : script[i] = "done"))'
             <=> (read.done = (\E i \in 1..n : script[i] = "done"))
      BY ONLY <3>1, Zenon
    <3>5. PICK R, S : R = read /\ S = Sent(UsageKind, n) OBVIOUS
    <3>6. read' = R /\ Sent(UsageKind, n)' = S BY ONLY <3>1, <3>2, <3>5
    <3>7. (IF read.usage = 0 THEN Sent(UsageKind, n) = {}
           ELSE read.usage \in Sent(UsageKind, n) /\ \A i \in Sent(UsageKind, n) : read.usage <= i)'
          <=> (IF read.usage = 0 THEN Sent(UsageKind, n) = {}
           ELSE read.usage \in Sent(UsageKind, n) /\ \A i \in Sent(UsageKind, n) : read.usage <= i)
      BY ONLY <3>5, <3>6
    <3> QED BY ONLY <2>4, <3>1, <3>3, <3>4, <3>7, Zenon DEF Tells
  <2> QED BY ONLY <2>3, <2>5 DEF ReadIsWhatArrived
<1>5. EveryRequestAccounted' BY <1>1 DEF IInv, EveryRequestAccounted
<1>6. NoNearDuplicates' BY <1>1, SameCache
<1> QED BY <1>2, <1>3, <1>4, <1>5, <1>6 DEF IInv

LEMMA NextKeepsIInv == IInv /\ [Next]_vars => IInv'
BY AskHitKeepsIInv, AskWithoutKeyKeepsIInv, AskServerKeepsIInv, ReplyFailsKeepsIInv, ReplyKeepsIInv,
   ReceiveKeepsIInv, StreamFailsKeepsIInv, StreamEndsKeepsIInv,
   ThrowsKeepsIInv, StutterKeepsIInv
DEF Next, Over

-----------------------------------------------------------------------------
(* The inductive invariant holds in every state. *)
THEOREM Invariance == Spec => []IInv
BY InitIInv, NextKeepsIInv, PTL DEF Spec

(* Every variable keeps its type, and the cache its capacity. *)
THEOREM TypeCorrect == Spec => []TypeOK
<1>1. IInv => TypeOK BY DEF IInv
<1> QED BY <1>1, Invariance, PTL

(* No way of cutting the stream into fragments changes what is read. *)
THEOREM FragmentsDoNotMatter == Spec => []ReadIsWhatArrived
<1>1. IInv => ReadIsWhatArrived BY DEF IInv
<1> QED BY <1>1, Invariance, PTL

(* One usage row for every success; one timing for every request that       *)
(* returns, but for those refused without a key; none for one that throws. *)
THEOREM RequestsAccounted == Spec => []EveryRequestAccounted
<1>1. IInv => EveryRequestAccounted BY DEF IInv
<1> QED BY <1>1, Invariance, PTL

(* No two entries of the cache could answer for each other. *)
THEOREM EntriesFarApart == Spec => []NoNearDuplicates
<1>1. IInv => NoNearDuplicates BY DEF IInv
<1> QED BY <1>1, Invariance, PTL

(* A step changes the cache only by appending the answer it returns. *)
LEMMA NextKeepsAnswers ==
    IInv /\ [Next]_vars =>
        (cache' # cache =>
            /\ answer'[1].ok
            /\ cache' = Append(cache, [prompt |-> request.prompt,
                                       response |-> answer'[1].text]))
<1> SUFFICES ASSUME IInv, [Next]_vars, cache' # cache
             PROVE  /\ answer'[1].ok
                    /\ cache' = Append(cache, [prompt |-> request.prompt,
                                               response |-> answer'[1].text])
  OBVIOUS
<1>1. Reply \/ StreamEnds
  BY DEF Next, AskHit, AskWithoutKey, AskServer, ReplyFails, Receive, StreamFails, Throws,
         Over, vars
<1>2. CASE Reply
  <2>1. PICK text \in {<<>>, <<1>>, <<1, 2, 3>>} :
            answer' = Returned(TRUE, text) /\ Keep(text)
    BY <1>2 DEF Reply
  <2>2. cache' = Append(cache, [prompt |-> request.prompt, response |-> text])
    BY <2>1 DEF Keep, Store
  <2>3. text \in Seq(Nat)
    <3>1. <<>> \in Seq(Nat) /\ <<1>> \in Seq(Nat) /\ <<1, 2, 3>> \in Seq(Nat) OBVIOUS
    <3> QED BY <2>1, <3>1
  <2> QED BY <2>1, <2>2, <2>3, ReturnedFacts
<1>3. CASE StreamEnds
  <2>1. answer' = Returned(TRUE, read.content) /\ Keep(read.content) BY <1>3 DEF StreamEnds
  <2>2. cache' = Append(cache, [prompt |-> request.prompt, response |-> read.content])
    BY <2>1 DEF Keep, Store
  <2>3. read.content \in Seq(Nat)
    <3>1. read \in ReadType BY DEF IInv, TypeOK
    <3> QED BY <3>1 DEF ReadType
  <2> QED BY <2>1, <2>2, <2>3, ReturnedFacts
<1> QED BY <1>1, <1>2, <1>3

(* The cache holds answers that were returned, and never loses one. *)
THEOREM CacheIsAnswers == Spec => CacheKeepsAnswers
<1>1. IInv /\ [Next]_vars =>
        [cache' # cache =>
            /\ answer'[1].ok
            /\ cache' = Append(cache, [prompt |-> request.prompt,
                                       response |-> answer'[1].text])]_vars
  BY NextKeepsAnswers
<1> QED BY <1>1, Invariance, PTL DEF Spec, CacheKeepsAnswers
=============================================================================
