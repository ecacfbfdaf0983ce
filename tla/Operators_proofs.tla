--------------------------- MODULE Operators_proofs ---------------------------
(***************************************************************************)
(* Facts about operators the models are built from, for sequences of any    *)
(* length: TokensOf, loops over a sequence, and the passes of Pruner.  The  *)
(* library's induction theorems take an operator as a parameter; these     *)
(* proofs use the least element of a set of counterexamples instead         *)
(* (NatLeast).                                                             *)
(***************************************************************************)
EXTENDS TokenSum, Pruner, SequencesExt, FiniteSetTheorems, SequenceTheorems,
        WellFoundedInduction, TLAPS

LessThan == {ss \in Nat \X Nat : ss[1] < ss[2]}

(* Every nonempty set of naturals has a least element. *)
LEMMA NatLeast ==
    ASSUME NEW T, T \subseteq Nat, T # {}
    PROVE  \E m \in T : \A k \in T : m <= k
<1>1. IsWellFoundedOn(LessThan, Nat)
  BY NatLessThanWellFounded DEF OpToRel, LessThan
<1>2. PICK x \in T : \A y \in T : ~ (<<y, x>> \in LessThan)
  BY <1>1, WFMin
<1>3. \A y \in T : x <= y
  <2>1. TAKE y \in T
  <2>2. x \in Nat /\ y \in Nat OBVIOUS
  <2>3. ~ (y < x)
    BY <1>2, <2>2 DEF LessThan
  <2> QED BY <2>2, <2>3
<1> QED BY <1>3

LEMMA ConcatThree ==
    \A X : \A x, y, z \in Seq(X) : (x \o y) \o z = x \o (y \o z)
BY ConcatAssociative

(* f holds the token counts of the prefixes of w. *)
PrefixCounts(f, w) ==
    /\ f[0] = 0
    /\ \A n \in 1..Len(w) : f[n] = f[n - 1] + w[n].tokens

(* Every window has prefix counts. *)
LEMMA PrefixCountsExist ==
    ASSUME NEW S, \A m \in S : m.tokens \in Nat, NEW w \in Seq(S)
    PROVE  \E f \in [0..Len(w) -> Nat] : PrefixCounts(f, w)
<1> DEFINE Good(n) == \E f \in [0..n -> Nat] :
                         f[0] = 0 /\ \A i \in 1..n : f[i] = f[i - 1] + w[i].tokens
           Bad == {n \in 0..Len(w) : ~ Good(n)}
<1>1. Len(w) \in Nat OBVIOUS
<1>2. Bad = {}
  <2> SUFFICES ASSUME Bad # {} PROVE FALSE OBVIOUS
  <2>1. PICK m \in Bad : \A k \in Bad : m <= k
    <3> HIDE DEF Good
    <3>1. Bad \subseteq Nat BY <1>1
    <3> QED BY <3>1, NatLeast
  <2>2. CASE m = 0
    <3>1. [i \in 0..0 |-> 0] \in [0..0 -> Nat] OBVIOUS
    <3>2. Good(0)
      <4> WITNESS [i \in 0..0 |-> 0] \in [0..0 -> Nat]
      <4> QED OBVIOUS
    <3> QED BY <2>2, <3>2
  <2>3. CASE m # 0
    <3>1. m \in 1..Len(w) /\ m - 1 \in 0..Len(w) /\ m - 1 \in Nat BY <2>3, <1>1
    <3>2. Good(m - 1)
      <4> HIDE DEF Good
      <4> QED BY <3>1, <2>1
    <3>3. PICK f \in [0..(m - 1) -> Nat] :
             f[0] = 0 /\ \A i \in 1..(m - 1) : f[i] = f[i - 1] + w[i].tokens
      BY <3>2
    <3>4. w[m].tokens \in Nat BY <3>1
    <3> DEFINE g == [i \in 0..m |-> IF i = m THEN f[m - 1] + w[m].tokens ELSE f[i]]
    <3>5. g \in [0..m -> Nat] BY <3>1, <3>3, <3>4
    <3>6. g[0] = 0 /\ \A i \in 1..m : g[i] = g[i - 1] + w[i].tokens
      BY SMTT(40), <3>1, <3>3, <3>4
    <3>7. Good(m)
      <4> WITNESS g \in [0..m -> Nat]
      <4> QED BY <3>6
    <3> QED BY <3>7
  <2> QED BY <2>2, <2>3
<1>3. Good(Len(w))
  <2> HIDE DEF Good
  <2> QED BY <1>1, <1>2
<1> QED BY <1>3 DEF PrefixCounts

(* TokensOf is the last of any prefix counts. *)
LEMMA TokensOfIsLast ==
    ASSUME NEW S, \A m \in S : m.tokens \in Nat, NEW w \in Seq(S),
           NEW f \in [0..Len(w) -> Nat], PrefixCounts(f, w)
    PROVE  TokensOf(w) = f[Len(w)]
<1> DEFINE Rec(h) == h = [n \in 0..Len(w) |->
                            IF n = 0 THEN 0 ELSE h[n - 1] + w[n].tokens]
           g == CHOOSE h : Rec(h)
           Bad == {n \in 0..Len(w) : f[n] # g[n]}
<1>0. Len(w) \in Nat OBVIOUS
<1>1. TokensOf(w) = g[Len(w)] BY DEF TokensOf
<1>2. Rec(f)
  <2> DEFINE r == [n \in 0..Len(w) |-> IF n = 0 THEN 0 ELSE f[n - 1] + w[n].tokens]
  <2>1. \A n \in 0..Len(w) : f[n] = r[n] BY <1>0 DEF PrefixCounts
  <2> QED BY <2>1
<1>3. Rec(g)
  <2> HIDE DEF Rec
  <2> QED BY <1>2
<1>4. g[0] = 0 /\ \A n \in 1..Len(w) : g[n] = g[n - 1] + w[n].tokens
  <2> HIDE DEF g
  <2>1. \A n \in 0..Len(w) : g[n] = IF n = 0 THEN 0 ELSE g[n - 1] + w[n].tokens
    BY <1>3
  <2> QED BY <2>1, <1>0
<1>5. Bad = {}
  <2> SUFFICES ASSUME Bad # {} PROVE FALSE OBVIOUS
  <2> HIDE DEF g
  <2>1. PICK m \in Bad : \A k \in Bad : m <= k
    <3>1. Bad \subseteq Nat BY <1>0
    <3> QED BY <3>1, NatLeast
  <2>2. m # 0 BY <1>4 DEF PrefixCounts
  <2>3. m \in 1..Len(w) /\ m - 1 \in 0..Len(w) /\ ~ (m <= m - 1) BY <2>2, <1>0
  <2>4. f[m - 1] = g[m - 1] BY <2>1, <2>3
  <2> QED BY <2>3, <2>4, <1>4 DEF PrefixCounts
<1> HIDE DEF g
<1> QED BY <1>0, <1>1, <1>5

(* Taking one element out of a sequence: what stays, and where. *)
LEMMA RemoveAtFacts ==
    ASSUME NEW S, NEW w \in Seq(S), NEW p \in 1..Len(w)
    PROVE  /\ RemoveAt(w, p) \in Seq(S)
           /\ Len(RemoveAt(w, p)) = Len(w) - 1
           /\ \A i \in 1..(Len(w) - 1) :
                 RemoveAt(w, p)[i] = IF i < p THEN w[i] ELSE w[i + 1]
<1> DEFINE a == SubSeq(w, 1, p - 1)
           b == SubSeq(w, p + 1, Len(w))
<1>1. a \in Seq(S) /\ Len(a) = p - 1 /\ \A i \in 1..(p - 1) : a[i] = w[i]
  OBVIOUS
<1>2. b \in Seq(S) /\ Len(b) = Len(w) - p /\ \A i \in 1..(Len(w) - p) : b[i] = w[p + i]
  OBVIOUS
<1>3. RemoveAt(w, p) = a \o b BY DEF RemoveAt
<1> HIDE DEF a, b
<1>4. a \o b \in Seq(S) /\ Len(a \o b) = Len(w) - 1
  <2>1. a \o b \in Seq(S) BY <1>1, <1>2
  <2>2. Len(a \o b) = Len(a) + Len(b) BY <1>1, <1>2, ConcatProperties
  <2>3. Len(w) \in Nat /\ p \in Nat OBVIOUS
  <2> QED BY <2>1, <2>2, <2>3, <1>1, <1>2
<1>5. \A i \in 1..(Len(w) - 1) : (a \o b)[i] = IF i < p THEN w[i] ELSE w[i + 1]
  <2>1. TAKE i \in 1..(Len(w) - 1)
  <2>2. CASE i < p BY <2>2, <1>1, <1>2
  <2>3. CASE ~ (i < p)
    <3>1. (a \o b)[i] = b[i - (p - 1)] BY <2>3, <1>1, <1>2
    <3>2. i - (p - 1) \in 1..(Len(w) - p) BY <2>3
    <3>3. b[i - (p - 1)] = w[p + (i - (p - 1))] BY <3>2, <1>2
    <3>4. p + (i - (p - 1)) = i + 1 OBVIOUS
    <3> QED BY <3>1, <3>3, <3>4, <2>3
  <2> QED BY <2>2, <2>3
<1> QED BY <1>3, <1>4, <1>5

(* A token count is a natural number. *)
LEMMA TokensOfNat ==
    ASSUME NEW S, \A m \in S : m.tokens \in Nat, NEW w \in Seq(S)
    PROVE  TokensOf(w) \in Nat
<1>1. PICK f \in [0..Len(w) -> Nat] : PrefixCounts(f, w)
  BY PrefixCountsExist
<1>2. TokensOf(w) = f[Len(w)] BY <1>1, TokensOfIsLast
<1> QED BY <1>2

(* The count of the empty window and of a window of one message. *)
LEMMA TokensOfEmpty == TokensOf(<<>>) = 0
<1>1. [i \in 0..0 |-> 0] \in [0..Len(<<>>) -> Nat] OBVIOUS
<1>2. PrefixCounts([i \in 0..0 |-> 0], <<>>) BY DEF PrefixCounts
<1>3. \A m \in {} : m.tokens \in Nat OBVIOUS
<1>4. <<>> \in Seq({}) OBVIOUS
<1> QED BY <1>1, <1>2, <1>3, <1>4, TokensOfIsLast

(* push_back adds the message's tokens. *)
LEMMA TokensOfAppend ==
    ASSUME NEW S, \A m \in S : m.tokens \in Nat, NEW w \in Seq(S), NEW m \in S
    PROVE  TokensOf(Append(w, m)) = TokensOf(w) + m.tokens
<1>1. PICK f \in [0..Len(w) -> Nat] : PrefixCounts(f, w)
  BY PrefixCountsExist
<1>2. TokensOf(w) = f[Len(w)] BY <1>1, TokensOfIsLast
<1> DEFINE v == Append(w, m)
           g == [i \in 0..Len(v) |-> IF i = Len(v) THEN f[Len(w)] + m.tokens ELSE f[i]]
<1>3. /\ v \in Seq(S) /\ Len(v) = Len(w) + 1 /\ v[Len(v)] = m
      /\ \A i \in 1..Len(w) : v[i] = w[i]
  OBVIOUS
<1> HIDE DEF v
<1>4. g \in [0..Len(v) -> Nat] BY SMTT(40), <1>3
<1>5. PrefixCounts(g, v)
  <2>1. g[0] = 0 BY <1>1, <1>3 DEF PrefixCounts
  <2>2. \A n \in 1..Len(v) : g[n] = g[n - 1] + v[n].tokens
    <3>1. TAKE n \in 1..Len(v)
    <3>2. CASE n = Len(v) BY <3>2, <1>3
    <3>3. CASE n # Len(v)
      <4>1. n \in 1..Len(w) /\ g[n] = f[n] /\ g[n - 1] = f[n - 1] BY <3>3, <1>3
      <4> QED BY <4>1, <1>1, <1>3 DEF PrefixCounts
    <3> QED BY <3>2, <3>3
  <2> QED BY <2>1, <2>2 DEF PrefixCounts
<1>6. TokensOf(v) = g[Len(v)]
  <2> HIDE DEF g
  <2> QED BY <1>3, <1>4, <1>5, TokensOfIsLast
<1>7. g[Len(v)] = f[Len(w)] + m.tokens BY <1>3
<1> QED BY <1>2, <1>6, <1>7 DEF v

(* Erasing position p takes off exactly the tokens of the message there. *)
LEMMA TokensOfRemoveAt ==
    ASSUME NEW S, \A m \in S : m.tokens \in Nat, NEW w \in Seq(S), NEW p \in 1..Len(w)
    PROVE  TokensOf(w) = TokensOf(RemoveAt(w, p)) + w[p].tokens
<1> DEFINE v == RemoveAt(w, p)
<1>1. /\ v \in Seq(S) /\ Len(v) = Len(w) - 1
      /\ \A i \in 1..(Len(w) - 1) : v[i] = IF i < p THEN w[i] ELSE w[i + 1]
  BY RemoveAtFacts
<1> HIDE DEF v
<1>2. PICK g \in [0..Len(v) -> Nat] : PrefixCounts(g, v)
  BY <1>1, PrefixCountsExist
<1>3. TokensOf(v) = g[Len(v)] BY <1>1, <1>2, TokensOfIsLast
<1>4. w[p].tokens \in Nat OBVIOUS
<1> DEFINE f == [i \in 0..Len(w) |-> IF i < p THEN g[i] ELSE g[i - 1] + w[p].tokens]
<1>5. f \in [0..Len(w) -> Nat] BY <1>1, <1>4
<1>6. PrefixCounts(f, w)
  <2>1. f[0] = 0 BY <1>2 DEF PrefixCounts
  <2>2. \A n \in 1..Len(w) : f[n] = f[n - 1] + w[n].tokens
    <3>1. TAKE n \in 1..Len(w)
    <3>2. CASE n < p
      <4>1. n \in 1..Len(v) /\ v[n] = w[n] BY <3>2, <1>1
      <4>2. f[n] = g[n] /\ f[n - 1] = g[n - 1] BY <3>2
      <4> QED BY <4>1, <4>2, <1>2 DEF PrefixCounts
    <3>3. CASE n = p
      <4>1. f[n] = g[n - 1] + w[p].tokens /\ f[n - 1] = g[n - 1] BY <3>3
      <4> QED BY <4>1, <3>3
    <3>4. CASE n > p
      <4>1. n - 1 \in 1..Len(v) /\ v[n - 1] = w[n] BY <3>4, <1>1
      <4>2. f[n] = g[n - 1] + w[p].tokens /\ f[n - 1] = g[n - 2] + w[p].tokens
        BY <3>4
      <4>3. g[n - 1] = g[n - 2] + w[n].tokens
        <5>1. (n - 1) - 1 = n - 2 OBVIOUS
        <5> QED BY <4>1, <5>1, <1>2 DEF PrefixCounts
      <4>4. g[n - 2] \in Nat /\ w[n].tokens \in Nat
        <5>1. p \in Nat /\ n \in Nat /\ 1 <= p /\ n <= Len(w) /\ Len(w) \in Nat OBVIOUS
        <5>2. n - 2 \in 0..Len(v) BY <5>1, <3>4, <1>1
        <5>3. w[n] \in S OBVIOUS
        <5> QED BY <5>2, <5>3
      <4> QED BY SMTT(40), <4>2, <4>3, <4>4, <1>4
    <3> QED BY <3>2, <3>3, <3>4
  <2> QED BY <2>1, <2>2 DEF PrefixCounts
<1>7. TokensOf(w) = f[Len(w)]
  <2> HIDE DEF f
  <2> QED BY <1>5, <1>6, TokensOfIsLast
<1>8. f[Len(w)] = g[Len(v)] + w[p].tokens BY <1>1
<1> QED BY <1>3, <1>7, <1>8 DEF v

(* What is left after dropping the first n elements. *)
LEMMA SuffixFacts ==
    ASSUME NEW S, NEW w \in Seq(S), NEW n \in 0..Len(w)
    PROVE  /\ SubSeq(w, n + 1, Len(w)) \in Seq(S)
           /\ Len(SubSeq(w, n + 1, Len(w))) = Len(w) - n
           /\ \A i \in 1..(Len(w) - n) : SubSeq(w, n + 1, Len(w))[i] = w[n + i]
<1>1. n \in Nat /\ Len(w) \in Nat /\ n <= Len(w) OBVIOUS
<1>2. SubSeq(w, n + 1, Len(w)) \in Seq(S) /\ Len(SubSeq(w, n + 1, Len(w))) = Len(w) - n
  OBVIOUS
<1>3. \A i \in 1..(Len(w) - n) : SubSeq(w, n + 1, Len(w))[i] = w[n + i]
  <2>1. TAKE i \in 1..(Len(w) - n)
  <2>2. SubSeq(w, n + 1, Len(w))[i] = w[(n + 1) + i - 1] BY <1>1
  <2>3. (n + 1) + i - 1 = n + i BY <1>1
  <2> QED BY <2>2, <2>3
<1> QED BY <1>2, <1>3

(* What is left after dropping the first n messages counts no more. *)
LEMMA TokensOfSuffix ==
    ASSUME NEW S, \A m \in S : m.tokens \in Nat, NEW w \in Seq(S)
    PROVE  \A n \in 0..Len(w) : TokensOf(SubSeq(w, n + 1, Len(w))) <= TokensOf(w)
<1> DEFINE rest(n) == SubSeq(w, n + 1, Len(w))
           Bad == {n \in 0..Len(w) : ~ (TokensOf(rest(n)) <= TokensOf(w))}
<1>1. Len(w) \in Nat OBVIOUS
<1>2. \A n \in 0..Len(w) : rest(n) \in Seq(S) /\ Len(rest(n)) = Len(w) - n
  OBVIOUS
<1>3. \A n \in 0..Len(w) : TokensOf(rest(n)) \in Nat
  BY <1>2, TokensOfNat
<1>4. \A n \in 1..Len(w) : TokensOf(rest(n)) <= TokensOf(rest(n - 1))
  <2>1. TAKE n \in 1..Len(w)
  <2>2. n - 1 \in 0..Len(w) /\ n \in 0..Len(w) /\ (n - 1) + 1 = n BY <1>1
  <2>3. rest(n - 1) \in Seq(S) /\ Len(rest(n - 1)) = Len(w) - n + 1 /\ 1 \in 1..Len(rest(n - 1))
    BY <1>1, <1>2, <2>2
  <2>4. RemoveAt(rest(n - 1), 1) = rest(n)
    <3> DEFINE r == RemoveAt(rest(n - 1), 1)
    <3>1. /\ r \in Seq(S) /\ Len(r) = Len(w) - n
          /\ \A i \in 1..(Len(w) - n) : r[i] = rest(n - 1)[i + 1]
      <4>1. /\ r \in Seq(S) /\ Len(r) = Len(rest(n - 1)) - 1
            /\ \A i \in 1..(Len(rest(n - 1)) - 1) :
                  r[i] = IF i < 1 THEN rest(n - 1)[i] ELSE rest(n - 1)[i + 1]
        BY <2>3, RemoveAtFacts
      <4> QED BY <4>1, <2>3, <1>1
    <3>2. \A i \in 1..(Len(w) - n) : rest(n - 1)[i + 1] = w[n + i] /\ rest(n)[i] = w[n + i]
      BY <2>2
    <3> HIDE DEF r
    <3>3. \A i \in 1..(Len(w) - n) : r[i] = rest(n)[i] BY <3>1, <3>2
    <3>4. rest(n) \in Seq(S) /\ Len(rest(n)) = Len(w) - n BY <1>2, <2>2
    <3> HIDE DEF rest
    <3>5. r = rest(n) BY <3>1, <3>3, <3>4, SeqEqual
    <3> QED BY <3>5 DEF r
  <2> HIDE DEF rest
  <2>5. TokensOf(rest(n - 1)) = TokensOf(rest(n)) + rest(n - 1)[1].tokens
    BY <2>3, <2>4, TokensOfRemoveAt
  <2>6. rest(n - 1)[1].tokens \in Nat
    <3>1. rest(n - 1)[1] \in S BY <2>3
    <3> QED BY <3>1
  <2> QED BY <2>2, <2>5, <2>6, <1>3
<1>5. Bad = {}
  <2> SUFFICES ASSUME Bad # {} PROVE FALSE OBVIOUS
  <2>1. TokensOf(rest(0)) <= TokensOf(w)
    <3>1. rest(0) = w OBVIOUS
    <3>2. TokensOf(w) \in Nat BY TokensOfNat
    <3> HIDE DEF rest
    <3> QED BY <3>1, <3>2
  <2> HIDE DEF rest
  <2>2. PICK m \in Bad : \A k \in Bad : m <= k
    <3>1. Bad \subseteq Nat BY <1>1
    <3> QED BY <3>1, NatLeast
  <2>3. m # 0 BY <2>1
  <2>4. m \in 1..Len(w) /\ m - 1 \in 0..Len(w) /\ m \in 0..Len(w) /\ ~ (m <= m - 1)
    BY <2>3, <1>1
  <2>5. TokensOf(rest(m - 1)) <= TokensOf(w) BY <2>2, <2>4
  <2>6. TokensOf(rest(m)) <= TokensOf(rest(m - 1)) BY <1>4, <2>4
  <2>7. TokensOf(w) \in Nat BY TokensOfNat
  <2> QED BY <2>4, <2>5, <2>6, <2>7, <1>3
<1> HIDE DEF rest
<1>6. \A n \in 0..Len(w) : TokensOf(rest(n)) <= TokensOf(w) BY <1>5
<1> QED BY <1>6 DEF rest

(* The elements of two sequences put together. *)
LEMMA ConcatFacts ==
    ASSUME NEW S, NEW u \in Seq(S), NEW v \in Seq(S)
    PROVE  /\ u \o v \in Seq(S) /\ Len(u \o v) = Len(u) + Len(v)
           /\ \A i \in 1..Len(u) : (u \o v)[i] = u[i]
           /\ \A i \in 1..Len(v) : (u \o v)[Len(u) + i] = v[i]
<1>1. u \o v \in Seq(S) /\ Len(u \o v) = Len(u) + Len(v) BY ConcatProperties
<1>2. \A i \in 1..Len(u) : (u \o v)[i] = u[i] BY ConcatProperties
<1>3. \A i \in 1..Len(v) : (u \o v)[Len(u) + i] = v[i]
  <2>1. TAKE i \in 1..Len(v)
  <2>2. Len(u) \in Nat /\ Len(v) \in Nat OBVIOUS
  <2>3. Len(u) + i \in 1..(Len(u) + Len(v)) /\ Len(u) + i > Len(u)
        /\ (Len(u) + i) - Len(u) = i
    BY <2>2
  <2>4. (u \o v)[Len(u) + i] = v[(Len(u) + i) - Len(u)] BY <2>3, ConcatProperties
  <2> QED BY <2>3, <2>4
<1> QED BY <1>1, <1>2, <1>3

(* Two windows together count what each counts. *)
LEMMA TokensOfConcat ==
    ASSUME NEW S, \A m \in S : m.tokens \in Nat, NEW u \in Seq(S), NEW v \in Seq(S)
    PROVE  TokensOf(u \o v) = TokensOf(u) + TokensOf(v)
<1> DEFINE w == u \o v
<1>1. /\ w \in Seq(S) /\ Len(w) = Len(u) + Len(v)
      /\ \A i \in 1..Len(u) : w[i] = u[i]
      /\ \A i \in 1..Len(v) : w[Len(u) + i] = v[i]
  BY ConcatFacts
<1>2. Len(u) \in Nat /\ Len(v) \in Nat OBVIOUS
<1> HIDE DEF w
<1>3. PICK a \in [0..Len(u) -> Nat] : PrefixCounts(a, u) BY PrefixCountsExist
<1>4. PICK b \in [0..Len(v) -> Nat] : PrefixCounts(b, v) BY PrefixCountsExist
<1>5. TokensOf(u) = a[Len(u)] /\ TokensOf(v) = b[Len(v)] BY <1>3, <1>4, TokensOfIsLast
<1> DEFINE h == [i \in 0..Len(w) |->
                   IF i <= Len(u) THEN a[i] ELSE a[Len(u)] + b[i - Len(u)]]
<1>6. \A i \in 0..Len(w) : i > Len(u) => i - Len(u) \in 1..Len(v)
  BY <1>1, <1>2
<1>0. a[Len(u)] \in Nat /\ b[0] = 0 /\ a[0] = 0
  <2>1. a[0] = 0 BY <1>3 DEF PrefixCounts
  <2>2. b[0] = 0 BY <1>4 DEF PrefixCounts
  <2> QED BY <1>2, <2>1, <2>2
<1>7. h \in [0..Len(w) -> Nat]
  <2>1. ASSUME NEW i \in 0..Len(w)
        PROVE  (IF i <= Len(u) THEN a[i] ELSE a[Len(u)] + b[i - Len(u)]) \in Nat
    <3>1. CASE i <= Len(u) BY <3>1, <1>1, <1>2
    <3>2. CASE ~ (i <= Len(u))
      <4>1. i - Len(u) \in 1..Len(v) BY <3>2, <1>1, <1>2, <1>6
      <4>2. i - Len(u) \in 0..Len(v) BY <4>1, <1>2
      <4>3. b[i - Len(u)] \in Nat BY <4>2
      <4> QED BY <3>2, <4>3, <1>0
    <3> QED BY <3>1, <3>2
  <2> QED BY <2>1
<1>8. PrefixCounts(h, w)
  <2>1. h[0] = 0 BY <1>1, <1>2, <1>3 DEF PrefixCounts
  <2>2. ASSUME NEW n \in 1..Len(w) PROVE h[n] = h[n - 1] + w[n].tokens
    <3>1. n \in Nat /\ n - 1 \in 0..Len(w) /\ n \in 0..Len(w) BY <1>1, <1>2
    <3>2. CASE n <= Len(u)
      <4>1. n \in 1..Len(u) /\ h[n] = a[n] /\ h[n - 1] = a[n - 1] BY <3>1, <3>2, <1>2
      <4> QED BY <4>1, <1>1, <1>3 DEF PrefixCounts
    <3>3. CASE n > Len(u)
      <4> DEFINE i == n - Len(u)
      <4>1. i \in 1..Len(v) /\ n = Len(u) + i BY <3>1, <3>3, <1>1, <1>2
      <4>2. w[n] = v[i] /\ b[i] = b[i - 1] + v[i].tokens BY <4>1, <1>1, <1>4 DEF PrefixCounts
      <4>3. h[n] = a[Len(u)] + b[i] BY <3>1, <3>3
      <4>4. h[n - 1] = a[Len(u)] + b[i - 1]
        <5>1. CASE i = 1
          <6>1. n - 1 = Len(u) /\ i - 1 = 0 BY <5>1, <4>1, <1>2
          <6>2. h[n - 1] = a[Len(u)] BY <3>1, <6>1, <1>2
          <6> QED BY <6>1, <6>2, <1>0
        <5>2. CASE i # 1
          <6>1. n - 1 > Len(u) /\ (n - 1) - Len(u) = i - 1
            <7>1. i \in Nat /\ i > 1 BY <5>2, <4>1, <1>2
            <7> HIDE DEF i
            <7> QED BY <7>1, <4>1, <1>2
          <6> QED BY <3>1, <6>1, <1>2
        <5> QED BY <5>1, <5>2
      <4>5. a[Len(u)] \in Nat /\ b[i - 1] \in Nat /\ v[i].tokens \in Nat
        <5>1. i \in 1..Len(v) BY <4>1
        <5> HIDE DEF i
        <5>2. i - 1 \in 0..Len(v) /\ v[i] \in S BY <5>1, <1>2
        <5> QED BY <5>2, <1>0
      <4> HIDE DEF h, i
      <4> QED BY <4>2, <4>3, <4>4, <4>5
    <3> QED BY <3>1, <3>2, <3>3, <1>2
  <2> HIDE DEF h
  <2> QED BY <2>1, <2>2 DEF PrefixCounts
<1>9. TokensOf(w) = h[Len(w)]
  <2> HIDE DEF h
  <2> QED BY <1>1, <1>7, <1>8, TokensOfIsLast
<1>10. h[Len(w)] = a[Len(u)] + b[Len(v)]
  <2>1. CASE Len(v) = 0
    <3>1. Len(w) = Len(u) BY <1>1, <1>2, <2>1
    <3> QED BY <3>1, <1>0, <1>2, <2>1
  <2>2. CASE Len(v) # 0
    <3>1. Len(w) > Len(u) /\ Len(w) - Len(u) = Len(v) BY <1>1, <1>2, <2>2
    <3> QED BY <3>1, <1>1, <1>2
  <2> QED BY <2>1, <2>2
<1> HIDE DEF h
<1> QED BY <1>5, <1>9, <1>10 DEF w

(* The first n elements, and the sequence as these and the rest. *)
LEMMA PrefixFacts ==
    ASSUME NEW S, NEW w \in Seq(S), NEW n \in 0..Len(w)
    PROVE  /\ SubSeq(w, 1, n) \in Seq(S) /\ Len(SubSeq(w, 1, n)) = n
           /\ \A i \in 1..n : SubSeq(w, 1, n)[i] = w[i]
           /\ SubSeq(w, 1, n) \o SubSeq(w, n + 1, Len(w)) = w
<1> DEFINE u == SubSeq(w, 1, n)
           v == SubSeq(w, n + 1, Len(w))
<1>1. n \in Nat /\ Len(w) \in Nat /\ n <= Len(w) OBVIOUS
<1>2. u \in Seq(S) /\ Len(u) = n /\ \A i \in 1..n : u[i] = w[i]
  <2>1. u \in Seq(S) /\ Len(u) = n BY <1>1
  <2>2. \A i \in 1..n : u[i] = w[1 + i - 1] BY <1>1
  <2>3. \A i \in 1..n : 1 + i - 1 = i BY <1>1
  <2> HIDE DEF u
  <2> QED BY <2>1, <2>2, <2>3
<1>3. /\ v \in Seq(S) /\ Len(v) = Len(w) - n
      /\ \A i \in 1..(Len(w) - n) : v[i] = w[n + i]
  BY SuffixFacts
<1> HIDE DEF u, v
<1>4. u \o v \in Seq(S) /\ Len(u \o v) = Len(w)
      /\ (\A i \in 1..n : (u \o v)[i] = u[i])
      /\ (\A i \in 1..(Len(w) - n) : (u \o v)[n + i] = v[i])
  <2>1. /\ u \o v \in Seq(S) /\ Len(u \o v) = Len(u) + Len(v)
        /\ \A i \in 1..Len(u) : (u \o v)[i] = u[i]
        /\ \A i \in 1..Len(v) : (u \o v)[Len(u) + i] = v[i]
    BY <1>2, <1>3, ConcatFacts
  <2> QED BY <2>1, <1>1, <1>2, <1>3
<1>5. ASSUME NEW i \in 1..Len(w) PROVE (u \o v)[i] = w[i]
  <2>1. CASE i <= n BY <2>1, <1>1, <1>2, <1>4
  <2>2. CASE i > n
    <3>1. PICK j \in 1..(Len(w) - n) : i = n + j
      <4>1. i - n \in 1..(Len(w) - n) /\ i = n + (i - n) BY <2>2, <1>1
      <4> QED BY <4>1
    <3>2. (u \o v)[n + j] = v[j] /\ v[j] = w[n + j] BY <1>3, <1>4
    <3> QED BY <3>1, <3>2
  <2>3. i <= n \/ i > n BY <1>1
  <2> QED BY <2>1, <2>2, <2>3, Zenon
<1>6. u \o v = w BY <1>4, <1>5, SeqEqual
<1> QED BY <1>2, <1>6 DEF u, v

-----------------------------------------------------------------------------
(* What is computed from the left, one element at a time.                  *)

(* f is what the steps make of b. *)
Steps(f, n, b, step) == f[0] = b /\ \A k \in 1..n : f[k] = step[k][f[k - 1]]

LEMMA StepsExist ==
    ASSUME NEW n \in Nat, NEW S, NEW b \in S, NEW step \in [1..n -> [S -> S]]
    PROVE  \E f \in [0..n -> S] : Steps(f, n, b, step)
<1> DEFINE Good(m) == \E f \in [0..m -> S] : Steps(f, m, b, step)
           Bad == {m \in 0..n : ~ Good(m)}
<1>1. Bad = {}
  <2> SUFFICES ASSUME Bad # {} PROVE FALSE OBVIOUS
  <2>1. PICK m \in Bad : \A k \in Bad : m <= k
    <3> HIDE DEF Good
    <3>1. Bad \subseteq Nat OBVIOUS
    <3> QED BY <3>1, NatLeast
  <2>2. CASE m = 0
    <3>1. [i \in 0..0 |-> b] \in [0..0 -> S] OBVIOUS
    <3>2. Good(0)
      <4> WITNESS [i \in 0..0 |-> b] \in [0..0 -> S]
      <4> QED BY DEF Steps
    <3> QED BY <2>2, <3>2
  <2>3. CASE m # 0
    <3>1. m \in 1..n /\ m - 1 \in 0..n /\ m - 1 \in Nat BY <2>3
    <3>2. Good(m - 1)
      <4> HIDE DEF Good
      <4> QED BY <3>1, <2>1
    <3>3. PICK f \in [0..(m - 1) -> S] : Steps(f, m - 1, b, step) BY <3>2
    <3> DEFINE x == step[m][f[m - 1]]
               g == [i \in 0..m |-> IF i = m THEN x ELSE f[i]]
    <3>4. x \in S BY <3>1, <3>3
    <3>5. g \in [0..m -> S]
      <4> HIDE DEF x
      <4> QED BY <3>1, <3>3, <3>4
    <3>6. Steps(g, m, b, step) BY <3>1, <3>3 DEF Steps
    <3>7. Good(m)
      <4> WITNESS g \in [0..m -> S]
      <4> QED BY <3>6
    <3> QED BY <3>7
  <2> QED BY <2>2, <2>3
<1>2. Good(n)
  <2> HIDE DEF Good
  <2> QED BY <1>1
<1> QED BY <1>2

(* f takes these steps as long as it stays in S. *)
Follows(f, n, b, step, S) ==
    f[0] = b /\ \A k \in 1..n : f[k - 1] \in S => f[k] = step[k][f[k - 1]]

(* Whatever takes the same steps computes the same. *)
LEMMA StepsAgree ==
    ASSUME NEW n \in Nat, NEW S, NEW b \in S, NEW step \in [1..n -> [S -> S]],
           NEW f, Follows(f, n, b, step, S), NEW g, Follows(g, n, b, step, S)
    PROVE  \A k \in 0..n : f[k] \in S /\ f[k] = g[k]
<1> DEFINE Bad == {k \in 0..n : ~ (f[k] \in S /\ f[k] = g[k])}
<1> SUFFICES ASSUME Bad # {} PROVE FALSE OBVIOUS
<1>1. PICK m \in Bad : \A k \in Bad : m <= k
  <2>1. Bad \subseteq Nat OBVIOUS
  <2> HIDE DEF Bad
  <2> QED BY <2>1, NatLeast
<1>2. m \in 0..n /\ ~ (f[m] \in S /\ f[m] = g[m]) OBVIOUS
<1>3. m # 0 BY <1>2 DEF Follows
<1>4. m \in 1..n /\ m - 1 \in 0..n /\ ~ (m <= m - 1) BY <1>2, <1>3
<1>5. f[m - 1] \in S /\ f[m - 1] = g[m - 1] BY <1>1, <1>4
<1>6. f[m] = step[m][f[m - 1]] /\ g[m] = step[m][f[m - 1]] BY <1>4, <1>5 DEF Follows
<1>7. step[m][f[m - 1]] \in S BY <1>4, <1>5
<1> QED BY <1>2, <1>6, <1>7

(* The states of the first loop, of the tokenizer, and their steps. *)
CollapseStates(X) == [out : Seq(X), newline_run : Nat, pending_space : BOOLEAN]
NotCollapsed == [out |-> <<>>, newline_run |-> 0, pending_space |-> FALSE]
TokenStates(X) == [tokens : Seq(Seq(X)), token : Seq(X)]
NoTokens == [tokens |-> <<>>, token |-> <<>>]
TokenOne(st, c) == IF c \in Blank THEN Ended(st)
                   ELSE [tokens |-> st.tokens, token |-> Append(st.token, c)]

(* What goes before the next character that is no blank. *)
Separated(st) ==
    IF st.out = <<>> THEN <<>>
    ELSE IF st.newline_run > 0 THEN st.out \o Newlines(st.newline_run)
    ELSE IF st.pending_space THEN Append(st.out, " ") ELSE st.out

LEMMA SeparatedIs ==
    ASSUME NEW X, Blank \subseteq X, NEW st \in CollapseStates(X)
    PROVE  Separated(st) \in Seq(X)
<1>1. st.out \in Seq(X) BY DEF CollapseStates
<1>2. Newlines(st.newline_run) \in Seq(X)
  <2>1. PICK nl \in X : nl = "NL" BY DEF Blank
  <2>2. <<nl, nl>> \in Seq(X) /\ <<nl>> \in Seq(X) OBVIOUS
  <2> QED BY <2>1, <2>2 DEF Newlines
<1>3. Append(st.out, " ") \in Seq(X)
  <2>1. PICK sp \in X : sp = " " BY DEF Blank
  <2>2. Append(st.out, sp) \in Seq(X) BY <1>1
  <2> QED BY <2>1, <2>2
<1>4. st.out \o Newlines(st.newline_run) \in Seq(X) BY <1>1, <1>2, ConcatProperties
<1>5. <<>> \in Seq(X) OBVIOUS
<1> QED BY ONLY <1>1, <1>3, <1>4, <1>5 DEF Separated

LEMMA CollapseOneIs ==
    ASSUME NEW X, Blank \subseteq X, NEW st \in CollapseStates(X), NEW c \in X
    PROVE  /\ CollapseOne(st, c) \in CollapseStates(X)
           /\ c = "NL" => CollapseOne(st, c) =
                 [out |-> st.out, newline_run |-> st.newline_run + 1, pending_space |-> FALSE]
           /\ c = " " => CollapseOne(st, c) =
                 [out |-> st.out, newline_run |-> st.newline_run,
                  pending_space |-> (st.pending_space \/ st.newline_run = 0)]
           /\ c \notin Blank => CollapseOne(st, c) =
                 [out |-> Append(Separated(st), c), newline_run |-> 0, pending_space |-> FALSE]
<1>1. st.out \in Seq(X) /\ st.newline_run \in Nat /\ st.pending_space \in BOOLEAN
  BY DEF CollapseStates
<1>2. CASE c = "NL"
  <2>1. CollapseOne(st, c) =
           [out |-> st.out, newline_run |-> st.newline_run + 1, pending_space |-> FALSE]
    BY <1>2 DEF CollapseOne
  <2>2. CollapseOne(st, c) \in CollapseStates(X) BY <1>1, <2>1 DEF CollapseStates
  <2> QED BY ONLY <1>2, <2>1, <2>2 DEF Blank
<1>3. CASE c = " "
  <2>1. CollapseOne(st, c) =
           [out |-> st.out, newline_run |-> st.newline_run,
            pending_space |-> (st.pending_space \/ st.newline_run = 0)]
    BY <1>3 DEF CollapseOne
  <2>2. (st.pending_space \/ st.newline_run = 0) \in BOOLEAN OBVIOUS
  <2>3. CollapseOne(st, c) \in CollapseStates(X)
    BY <2>1, <2>2, <1>1 DEF CollapseStates
  <2> QED BY <1>3, <2>1, <2>3 DEF Blank
<1>4. CASE c # "NL" /\ c # " "
  <2>1. CollapseOne(st, c) =
           [out |-> Append(Separated(st), c), newline_run |-> 0, pending_space |-> FALSE]
    BY <1>4 DEF CollapseOne, Separated
  <2>2. Separated(st) \in Seq(X) BY SeparatedIs
  <2>3. Append(Separated(st), c) \in Seq(X) BY <2>2
  <2>4. CollapseOne(st, c) \in CollapseStates(X) BY <2>1, <2>3 DEF CollapseStates
  <2> QED BY <1>4, <2>1, <2>4
<1> QED BY <1>2, <1>3, <1>4

LEMMA EndedIs ==
    ASSUME NEW X, NEW st \in TokenStates(X)
    PROVE  /\ Ended(st) \in TokenStates(X) /\ Ended(st).token = <<>>
           /\ Ended(st).tokens = IF st.token = <<>> THEN st.tokens
                                 ELSE Append(st.tokens, st.token)
           /\ Ended(Ended(st)) = Ended(st)
           /\ Ended(st) = [tokens |-> Ended(st).tokens, token |-> <<>>]
<1>1. st.tokens \in Seq(Seq(X)) /\ st.token \in Seq(X)
      /\ st = [tokens |-> st.tokens, token |-> st.token]
  BY DEF TokenStates
<1>2. CASE st.token = <<>>
  <2>1. Ended(st) = st BY <1>2 DEF Ended
  <2> QED BY <1>1, <1>2, <2>1
<1>3. CASE st.token # <<>>
  <2>1. Ended(st) = [tokens |-> Append(st.tokens, st.token), token |-> <<>>]
    BY <1>3 DEF Ended
  <2>2. Ended(Ended(st)) = Ended(st) BY <2>1 DEF Ended
  <2>3. Append(st.tokens, st.token) \in Seq(Seq(X)) BY <1>1
  <2>4. <<>> \in Seq(X) OBVIOUS
  <2>5. Ended(st) \in TokenStates(X) BY <2>1, <2>3, <2>4 DEF TokenStates
  <2> QED BY <1>3, <2>1, <2>2, <2>5
<1> QED BY <1>2, <1>3

LEMMA TokenOneIs ==
    ASSUME NEW X, NEW st \in TokenStates(X), NEW c \in X
    PROVE  TokenOne(st, c) \in TokenStates(X)
<1>1. st.tokens \in Seq(Seq(X)) /\ Append(st.token, c) \in Seq(X) BY DEF TokenStates
<1>2. [tokens |-> st.tokens, token |-> Append(st.token, c)] \in TokenStates(X)
  BY <1>1 DEF TokenStates
<1> QED BY <1>2, EndedIs DEF TokenOne

(* The states of the first loop over s. *)
Collapses(f, s) ==
    f[0] = NotCollapsed /\ \A k \in 1..Len(s) : f[k] = CollapseOne(f[k - 1], s[k])

LEMMA CollapsedIs ==
    ASSUME NEW X, Blank \subseteq X, NEW s \in Seq(X)
    PROVE  /\ \E f \in [0..Len(s) -> CollapseStates(X)] : Collapses(f, s)
           /\ \A f : Collapses(f, s) => Collapsed(s) = f[Len(s)]
<1>1. PICK n \in Nat : n = Len(s) /\ \A k \in 1..n : s[k] \in X OBVIOUS
<1>2. PICK S2, b : /\ S2 = CollapseStates(X) /\ b = NotCollapsed /\ b \in S2
                   /\ \A k \in 1..n : \A st \in S2 : CollapseOne(st, s[k]) \in S2
  <2>1. NotCollapsed \in CollapseStates(X) BY DEF NotCollapsed, CollapseStates
  <2>2. \A k \in 1..n : \A st \in CollapseStates(X) : CollapseOne(st, s[k]) \in CollapseStates(X)
    BY <1>1, CollapseOneIs
  <2> QED BY <2>1, <2>2
<1>3. PICK step : step = [k \in 1..n |-> [st \in S2 |-> CollapseOne(st, s[k])]] OBVIOUS
<1>4. step \in [1..n -> [S2 -> S2]] BY ONLY <1>2, <1>3
<1>5. \A k \in 1..n : \A st \in S2 : step[k][st] = CollapseOne(st, s[k]) BY ONLY <1>3
<1>6. PICK f \in [0..n -> S2] : Steps(f, n, b, step) BY ONLY <1>1, <1>2, <1>4, StepsExist
<1>7. \A k \in 1..n : k - 1 \in 0..n /\ k \in 0..n /\ k # 0 BY <1>1
<1>8. Collapses(f, s) BY ONLY <1>1, <1>2, <1>5, <1>6, <1>7 DEF Steps, Collapses
<1>9. ASSUME NEW h, Collapses(h, s) PROVE Collapsed(s) = h[Len(s)]
  <2> DEFINE Rec(e) == e = [k \in 0..n |-> IF k = 0 THEN NotCollapsed ELSE CollapseOne(e[k - 1], s[k])]
  <2>1. PICK g : g = CHOOSE e : Rec(e) OBVIOUS
  <2>2. Collapsed(s) = g[n] BY <1>1, <2>1 DEF Collapsed, NotCollapsed
  <2>3. Rec(f)
    <3> DEFINE r == [k \in 0..n |-> IF k = 0 THEN NotCollapsed ELSE CollapseOne(f[k - 1], s[k])]
    <3>1. \A k \in 0..n : k = 0 \/ k \in 1..n BY <1>1
    <3>2. \A k \in 0..n : f[k] = r[k] BY ONLY <1>1, <1>8, <3>1 DEF Collapses
    <3> QED BY ONLY <1>6, <3>2
  <2>4. Rec(g)
    <3> HIDE DEF Rec
    <3> QED BY ONLY <2>3, <2>1
  <2>5. g[0] = b /\ \A k \in 1..n : g[k] = CollapseOne(g[k - 1], s[k])
    <3>1. \A k \in 0..n : g[k] = IF k = 0 THEN NotCollapsed ELSE CollapseOne(g[k - 1], s[k])
      BY ONLY <2>4
    <3>2. 0 \in 0..n BY <1>1
    <3> QED BY ONLY <1>2, <1>7, <3>1, <3>2
  <2>6. Follows(g, n, b, step, S2) BY ONLY <1>5, <2>5 DEF Follows
  <2>7. Follows(h, n, b, step, S2)
    BY ONLY <1>1, <1>2, <1>5, <1>9 DEF Follows, Collapses
  <2>8. \A k \in 0..n : h[k] \in S2 /\ h[k] = g[k]
    <3>1. n \in Nat /\ b \in S2 BY <1>2
    <3> QED BY ONLY <3>1, <1>4, <2>6, <2>7, StepsAgree
  <2>9. n \in 0..n BY <1>1
  <2> QED BY ONLY <1>1, <2>2, <2>8, <2>9
<1> QED BY ONLY <1>1, <1>2, <1>6, <1>8, <1>9

(* The states of the tokenizer over s. *)
Tokenizes(f, s) ==
    f[0] = NoTokens /\ \A k \in 1..Len(s) : f[k] = TokenOne(f[k - 1], s[k])

LEMMA TokenizedIs ==
    ASSUME NEW X, NEW s \in Seq(X)
    PROVE  /\ \E f \in [0..Len(s) -> TokenStates(X)] : Tokenizes(f, s)
           /\ \A f : Tokenizes(f, s) => Tokenized(s) = f[Len(s)]
<1>1. PICK n \in Nat : n = Len(s) /\ \A k \in 1..n : s[k] \in X OBVIOUS
<1>2. PICK S2, b : /\ S2 = TokenStates(X) /\ b = NoTokens /\ b \in S2
                   /\ \A k \in 1..n : \A st \in S2 : TokenOne(st, s[k]) \in S2
  <2>1. NoTokens \in TokenStates(X) BY DEF NoTokens, TokenStates
  <2>2. \A k \in 1..n : \A st \in TokenStates(X) : TokenOne(st, s[k]) \in TokenStates(X)
    BY <1>1, TokenOneIs
  <2> QED BY <2>1, <2>2
<1>3. PICK step : step = [k \in 1..n |-> [st \in S2 |-> TokenOne(st, s[k])]] OBVIOUS
<1>4. step \in [1..n -> [S2 -> S2]] BY ONLY <1>2, <1>3
<1>5. \A k \in 1..n : \A st \in S2 : step[k][st] = TokenOne(st, s[k]) BY ONLY <1>3
<1>6. PICK f \in [0..n -> S2] : Steps(f, n, b, step) BY ONLY <1>1, <1>2, <1>4, StepsExist
<1>7. \A k \in 1..n : k - 1 \in 0..n /\ k \in 0..n /\ k # 0 BY <1>1
<1>8. Tokenizes(f, s) BY ONLY <1>1, <1>2, <1>5, <1>6, <1>7 DEF Steps, Tokenizes
<1>9. ASSUME NEW h, Tokenizes(h, s) PROVE Tokenized(s) = h[Len(s)]
  <2> DEFINE Rec(e) == e = [k \in 0..n |-> IF k = 0 THEN NoTokens ELSE TokenOne(e[k - 1], s[k])]
  <2>1. PICK g : g = CHOOSE e : Rec(e) OBVIOUS
  <2>2. Tokenized(s) = g[n] BY <1>1, <2>1 DEF Tokenized, NoTokens, TokenOne
  <2>3. Rec(f)
    <3> DEFINE r == [k \in 0..n |-> IF k = 0 THEN NoTokens ELSE TokenOne(f[k - 1], s[k])]
    <3>1. \A k \in 0..n : k = 0 \/ k \in 1..n BY <1>1
    <3>2. \A k \in 0..n : f[k] = r[k] BY ONLY <1>1, <1>8, <3>1 DEF Tokenizes
    <3> QED BY ONLY <1>6, <3>2
  <2>4. Rec(g)
    <3> HIDE DEF Rec
    <3> QED BY ONLY <2>3, <2>1
  <2>5. g[0] = b /\ \A k \in 1..n : g[k] = TokenOne(g[k - 1], s[k])
    <3>1. \A k \in 0..n : g[k] = IF k = 0 THEN NoTokens ELSE TokenOne(g[k - 1], s[k])
      BY ONLY <2>4
    <3>2. 0 \in 0..n BY <1>1
    <3> QED BY ONLY <1>2, <1>7, <3>1, <3>2
  <2>6. Follows(g, n, b, step, S2) BY ONLY <1>5, <2>5 DEF Follows
  <2>7. Follows(h, n, b, step, S2)
    BY ONLY <1>1, <1>2, <1>5, <1>9 DEF Follows, Tokenizes
  <2>8. \A k \in 0..n : h[k] \in S2 /\ h[k] = g[k]
    <3>1. n \in Nat /\ b \in S2 BY <1>2
    <3> QED BY ONLY <3>1, <1>4, <2>6, <2>7, StepsAgree
  <2>9. n \in 0..n BY <1>1
  <2> QED BY ONLY <1>1, <2>2, <2>8, <2>9
<1> QED BY ONLY <1>1, <1>2, <1>6, <1>8, <1>9

(* The text after one more token. *)
Kept(out, token) == IF Core(token) \in kFillers THEN out ELSE Joined(out, token)

LEMMA KeptIs ==
    ASSUME NEW X, Blank \subseteq X, NEW out \in Seq(X), NEW token \in Seq(X)
    PROVE  Joined(out, token) \in Seq(X) /\ Kept(out, token) \in Seq(X)
<1>1. PICK sp \in X : sp = " " BY DEF Blank
<1>2. <<sp>> \in Seq(X) OBVIOUS
<1>3. out \o <<sp>> \o token \in Seq(X) BY <1>2, ConcatProperties
<1>4. Joined(out, token) \in Seq(X) BY ONLY <1>1, <1>3, token \in Seq(X) DEF Joined
<1> QED BY <1>4 DEF Kept

(* The texts without fillers, one token more at a time. *)
Keeps(f, t) ==
    f[0] = <<>> /\ \A k \in 1..Len(t) : f[k] = Kept(f[k - 1], t[k])

LEMMA WithoutFillersIs ==
    ASSUME NEW X, Blank \subseteq X, NEW t \in Seq(Seq(X))
    PROVE  /\ \E f \in [0..Len(t) -> Seq(X)] : Keeps(f, t)
           /\ \A f : Keeps(f, t) => WithoutFillers(t) = f[Len(t)]
<1>1. PICK n \in Nat : n = Len(t) /\ \A k \in 1..n : t[k] \in Seq(X) OBVIOUS
<1>2. PICK S2, b : /\ S2 = Seq(X) /\ b = <<>> /\ b \in S2
                   /\ \A k \in 1..n : \A st \in S2 : Kept(st, t[k]) \in S2
  <2>1. <<>> \in Seq(X) BY EmptySeq
  <2>2. \A k \in 1..n : \A st \in Seq(X) : Kept(st, t[k]) \in Seq(X)
    BY <1>1, KeptIs
  <2> QED BY <2>1, <2>2
<1>3. PICK step : step = [k \in 1..n |-> [st \in S2 |-> Kept(st, t[k])]] OBVIOUS
<1>4. step \in [1..n -> [S2 -> S2]] BY ONLY <1>2, <1>3
<1>5. \A k \in 1..n : \A st \in S2 : step[k][st] = Kept(st, t[k]) BY ONLY <1>3
<1>6. PICK f \in [0..n -> S2] : Steps(f, n, b, step) BY ONLY <1>1, <1>2, <1>4, StepsExist
<1>7. \A k \in 1..n : k - 1 \in 0..n /\ k \in 0..n /\ k # 0 BY <1>1
<1>8. Keeps(f, t) BY ONLY <1>1, <1>2, <1>5, <1>6, <1>7 DEF Steps, Keeps
<1>9. ASSUME NEW h, Keeps(h, t) PROVE WithoutFillers(t) = h[Len(t)]
  <2> DEFINE Rec(e) == e = [k \in 0..n |-> IF k = 0 THEN <<>> ELSE Kept(e[k - 1], t[k])]
  <2>1. PICK g : g = CHOOSE e : Rec(e) OBVIOUS
  <2>2. WithoutFillers(t) = g[n] BY <1>1, <2>1 DEF WithoutFillers, Kept
  <2>3. Rec(f)
    <3> DEFINE r == [k \in 0..n |-> IF k = 0 THEN <<>> ELSE Kept(f[k - 1], t[k])]
    <3>1. \A k \in 0..n : k = 0 \/ k \in 1..n BY <1>1
    <3>2. \A k \in 0..n : f[k] = r[k] BY ONLY <1>1, <1>8, <3>1 DEF Keeps
    <3> QED BY ONLY <1>6, <3>2
  <2>4. Rec(g)
    <3> HIDE DEF Rec
    <3> QED BY ONLY <2>3, <2>1
  <2>5. g[0] = b /\ \A k \in 1..n : g[k] = Kept(g[k - 1], t[k])
    <3>1. \A k \in 0..n : g[k] = IF k = 0 THEN <<>> ELSE Kept(g[k - 1], t[k])
      BY ONLY <2>4
    <3>2. 0 \in 0..n BY <1>1
    <3> QED BY ONLY <1>2, <1>7, <3>1, <3>2
  <2>6. Follows(g, n, b, step, S2) BY ONLY <1>5, <2>5 DEF Follows
  <2>7. Follows(h, n, b, step, S2)
    BY ONLY <1>1, <1>2, <1>5, <1>9 DEF Follows, Keeps
  <2>8. \A k \in 0..n : h[k] \in S2 /\ h[k] = g[k]
    <3>1. n \in Nat /\ b \in S2 BY <1>2
    <3> QED BY ONLY <3>1, <1>4, <2>6, <2>7, StepsAgree
  <2>9. n \in 0..n BY <1>1
  <2> QED BY ONLY <1>1, <2>2, <2>8, <2>9
<1> QED BY ONLY <1>1, <1>2, <1>6, <1>8, <1>9


(* Induction from the left: a set of sequences with the empty one and with  *)
(* every extension of its elements has them all.                           *)
LEMMA SnocInduction ==
    ASSUME NEW T, NEW P, <<>> \in P, \A s \in Seq(T), c \in T : s \in P => Append(s, c) \in P
    PROVE  Seq(T) \subseteq P
<1> SUFFICES ASSUME NEW s \in Seq(T), s \notin P PROVE FALSE OBVIOUS
<1> DEFINE Bad == {n \in Nat : \E e \in Seq(T) : Len(e) = n /\ e \notin P}
<1>1. Bad # {} /\ Bad \subseteq Nat
  <2>1. Len(s) \in Bad OBVIOUS
  <2> QED BY <2>1
<1>2. PICK m \in Bad : \A k \in Bad : m <= k
  <2> HIDE DEF Bad
  <2> QED BY <1>1, NatLeast
<1>3. PICK e \in Seq(T) : Len(e) = m /\ e \notin P OBVIOUS
<1>4. e # <<>> BY <1>3
<1>5. PICK q \in Seq(T), c \in T : e = Append(q, c) BY <1>4, SequenceEmptyOrAppend
<1>6. Len(q) \in Nat /\ Len(e) = Len(q) + 1 BY <1>5
<1>7. q \in P
  <2>1. ~ (m <= Len(q)) BY <1>3, <1>6
  <2> QED BY <1>2, <1>6, <2>1
<1> QED BY ONLY <1>3, <1>5, <1>7, \A r \in Seq(T), d \in T : r \in P => Append(r, d) \in P

(* The same from the right. *)
LEMMA ConsInduction ==
    ASSUME NEW T, NEW P, <<>> \in P, \A s \in Seq(T), c \in T : s \in P => <<c>> \o s \in P
    PROVE  Seq(T) \subseteq P
<1> SUFFICES ASSUME NEW s \in Seq(T), s \notin P PROVE FALSE OBVIOUS
<1> DEFINE Bad == {n \in Nat : \E e \in Seq(T) : Len(e) = n /\ e \notin P}
<1>1. Bad # {} /\ Bad \subseteq Nat
  <2>1. Len(s) \in Bad OBVIOUS
  <2> QED BY <2>1
<1>2. PICK m \in Bad : \A k \in Bad : m <= k
  <2> HIDE DEF Bad
  <2> QED BY <1>1, NatLeast
<1>3. PICK e \in Seq(T) : Len(e) = m /\ e \notin P OBVIOUS
<1>4. e # <<>> BY <1>3
<1>5. /\ Tail(e) \in Seq(T) /\ Head(e) \in T /\ <<Head(e)>> \o Tail(e) = e
      /\ Len(Tail(e)) = m - 1 /\ m - 1 \in Nat /\ ~ (m <= m - 1)
  <2>1. Len(e) \in Nat /\ Len(e) # 0 BY <1>4, EmptySeq
  <2>2. Tail(e) \in Seq(T) /\ Head(e) \in T /\ Len(Tail(e)) = Len(e) - 1
    BY <1>4, HeadTailProperties
  <2>3. <<Head(e)>> \o Tail(e) = e
    <3>1. <<Head(e)>> \o Tail(e) \in Seq(T) /\ Len(<<Head(e)>> \o Tail(e)) = Len(e)
      BY <2>1, <2>2, ConcatProperties
    <3>2. \A i \in 1..Len(e) : (<<Head(e)>> \o Tail(e))[i] = e[i]
      BY <1>4, <2>1, <2>2
    <3> QED BY <3>1, <3>2, SeqEqual
  <2> QED BY <1>3, <2>1, <2>2, <2>3
<1>6. Tail(e) \in P BY <1>2, <1>5
<1> QED BY ONLY <1>3, <1>5, <1>6, \A q \in Seq(T), c \in T : q \in P => <<c>> \o q \in P

(* Each loop, one element more at a time. *)
LEMMA CollapsedSnoc ==
    ASSUME NEW X, Blank \subseteq X
    PROVE  /\ Collapsed(<<>>) = NotCollapsed
           /\ \A s \in Seq(X) : Collapsed(s) \in CollapseStates(X)
           /\ \A s \in Seq(X), c \in X : Collapsed(Append(s, c)) = CollapseOne(Collapsed(s), c)
<1>1. \A s \in Seq(X) :
         /\ \E f \in [0..Len(s) -> CollapseStates(X)] : Collapses(f, s)
         /\ \A f : Collapses(f, s) => Collapsed(s) = f[Len(s)]
  BY CollapsedIs
<1>2. Collapsed(<<>>) = NotCollapsed
  <2>1. <<>> \in Seq(X) /\ Len(<<>>) = 0 OBVIOUS
  <2>2. PICK f : Collapses(f, <<>>) BY ONLY <1>1, <2>1
  <2> QED BY ONLY <1>1, <2>1, <2>2 DEF Collapses
<1>3. ASSUME NEW s \in Seq(X) PROVE Collapsed(s) \in CollapseStates(X)
  <2>1. Len(s) \in 0..Len(s) OBVIOUS
  <2> QED BY ONLY <1>1, <1>3, <2>1
<1>4. ASSUME NEW s \in Seq(X), NEW c \in X PROVE Collapsed(Append(s, c)) = CollapseOne(Collapsed(s), c)
  <2>1. PICK n \in Nat : n = Len(s) OBVIOUS
  <2>2. PICK a : a = Append(s, c) OBVIOUS
  <2>3. a \in Seq(X) /\ Len(a) = n + 1 /\ a[n + 1] = c /\ \A k \in 1..n : a[k] = s[k]
    BY <2>1, <2>2
  <2>4. PICK f : Collapses(f, a) BY ONLY <1>1, <2>3
  <2>5. \A k \in 1..n : k \in 1..(n + 1) BY <2>1
  <2>6. Collapses(f, s) BY ONLY <2>1, <2>3, <2>4, <2>5 DEF Collapses
  <2>7. Collapsed(s) = f[n] BY ONLY <1>1, <1>4, <2>1, <2>6
  <2>8. Collapsed(a) = f[n + 1] BY ONLY <1>1, <2>3, <2>4
  <2>9. n + 1 \in 1..(n + 1) /\ (n + 1) - 1 = n BY <2>1
  <2>10. f[n + 1] = CollapseOne(f[n], c) BY ONLY <2>3, <2>4, <2>9 DEF Collapses
  <2> QED BY ONLY <2>2, <2>7, <2>8, <2>10
<1> QED BY ONLY <1>2, <1>3, <1>4

LEMMA TokenizedSnoc ==
    ASSUME NEW X, Blank \subseteq X
    PROVE  /\ Tokenized(<<>>) = NoTokens
           /\ \A s \in Seq(X) : Tokenized(s) \in TokenStates(X)
           /\ \A s \in Seq(X), c \in X : Tokenized(Append(s, c)) = TokenOne(Tokenized(s), c)
<1>1. \A s \in Seq(X) :
         /\ \E f \in [0..Len(s) -> TokenStates(X)] : Tokenizes(f, s)
         /\ \A f : Tokenizes(f, s) => Tokenized(s) = f[Len(s)]
  BY TokenizedIs
<1>2. Tokenized(<<>>) = NoTokens
  <2>1. <<>> \in Seq(X) /\ Len(<<>>) = 0 OBVIOUS
  <2>2. PICK f : Tokenizes(f, <<>>) BY ONLY <1>1, <2>1
  <2> QED BY ONLY <1>1, <2>1, <2>2 DEF Tokenizes
<1>3. ASSUME NEW s \in Seq(X) PROVE Tokenized(s) \in TokenStates(X)
  <2>1. Len(s) \in 0..Len(s) OBVIOUS
  <2> QED BY ONLY <1>1, <1>3, <2>1
<1>4. ASSUME NEW s \in Seq(X), NEW c \in X PROVE Tokenized(Append(s, c)) = TokenOne(Tokenized(s), c)
  <2>1. PICK n \in Nat : n = Len(s) OBVIOUS
  <2>2. PICK a : a = Append(s, c) OBVIOUS
  <2>3. a \in Seq(X) /\ Len(a) = n + 1 /\ a[n + 1] = c /\ \A k \in 1..n : a[k] = s[k]
    BY <2>1, <2>2
  <2>4. PICK f : Tokenizes(f, a) BY ONLY <1>1, <2>3
  <2>5. \A k \in 1..n : k \in 1..(n + 1) BY <2>1
  <2>6. Tokenizes(f, s) BY ONLY <2>1, <2>3, <2>4, <2>5 DEF Tokenizes
  <2>7. Tokenized(s) = f[n] BY ONLY <1>1, <1>4, <2>1, <2>6
  <2>8. Tokenized(a) = f[n + 1] BY ONLY <1>1, <2>3, <2>4
  <2>9. n + 1 \in 1..(n + 1) /\ (n + 1) - 1 = n BY <2>1
  <2>10. f[n + 1] = TokenOne(f[n], c) BY ONLY <2>3, <2>4, <2>9 DEF Tokenizes
  <2> QED BY ONLY <2>2, <2>7, <2>8, <2>10
<1> QED BY ONLY <1>2, <1>3, <1>4

LEMMA WithoutFillersSnoc ==
    ASSUME NEW X, Blank \subseteq X
    PROVE  /\ WithoutFillers(<<>>) = <<>>
           /\ \A s \in Seq(Seq(X)) : WithoutFillers(s) \in Seq(X)
           /\ \A s \in Seq(Seq(X)), c \in Seq(X) : WithoutFillers(Append(s, c)) = Kept(WithoutFillers(s), c)
<1>1. \A s \in Seq(Seq(X)) :
         /\ \E f \in [0..Len(s) -> Seq(X)] : Keeps(f, s)
         /\ \A f : Keeps(f, s) => WithoutFillers(s) = f[Len(s)]
  BY WithoutFillersIs
<1>2. WithoutFillers(<<>>) = <<>>
  <2>1. <<>> \in Seq(Seq(X)) /\ Len(<<>>) = 0 OBVIOUS
  <2>2. PICK f : Keeps(f, <<>>) BY ONLY <1>1, <2>1
  <2> QED BY ONLY <1>1, <2>1, <2>2 DEF Keeps
<1>3. ASSUME NEW s \in Seq(Seq(X)) PROVE WithoutFillers(s) \in Seq(X)
  <2>1. Len(s) \in 0..Len(s) OBVIOUS
  <2> QED BY ONLY <1>1, <1>3, <2>1
<1>4. ASSUME NEW s \in Seq(Seq(X)), NEW c \in Seq(X) PROVE WithoutFillers(Append(s, c)) = Kept(WithoutFillers(s), c)
  <2>1. PICK n \in Nat : n = Len(s) OBVIOUS
  <2>2. PICK a : a = Append(s, c) OBVIOUS
  <2>3. a \in Seq(Seq(X)) /\ Len(a) = n + 1 /\ a[n + 1] = c /\ \A k \in 1..n : a[k] = s[k]
    BY <2>1, <2>2
  <2>4. PICK f : Keeps(f, a) BY ONLY <1>1, <2>3
  <2>5. \A k \in 1..n : k \in 1..(n + 1) BY <2>1
  <2>6. Keeps(f, s) BY ONLY <2>1, <2>3, <2>4, <2>5 DEF Keeps
  <2>7. WithoutFillers(s) = f[n] BY ONLY <1>1, <1>4, <2>1, <2>6
  <2>8. WithoutFillers(a) = f[n + 1] BY ONLY <1>1, <2>3, <2>4
  <2>9. n + 1 \in 1..(n + 1) /\ (n + 1) - 1 = n BY <2>1
  <2>10. f[n + 1] = Kept(f[n], c) BY ONLY <2>3, <2>4, <2>9 DEF Keeps
  <2> QED BY ONLY <2>2, <2>7, <2>8, <2>10
<1> QED BY ONLY <1>2, <1>3, <1>4


-----------------------------------------------------------------------------
(* Collapsing the blanks keeps the tokens.                                  *)

LEMMA TokenizedSeparated ==
    ASSUME NEW X, Blank \subseteq X, NEW st \in CollapseStates(X)
    PROVE  Tokenized(Separated(st)) = IF st.newline_run > 0 \/ st.pending_space
                                      THEN Ended(Tokenized(st.out)) ELSE Tokenized(st.out)
<1>1. PICK out \in Seq(X) : out = st.out BY DEF CollapseStates
<1>2. PICK sp \in X, nl \in X : sp = " " /\ nl = "NL" /\ sp \in Blank /\ nl \in Blank
  BY DEF Blank
<1>3. PICK T \in TokenStates(X) : T = Tokenized(out) BY TokenizedSnoc
<1>4. Ended(T) \in TokenStates(X) /\ Ended(Ended(T)) = Ended(T) BY EndedIs
<1>5. ASSUME NEW c \in X, c \in Blank, NEW o \in Seq(X)
      PROVE  Append(o, c) \in Seq(X) /\ Tokenized(Append(o, c)) = Ended(Tokenized(o))
  BY <1>5, TokenizedSnoc DEF TokenOne
<1>6. CASE st.out = <<>>
  <2>1. T = NoTokens BY <1>1, <1>3, <1>6, TokenizedSnoc
  <2>2. Ended(T) = T BY <2>1 DEF NoTokens, Ended
  <2> QED BY ONLY <1>1, <1>3, <1>6, <2>2 DEF Separated
<1>7. CASE st.out # <<>> /\ st.newline_run > 0
  <2>1. out \o <<nl>> = Append(out, nl) /\ out \o <<nl, nl>> = Append(Append(out, nl), nl)
    <3>1. out \o <<nl>> = Append(out, nl) BY AppendIsConcat
    <3>2. <<nl, nl>> \in Seq(X) /\ Append(Append(out, nl), nl) \in Seq(X) OBVIOUS
    <3>3. /\ Len(out \o <<nl, nl>>) = Len(Append(Append(out, nl), nl))
          /\ out \o <<nl, nl>> \in Seq(X)
          /\ \A i \in 1..(Len(out) + 2) : (out \o <<nl, nl>>)[i] = Append(Append(out, nl), nl)[i]
      BY <3>2
    <3> QED BY <3>1, <3>2, <3>3, SeqEqual
  <2>2. Separated(st) = Append(out, nl) \/ Separated(st) = Append(Append(out, nl), nl)
    BY <1>1, <1>2, <1>7, <2>1 DEF Separated, Newlines
  <2>3. Tokenized(Append(out, nl)) = Ended(T) /\ Append(out, nl) \in Seq(X)
    BY <1>2, <1>3, <1>5
  <2>4. Tokenized(Append(Append(out, nl), nl)) = Ended(T) BY <1>2, <1>4, <1>5, <2>3
  <2> QED BY ONLY <1>1, <1>3, <1>7, <2>2, <2>3, <2>4
<1>8. CASE st.out # <<>> /\ ~ (st.newline_run > 0) /\ st.pending_space
  <2>1. Separated(st) = Append(out, sp) BY ONLY <1>1, <1>2, <1>8 DEF Separated
  <2>2. Tokenized(Append(out, sp)) = Ended(T) BY <1>2, <1>3, <1>5
  <2> QED BY ONLY <1>1, <1>3, <1>8, <2>1, <2>2
<1>9. CASE st.out # <<>> /\ ~ (st.newline_run > 0) /\ ~ st.pending_space
  BY ONLY <1>1, <1>9 DEF Separated
<1> QED BY ONLY <1>6, <1>7, <1>8, <1>9

LEMMA TokensKept ==
    ASSUME NEW X, Blank \subseteq X, NEW s \in Seq(X)
    PROVE  /\ collapse_whitespace(s) \in Seq(X)
           /\ TokensIn(collapse_whitespace(s)) = TokensIn(s)
<1> DEFINE Pending(st) == st.newline_run > 0 \/ st.pending_space
           Good(e) == Tokenized(e) = IF Pending(Collapsed(e)) THEN Ended(Tokenized(Collapsed(e).out))
                                     ELSE Tokenized(Collapsed(e).out)
           P == {e \in Seq(X) : Good(e)}
<1>1. <<>> \in P
  <2>1. Collapsed(<<>>) = NotCollapsed /\ Tokenized(<<>>) = NoTokens
    BY CollapsedSnoc, TokenizedSnoc
  <2>2. Collapsed(<<>>).out = <<>> /\ ~ Pending(Collapsed(<<>>)) BY <2>1 DEF NotCollapsed
  <2> QED BY <2>2, EmptySeq
<1>2. ASSUME NEW e \in Seq(X), NEW c \in X, e \in P PROVE Append(e, c) \in P
  <2>1. PICK st \in CollapseStates(X) : st = Collapsed(e) BY CollapsedSnoc
  <2>2. st.out \in Seq(X) /\ st.newline_run \in Nat /\ st.pending_space \in BOOLEAN
    BY DEF CollapseStates
  <2>3. PICK T \in TokenStates(X) : T = Tokenized(st.out) BY <2>2, TokenizedSnoc
  <2>4. PICK U \in TokenStates(X) : U = Tokenized(e) BY TokenizedSnoc
  <2>5. U = IF Pending(st) THEN Ended(T) ELSE T BY <1>2, <2>1, <2>3, <2>4
  <2>6. Ended(U) = Ended(T) BY <2>5, EndedIs
  <2>7. /\ Collapsed(Append(e, c)) = CollapseOne(st, c) /\ Append(e, c) \in Seq(X)
        /\ Tokenized(Append(e, c)) = TokenOne(U, c)
    BY <2>1, <2>4, CollapsedSnoc, TokenizedSnoc
  <2> DEFINE new == CollapseOne(st, c)
  <2>8. CASE c \in Blank
    <3>1. new.out = st.out /\ Pending(new)
      <4>1. CASE c = "NL"
        <5>1. new = [out |-> st.out, newline_run |-> st.newline_run + 1, pending_space |-> FALSE]
          BY <4>1, CollapseOneIs
        <5> QED BY <2>2, <5>1
      <4>2. CASE c = " "
        <5>1. new = [out |-> st.out, newline_run |-> st.newline_run,
                     pending_space |-> (st.pending_space \/ st.newline_run = 0)]
          BY <4>2, CollapseOneIs
        <5>2. new.out = st.out /\ new.newline_run = st.newline_run
          BY ONLY <5>1
        <5>3. PICK b \in BOOLEAN : b = (st.pending_space \/ st.newline_run = 0)
          BY Zenon
        <5>6. new.pending_space = b
          <6>1. new = [out |-> st.out, newline_run |-> st.newline_run, pending_space |-> b]
            <7> HIDE DEF new
            <7> QED BY ONLY <5>1, <5>3, Zenon
          <6> HIDE DEF new
          <6> QED BY ONLY <6>1
        <5>4. st.newline_run > 0 \/ st.newline_run = 0 BY ONLY <2>2
        <5> HIDE DEF new
        <5>5. new.pending_space \/ st.newline_run > 0 BY ONLY <5>3, <5>4, <5>6, Zenon
        <5> QED BY ONLY <5>2, <5>5, Zenon
      <4>3. c = "NL" \/ c = " " BY <2>8 DEF Blank
      <4> HIDE DEF new, Pending
      <4> QED BY ONLY <4>1, <4>2, <4>3
    <3>2. TokenOne(U, c) = Ended(U) BY <2>8 DEF TokenOne
    <3> HIDE DEF new, Pending
    <3> QED BY ONLY <2>3, <2>6, <2>7, <3>1, <3>2 DEF new
  <2>9. CASE c \notin Blank
    <3>1. new = [out |-> Append(Separated(st), c), newline_run |-> 0, pending_space |-> FALSE]
      BY <2>9, CollapseOneIs
    <3>2. new.out = Append(Separated(st), c) /\ ~ Pending(new) BY <3>1
    <3>3. Separated(st) \in Seq(X) BY SeparatedIs
    <3>4. Tokenized(Separated(st)) = U
      <4>1. Tokenized(Separated(st)) = IF Pending(st) THEN Ended(T) ELSE T
        BY <2>3, TokenizedSeparated
      <4> QED BY ONLY <2>5, <4>1
    <3>5. Tokenized(Append(Separated(st), c)) = TokenOne(U, c)
      BY <3>3, <3>4, TokenizedSnoc
    <3> HIDE DEF new, Pending
    <3> QED BY ONLY <2>7, <3>2, <3>5 DEF new
  <2> QED BY <2>8, <2>9
<1>3. s \in P
  <2> HIDE DEF P
  <2> QED BY ONLY <1>1, <1>2, s \in Seq(X), SnocInduction
<1>4. Collapsed(s) \in CollapseStates(X) BY CollapsedSnoc
<1>5. Collapsed(s).out \in Seq(X) BY <1>4 DEF CollapseStates
<1>6. Ended(Tokenized(s)) = Ended(Tokenized(Collapsed(s).out))
  <2>1. PICK T \in TokenStates(X) : T = Tokenized(Collapsed(s).out) BY <1>5, TokenizedSnoc
  <2>2. Tokenized(s) = Ended(T) \/ Tokenized(s) = T BY <1>3, <2>1
  <2> QED BY <2>1, <2>2, EndedIs
<1> QED BY <1>5, <1>6 DEF TokensIn, collapse_whitespace

-----------------------------------------------------------------------------
LEMMA Greatest ==
    ASSUME NEW n \in Nat, NEW S \in SUBSET (0..n), S # {}
    PROVE  \E m \in S : \A x \in S : x <= m
<1> DEFINE T == {n - x : x \in S}
<1>1. \A x \in S : x \in Nat /\ x <= n OBVIOUS
<1>2. T \subseteq Nat /\ T # {}
  <2>1. \A x \in S : n - x \in Nat BY <1>1
  <2>2. PICK x \in S : TRUE OBVIOUS
  <2>3. n - x \in T BY <2>2
  <2>4. \A y \in T : \E z \in S : y = n - z OBVIOUS
  <2>5. \A y \in T : y \in Nat BY <2>1, <2>4
  <2> HIDE DEF T
  <2> QED BY <2>3, <2>5
<1>3. PICK k \in T : \A y \in T : k <= y
  <2> HIDE DEF T
  <2> QED BY <1>2, NatLeast
<1>4. PICK m \in S : k = n - m OBVIOUS
<1>5. \A x \in S : n - m <= n - x BY <1>3, <1>4
<1>6. \A x \in S : x <= m BY <1>1, <1>5
<1> QED BY <1>6

(* What always occurs once more further on, and is bounded, occurs nowhere. *)
LEMMA NoneFurtherOn ==
    ASSUME NEW n \in Nat, NEW Diff \in SUBSET (0..n),
           \A x \in Diff : \E y \in Diff : x < y
    PROVE  Diff = {}
<1>1. SUFFICES ASSUME Diff # {} PROVE FALSE OBVIOUS
<1>2. PICK m \in Diff : \A x \in Diff : x <= m BY <1>1, Greatest
<1>3. PICK y \in Diff : m < y OBVIOUS
<1> QED BY <1>2, <1>3

(* What a loop yields that goes on at next, always further on: out, and then  *)
(* what it yields there, or base where it is over.                          *)
Yields(f, a, b, D, base, out, next) ==
    \A k \in a..b : f[k] = IF k \in D THEN base[k] ELSE out[k] \o f[next[k]]

LEMMA LoopYields ==
    ASSUME NEW a \in Nat, NEW b \in Nat, a <= b, NEW X, NEW D, NEW base, NEW out, NEW next,
           \A k \in a..b : k \in D => base[k] \in Seq(X),
           \A k \in a..b : k \notin D => out[k] \in Seq(X) /\ next[k] \in (k + 1)..b
    PROVE  \E f \in [a..b -> Seq(X)] : Yields(f, a, b, D, base, out, next)
<1> DEFINE Good(m) == \E f \in [m..b -> Seq(X)] : Yields(f, m, b, D, base, out, next)
           Bad == {m \in 0..(b + 1) : a <= m /\ ~ Good(m)}
<1>1. Bad = {}
  <2> SUFFICES ASSUME Bad # {} PROVE FALSE OBVIOUS
  <2>1. PICK m \in Bad : \A k \in Bad : k <= m
    <3>1. Bad \in SUBSET (0..(b + 1)) /\ b + 1 \in Nat OBVIOUS
    <3> HIDE DEF Bad
    <3> QED BY <3>1, Greatest
  <2>2. m \in 0..(b + 1) /\ a <= m /\ ~ Good(m) OBVIOUS
  <2>3. CASE m = b + 1
    <3> DEFINE f == [k \in m..b |-> <<>>]
    <3>1. m..b = {} BY <2>3
    <3>2. f \in [m..b -> Seq(X)] BY <3>1
    <3>3. Yields(f, m, b, D, base, out, next) BY <3>1 DEF Yields
    <3> HIDE DEF f
    <3> QED BY <2>2, <3>2, <3>3
  <2>4. CASE m # b + 1
    <3>1. m \in a..b /\ m + 1 \in 0..(b + 1) /\ a <= m + 1 /\ ~ (m + 1 <= m) BY <2>2, <2>4
    <3>2. Good(m + 1)
      <4> HIDE DEF Good
      <4> QED BY <3>1, <2>1
    <3>3. PICK f \in [(m + 1)..b -> Seq(X)] : Yields(f, m + 1, b, D, base, out, next) BY <3>2
    <3> DEFINE x == IF m \in D THEN base[m] ELSE out[m] \o f[next[m]]
               g == [k \in m..b |-> IF k = m THEN x ELSE f[k]]
    <3>4. x \in Seq(X)
      <4>1. CASE m \in D BY <3>1, <4>1
      <4>2. CASE m \notin D
        <5>1. out[m] \in Seq(X) /\ next[m] \in (m + 1)..b BY <3>1, <4>2
        <5>2. f[next[m]] \in Seq(X) BY <5>1, <3>3
        <5>3. out[m] \o f[next[m]] \in Seq(X) BY <5>1, <5>2, ConcatProperties
        <5> QED BY <5>3, <4>2
      <4> QED BY <4>1, <4>2
    <3>5. \A k \in m..b : k # m => k \in (m + 1)..b BY <3>1
    <3>6. g \in [m..b -> Seq(X)]
      <4> HIDE DEF x
      <4> QED BY <3>3, <3>4, <3>5
    <3>7. \A k \in m..b : k \notin D => next[k] \in m..b /\ next[k] # m
      <4>1. TAKE k \in m..b
      <4>2. HAVE k \notin D
      <4>3. k \in a..b /\ k \in Int /\ m <= k BY <3>1
      <4>4. next[k] \in (k + 1)..b BY <4>2, <4>3
      <4> QED BY ONLY <4>3, <4>4, <3>1, b \in Nat, a \in Nat
    <3>8. \A k \in m..b : g[k] = IF k \in D THEN base[k] ELSE out[k] \o g[next[k]]
      <4>1. TAKE k \in m..b
      <4>2. CASE k = m
        <5>1. g[k] = x BY <4>2
        <5>2. k \notin D => g[next[k]] = f[next[k]] BY <3>7
        <5> HIDE DEF g
        <5> QED BY <4>2, <5>1, <5>2
      <4>3. CASE k # m
        <5>1. k \in (m + 1)..b /\ g[k] = f[k] BY <4>3, <3>5
        <5>2. k \notin D => g[next[k]] = f[next[k]] BY <3>7
        <5>3. f[k] = IF k \in D THEN base[k] ELSE out[k] \o f[next[k]] BY <3>3, <5>1 DEF Yields
        <5> HIDE DEF g
        <5> QED BY <5>1, <5>2, <5>3
      <4> QED BY <4>2, <4>3
    <3>9. Yields(g, m, b, D, base, out, next) BY <3>8 DEF Yields
    <3> HIDE DEF g
    <3> QED BY <2>2, <3>6, <3>9
  <2> QED BY <2>3, <2>4
<1>2. Good(a)
  <2> HIDE DEF Good
  <2>1. a \in 0..(b + 1) /\ a <= a OBVIOUS
  <2> QED BY <1>1, <2>1
<1> QED BY <1>2

(* The same loop where every element gives a value or that of a later one. *)
Jumps(f, b, D, base, next) ==
    f = [k \in 0..b |-> IF k \in D THEN base[k] ELSE f[next[k]]]

LEMMA JumpYields ==
    ASSUME NEW b \in Nat, NEW D, NEW base, NEW next,
           \A k \in 0..b : k \notin D => next[k] \in (k + 1)..b
    PROVE  \E f : Jumps(f, b, D, base, next)
<1> DEFINE X == {base[k] : k \in 0..b}
           one == [k \in 0..b |-> <<base[k]>>]
           none == [k \in 0..b |-> <<>>]
<1>1. \A k \in 0..b : one[k] \in Seq(X) /\ one[k][1] = base[k] /\ none[k] = <<>>
  <2>1. TAKE k \in 0..b
  <2>2. base[k] \in X OBVIOUS
  <2> HIDE DEF X
  <2>3. <<base[k]>> \in Seq(X) /\ <<base[k]>>[1] = base[k] BY <2>2
  <2> QED BY <2>3
<1>2. <<>> \in Seq(X) OBVIOUS
<1> HIDE DEF X, one, none
<1>3. PICK h \in [0..b -> Seq(X)] : Yields(h, 0, b, D, one, none, next)
  <2>1. \A k \in 0..b : k \in D => one[k] \in Seq(X) BY <1>1
  <2>2. \A k \in 0..b : k \notin D => none[k] \in Seq(X) /\ next[k] \in (k + 1)..b
    BY <1>1, <1>2
  <2>3. 0 \in Nat /\ 0 <= b OBVIOUS
  <2> QED BY ONLY <2>1, <2>2, <2>3, b \in Nat, LoopYields
<1>4. \A k \in 0..b : k \notin D => next[k] \in 0..b
  <2>1. TAKE k \in 0..b
  <2>2. HAVE k \notin D
  <2>3. next[k] \in (k + 1)..b BY <2>2
  <2> QED BY <2>3
<1> DEFINE f == [k \in 0..b |-> h[k][1]]
<1>5. \A k \in 0..b : f[k] = IF k \in D THEN base[k] ELSE f[next[k]]
  <2>1. TAKE k \in 0..b
  <2>2. h[k] = IF k \in D THEN one[k] ELSE none[k] \o h[next[k]] BY <1>3 DEF Yields
  <2>3. CASE k \in D BY <2>2, <2>3, <1>1
  <2>4. CASE k \notin D
    <3>1. next[k] \in 0..b BY <2>4, <1>4
    <3>2. h[next[k]] \in Seq(X) BY <3>1, <1>3
    <3>3. <<>> \o h[next[k]] = h[next[k]] BY ONLY <3>2
    <3>4. h[k] = h[next[k]] BY <2>2, <2>4, <3>3, <1>1
    <3> QED BY <2>4, <3>1, <3>4
  <2> QED BY <2>3, <2>4
<1>6. f = [k \in 0..b |-> IF k \in D THEN base[k] ELSE f[next[k]]]
  <2> DEFINE r == [k \in 0..b |-> IF k \in D THEN base[k] ELSE f[next[k]]]
  <2>1. \A k \in 0..b : f[k] = r[k]
    <3> HIDE DEF f
    <3> QED BY <1>5
  <2>2. f = [k \in 0..b |-> f[k]] /\ r = [k \in 0..b |-> r[k]] OBVIOUS
  <2> HIDE DEF f, r
  <2>3. f = r BY <2>1, <2>2
  <2> QED BY <2>3 DEF r
<1> HIDE DEF f
<1> QED BY <1>6 DEF Jumps

-----------------------------------------------------------------------------
(* What is computed at a place from what is computed further on is unique.  *)
LEMMA YieldsAgree ==
    ASSUME NEW a \in Nat, NEW b \in Nat, a <= b, NEW D, NEW base, NEW out, NEW next,
           \A k \in a..b : k \notin D => next[k] \in (k + 1)..b,
           NEW f, Yields(f, a, b, D, base, out, next), NEW g, Yields(g, a, b, D, base, out, next)
    PROVE  f[a] = g[a]
<1> DEFINE Diff == {k \in a..b : f[k] # g[k]}
<1>1. ASSUME NEW k \in Diff PROVE \E j \in Diff : k < j
  <2>1. k \in a..b /\ k \in Int /\ f[k] # g[k] OBVIOUS
  <2>2. k \notin D /\ f[next[k]] # g[next[k]] BY <2>1 DEF Yields
  <2>3. next[k] \in (k + 1)..b BY <2>1, <2>2
  <2>4. next[k] \in a..b /\ k < next[k] BY ONLY <2>1, <2>3, a \in Nat, b \in Nat
  <2> QED BY <2>2, <2>4
<1>2. Diff \in SUBSET (0..b) OBVIOUS
<1> HIDE DEF Diff
<1>3. Diff = {} BY ONLY <1>1, <1>2, b \in Nat, NoneFurtherOn
<1>4. a \in a..b OBVIOUS
<1> QED BY <1>3, <1>4 DEF Diff

-----------------------------------------------------------------------------
(* Runs of one mark.                                                       *)

AllAlike(s, i, k) == \A j \in i..(i + k - 1) : s[j] = s[i]

(* The run that starts at i goes to the first character that differs. *)
LEMMA RunIs ==
    ASSUME NEW Y, NEW s \in Seq(Y), NEW i \in 1..Len(s)
    PROVE  /\ RunAt(s, i) \in 1..(Len(s) - i + 1) /\ AllAlike(s, i, RunAt(s, i))
           /\ i + RunAt(s, i) <= Len(s) => s[i + RunAt(s, i)] # s[i]
           /\ \A k \in 1..(Len(s) - i + 1) :
                 AllAlike(s, i, k) /\ (i + k <= Len(s) => s[i + k] # s[i]) => RunAt(s, i) = k
<1>0. Len(s) \in Nat /\ i \in Nat /\ 1 <= i /\ i <= Len(s) OBVIOUS
<1>1. PICK n \in Nat : n = Len(s) BY <1>0
<1> DEFINE R == {k \in 1..(n - i + 1) : AllAlike(s, i, k)}
<1>2. 1 \in R BY <1>0, <1>1 DEF AllAlike
<1>3. R \in SUBSET (0..n) BY <1>0, <1>1
<1>4. RunAt(s, i) = Max(R) BY <1>1 DEF RunAt, AllAlike
<1>5. PICK m \in R : \A x \in R : x <= m
  <2> HIDE DEF R
  <2> QED BY <1>2, <1>3, Greatest
<1>6. Max(R) \in R /\ \A x \in R : Max(R) >= x
  <2> HIDE DEF R
  <2>1. \A x, y \in R : x <= y => y >= x BY <1>3
  <2>2. \E x \in R : \A y \in R : x >= y BY <1>5, <2>1
  <2> QED BY <2>2 DEF Max
<1>7. PICK r \in R : r = RunAt(s, i) /\ \A x \in R : x <= r
  <2> HIDE DEF R
  <2> QED BY <1>3, <1>4, <1>6
<1>8. r \in 1..(n - i + 1) /\ AllAlike(s, i, r) OBVIOUS
<1>9. i + r <= n => s[i + r] # s[i]
  <2> SUFFICES ASSUME i + r <= n, s[i + r] = s[i] PROVE FALSE OBVIOUS
  <2>1. r + 1 \in 1..(n - i + 1) /\ ~ (r + 1 <= r) BY <1>0, <1>8
  <2>2. \A j \in i..(i + (r + 1) - 1) : j \in i..(i + r - 1) \/ j = i + r BY <1>0, <1>8
  <2>3. AllAlike(s, i, r + 1) BY <1>8, <2>2 DEF AllAlike
  <2> QED BY <1>7, <2>1, <2>3
<1>10. ASSUME NEW k \in 1..(n - i + 1), AllAlike(s, i, k), i + k <= n => s[i + k] # s[i]
       PROVE  r = k
  <2>1. k <= r BY <1>7, <1>10
  <2>2. CASE k < r
    <3>1. i + k <= n /\ i + k \in i..(i + r - 1) BY <1>0, <1>8, <2>2
    <3> QED BY <1>8, <1>10, <3>1 DEF AllAlike
  <2> QED BY <1>8, <2>1, <2>2
<1> HIDE DEF R
<1> QED BY ONLY <1>1, <1>7, <1>8, <1>9, <1>10

-----------------------------------------------------------------------------
(* collapse_punctuation from each place on.                                  *)

Mark(c, k) == IF c = "." /\ k = 3 THEN <<".", ".", ".">> ELSE <<c>>

PunctuationOut(s) ==
    [i \in 1..Len(s) |-> IF s[i] \notin Punctuation THEN <<s[i]>> ELSE Mark(s[i], RunAt(s, i))]
PunctuationNext(s) ==
    [i \in 1..Len(s) |-> IF s[i] \notin Punctuation THEN i + 1 ELSE i + RunAt(s, i)]
PunctuationFrom(f, s) ==
    Yields(f, 1, Len(s) + 1, {Len(s) + 1}, [i \in {Len(s) + 1} |-> <<>>],
           PunctuationOut(s), PunctuationNext(s))

LEMMA MarkIs ==
    ASSUME NEW Y, NEW c \in Y, NEW k
    PROVE  Mark(c, k) \in Seq(Y) /\ Len(Mark(c, k)) \in Nat \ {0} /\ Mark(c, k)[1] = c
<1>1. CASE c = "." /\ k = 3
  <2>1. <<c, c, c>> \in Seq(Y) /\ Len(<<c, c, c>>) = 3 /\ <<c, c, c>>[1] = c OBVIOUS
  <2>2. Mark(c, k) = <<c, c, c>> BY <1>1 DEF Mark
  <2> QED BY <2>1, <2>2
<1>2. CASE ~ (c = "." /\ k = 3)
  <2>1. <<c>> \in Seq(Y) /\ Len(<<c>>) = 1 /\ <<c>>[1] = c OBVIOUS
  <2>2. Mark(c, k) = <<c>> BY ONLY <1>2 DEF Mark
  <2> QED BY <2>1, <2>2
<1> QED BY <1>1, <1>2

(* What it means to be such a function. *)
PunctuationRules(f, s) ==
    /\ f[Len(s) + 1] = <<>>
    /\ \A i \in 1..Len(s) : s[i] \notin Punctuation => f[i] = <<s[i]>> \o f[i + 1]
    /\ \A i \in 1..Len(s) : s[i] \in Punctuation =>
          f[i] = Mark(s[i], RunAt(s, i)) \o f[i + RunAt(s, i)]

LEMMA PunctuationFromIs ==
    ASSUME NEW Y, NEW s \in Seq(Y), NEW f
    PROVE  PunctuationFrom(f, s) <=> PunctuationRules(f, s)
<1>1. PICK n \in Nat : n = Len(s) OBVIOUS
<1> DEFINE out == PunctuationOut(s)
           next == PunctuationNext(s)
           base == [i \in {n + 1} |-> <<>>]
<1>2. \A i \in 1..n : s[i] \notin Punctuation => out[i] = <<s[i]>> /\ next[i] = i + 1
  BY <1>1 DEF PunctuationOut, PunctuationNext
<1>3. \A i \in 1..n : s[i] \in Punctuation =>
         out[i] = Mark(s[i], RunAt(s, i)) /\ next[i] = i + RunAt(s, i)
  BY <1>1 DEF PunctuationOut, PunctuationNext
<1>4. base[n + 1] = <<>> OBVIOUS
<1>5. PunctuationFrom(f, s) <=> Yields(f, 1, n + 1, {n + 1}, base, out, next)
  BY <1>1 DEF PunctuationFrom
<1> HIDE DEF out, next, base
<1>6. \A i \in 1..(n + 1) : i = n + 1 \/ i \in 1..n BY <1>1
<1>7. n + 1 \in 1..(n + 1) /\ \A i \in 1..n : i \in 1..(n + 1) /\ i # n + 1 BY <1>1
<1>8. Yields(f, 1, n + 1, {n + 1}, base, out, next) <=>
         /\ f[n + 1] = <<>>
         /\ \A i \in 1..n : f[i] = out[i] \o f[next[i]]
  BY ONLY <1>4, <1>6, <1>7 DEF Yields
<1> QED BY ONLY <1>1, <1>2, <1>3, <1>5, <1>8 DEF PunctuationRules

LEMMA PunctuationGoesOn ==
    ASSUME NEW Y, NEW s \in Seq(Y), NEW i \in 1..Len(s)
    PROVE  PunctuationOut(s)[i] \in Seq(Y) /\ PunctuationNext(s)[i] \in (i + 1)..(Len(s) + 1)
<1>1. Len(s) \in Nat /\ i \in Nat /\ s[i] \in Y OBVIOUS
<1>2. RunAt(s, i) \in 1..(Len(s) - i + 1) BY RunIs
<1>3. <<s[i]>> \in Seq(Y) /\ Mark(s[i], RunAt(s, i)) \in Seq(Y) BY <1>1, MarkIs
<1>4. PunctuationOut(s)[i] \in Seq(Y) BY <1>3 DEF PunctuationOut
<1>5. PunctuationNext(s)[i] = i + 1 \/ PunctuationNext(s)[i] = i + RunAt(s, i)
  BY DEF PunctuationNext
<1> QED BY <1>1, <1>2, <1>4, <1>5

LEMMA PunctuationIs ==
    ASSUME NEW Y, NEW s \in Seq(Y)
    PROVE  /\ \E f \in [1..(Len(s) + 1) -> Seq(Y)] : PunctuationFrom(f, s)
           /\ \A h : PunctuationFrom(h, s) => collapse_punctuation(s) = h[1]
<1>1. PICK n \in Nat : n = Len(s) OBVIOUS
<1>2. PICK D, base, out, next : /\ D = {n + 1} /\ base = [i \in {n + 1} |-> <<>>]
                                /\ out = PunctuationOut(s) /\ next = PunctuationNext(s)
  OBVIOUS
<1>3. \A f : PunctuationFrom(f, s) <=> Yields(f, 1, n + 1, D, base, out, next)
  BY ONLY <1>1, <1>2 DEF PunctuationFrom
<1>4. \A k \in 1..(n + 1) : k \in D => base[k] \in Seq(Y) BY <1>2, EmptySeq
<1>5. \A k \in 1..(n + 1) : k \notin D => out[k] \in Seq(Y) /\ next[k] \in (k + 1)..(n + 1)
  <2>1. \A k \in 1..(n + 1) : k \notin D => k \in 1..n BY <1>1, <1>2
  <2>2. \A k \in 1..n : out[k] \in Seq(Y) /\ next[k] \in (k + 1)..(n + 1)
    BY <1>1, <1>2, PunctuationGoesOn
  <2> QED BY ONLY <2>1, <2>2
<1>6. 1 \in Nat /\ n + 1 \in Nat /\ 1 <= n + 1 BY <1>1
<1>7. PICK f \in [1..(n + 1) -> Seq(Y)] : Yields(f, 1, n + 1, D, base, out, next)
  BY ONLY <1>4, <1>5, <1>6, LoopYields
<1>8. ASSUME NEW h, PunctuationFrom(h, s) PROVE collapse_punctuation(s) = h[1]
  <2> DEFINE One(e, i) == IF i > n THEN <<>>
                          ELSE IF s[i] \notin Punctuation THEN <<s[i]>> \o e[i + 1]
                          ELSE (IF s[i] = "." /\ RunAt(s, i) = 3 THEN <<".", ".", ".">>
                                ELSE <<s[i]>>) \o e[i + RunAt(s, i)]
             Rec(e) == e = [i \in 1..(n + 1) |-> One(e, i)]
  <2>1. PICK g : g = CHOOSE e : Rec(e) OBVIOUS
  <2>2. collapse_punctuation(s) = g[1] BY <1>1, <2>1 DEF collapse_punctuation
  <2>3. \A i \in 1..(n + 1) : i = n + 1 \/ (i \in 1..n /\ ~ (i > n)) BY <1>1
  <2>4. n + 1 > n /\ n + 1 \in 1..(n + 1) /\ \A i \in 1..n : i \in 1..(n + 1) BY <1>1
  <2>5. \A e : PunctuationFrom(e, s) <=> \A i \in 1..(n + 1) : e[i] = One(e, i)
    <3>1. TAKE e
    <3>2. \A i \in 1..n : s[i] \notin Punctuation => One(e, i) = <<s[i]>> \o e[i + 1]
      BY ONLY <1>1
    <3>3. \A i \in 1..n : s[i] \in Punctuation =>
             One(e, i) = Mark(s[i], RunAt(s, i)) \o e[i + RunAt(s, i)]
      <4>1. TAKE i \in 1..n
      <4>2. HAVE s[i] \in Punctuation
      <4>3. ~ (i > n) BY <1>1
      <4> QED BY ONLY <4>2, <4>3 DEF Mark
    <3>4. One(e, n + 1) = <<>> BY ONLY <2>4
    <3>5. PunctuationFrom(e, s) <=>
              /\ e[n + 1] = <<>>
              /\ \A i \in 1..n : s[i] \notin Punctuation => e[i] = <<s[i]>> \o e[i + 1]
              /\ \A i \in 1..n : s[i] \in Punctuation =>
                    e[i] = Mark(s[i], RunAt(s, i)) \o e[i + RunAt(s, i)]
      <4>1. PICK b : b = e OBVIOUS
      <4>2. PunctuationFrom(b, s) <=> PunctuationRules(b, s) BY PunctuationFromIs
      <4> HIDE DEF One
      <4> QED BY ONLY <1>1, <4>1, <4>2 DEF PunctuationRules
    <3> HIDE DEF One
    <3> QED BY ONLY <2>3, <2>4, <3>2, <3>3, <3>4, <3>5
  <2>6. Rec(f)
    <3> HIDE DEF One
    <3>1. \A i \in 1..(n + 1) : f[i] = One(f, i) BY ONLY <1>3, <1>7, <2>5
    <3> QED BY ONLY <1>7, <3>1
  <2>7. Rec(g)
    <3> HIDE DEF Rec
    <3> QED BY ONLY <2>1, <2>6
  <2>8. \A i \in 1..(n + 1) : g[i] = One(g, i)
    <3> HIDE DEF One
    <3> QED BY ONLY <2>7
  <2> HIDE DEF One, Rec
  <2>9. Yields(g, 1, n + 1, D, base, out, next) /\ Yields(h, 1, n + 1, D, base, out, next)
    BY ONLY <1>3, <1>8, <2>5, <2>8
  <2>10. \A k \in 1..(n + 1) : k \notin D => next[k] \in (k + 1)..(n + 1) BY ONLY <1>5
  <2>11. g[1] = h[1] BY ONLY SMTT(40), <1>6, <2>9, <2>10, YieldsAgree
  <2> QED BY ONLY <2>2, <2>11
<1> QED BY ONLY <1>1, <1>3, <1>7, <1>8

(* What is computed for the end of a text is computed at its place in the text. *)
LEMMA PunctuationOfEnd ==
    ASSUME NEW Y, NEW a \in Seq(Y), NEW v \in Seq(Y), NEW f, PunctuationFrom(f, a \o v)
    PROVE  collapse_punctuation(v) = f[Len(a) + 1]
<1>1. PICK m \in Nat, n \in Nat : m = Len(a) /\ n = Len(v) OBVIOUS
<1>2. PICK s \in Seq(Y) : s = a \o v BY ConcatProperties
<1>3. Len(s) = m + n /\ \A j \in 1..n : m + j \in 1..(m + n) /\ s[m + j] = v[j]
  <2>1. Len(s) = m + n BY <1>1, <1>2, ConcatProperties
  <2>2. ASSUME NEW j \in 1..n PROVE m + j \in 1..(m + n) /\ s[m + j] = v[j]
    <3>1. m + j \in 1..(m + n) /\ ~ (m + j <= m) /\ (m + j) - m = j BY <1>1
    <3>2. s[m + j] = IF m + j <= m THEN a[m + j] ELSE v[(m + j) - m]
      BY <1>1, <1>2, <3>1, ConcatProperties
    <3> QED BY ONLY <3>1, <3>2
  <2> QED BY <2>1, <2>2
<1>4. ASSUME NEW j \in 1..n PROVE RunAt(s, m + j) = RunAt(v, j)
  <2>1. PICK r : r = RunAt(v, j) OBVIOUS
  <2>2. r \in 1..(n - j + 1) /\ AllAlike(v, j, r) /\ (j + r <= n => v[j + r] # v[j])
    BY <1>1, <2>1, RunIs
  <2>3. r \in 1..(Len(s) - (m + j) + 1) BY <1>1, <1>3, <2>2
  <2>4. AllAlike(s, m + j, r)
    <3>1. ASSUME NEW i \in (m + j)..(m + j + r - 1) PROVE s[i] = s[m + j]
      <4>1. i - m \in j..(j + r - 1) /\ i - m \in 1..n /\ m + (i - m) = i BY <1>1, <2>2
      <4>2. v[i - m] = v[j] BY <2>2, <4>1 DEF AllAlike
      <4> QED BY <1>3, <4>1, <4>2
    <3> QED BY <3>1 DEF AllAlike
  <2>5. (m + j) + r <= Len(s) => s[(m + j) + r] # s[m + j]
    <3>1. HAVE (m + j) + r <= Len(s)
    <3>2. j + r <= n /\ j + r \in 1..n /\ m + (j + r) = (m + j) + r BY <1>1, <1>3, <2>2, <3>1
    <3> QED BY <1>3, <2>2, <3>2
  <2>6. m + j \in 1..Len(s) BY <1>3
  <2> QED BY ONLY <2>1, <2>3, <2>4, <2>5, <2>6, s \in Seq(Y), RunIs
<1>5. PICK h : h = [j \in 1..(n + 1) |-> f[m + j]] OBVIOUS
<1>6. \A j \in 1..(n + 1) : h[j] = f[m + j] BY ONLY <1>5
<1>7. /\ f[m + n + 1] = <<>>
      /\ \A i \in 1..(m + n) : s[i] \notin Punctuation => f[i] = <<s[i]>> \o f[i + 1]
      /\ \A i \in 1..(m + n) : s[i] \in Punctuation =>
                    f[i] = Mark(s[i], RunAt(s, i)) \o f[i + RunAt(s, i)]
  <2>1. PunctuationRules(f, s) BY <1>2, PunctuationFromIs
  <2>2. Len(s) = m + n /\ (m + n) + 1 = m + n + 1 BY <1>3
  <2> QED BY ONLY <2>1, <2>2 DEF PunctuationRules
<1>8. PunctuationFrom(h, v)
  <2>1. h[n + 1] = <<>> BY <1>1, <1>6, <1>7
  <2>2. ASSUME NEW j \in 1..n, v[j] \notin Punctuation PROVE h[j] = <<v[j]>> \o h[j + 1]
    <3>1. j \in 1..(n + 1) /\ j + 1 \in 1..(n + 1) /\ (m + j) + 1 = m + (j + 1) BY <1>1
    <3>2. m + j \in 1..(m + n) /\ s[m + j] = v[j] BY <1>3
    <3>3. f[m + j] = <<v[j]>> \o f[m + (j + 1)] BY ONLY <1>7, <2>2, <3>1, <3>2
    <3> QED BY ONLY <1>6, <3>1, <3>3
  <2>3. ASSUME NEW j \in 1..n, v[j] \in Punctuation
        PROVE  h[j] = Mark(v[j], RunAt(v, j)) \o h[j + RunAt(v, j)]
    <3>1. PICK r : r = RunAt(v, j) OBVIOUS
    <3>2. r \in 1..(n - j + 1) BY <1>1, <3>1, RunIs
    <3>3. j \in 1..(n + 1) /\ j + r \in 1..(n + 1) /\ (m + j) + r = m + (j + r) BY <1>1, <3>2
    <3>4. RunAt(s, m + j) = r BY <1>4, <3>1
    <3>5. m + j \in 1..(m + n) /\ s[m + j] = v[j] BY <1>3
    <3>6. f[m + j] = Mark(v[j], r) \o f[m + (j + r)] BY ONLY <1>7, <2>3, <3>3, <3>4, <3>5
    <3> QED BY ONLY <1>6, <3>1, <3>3, <3>6
  <2>4. PunctuationRules(h, v) BY ONLY <1>1, <2>1, <2>2, <2>3 DEF PunctuationRules
  <2> QED BY <2>4, PunctuationFromIs
<1>9. collapse_punctuation(v) = h[1] BY <1>8, PunctuationIs
<1>10. 1 \in 1..(n + 1) BY <1>1
<1> QED BY ONLY <1>1, <1>6, <1>9, <1>10

(* k times c. *)
Times(c, k) == [i \in 1..k |-> c]

LEMMA TimesIs ==
    ASSUME NEW Y, NEW c \in Y, NEW k \in Nat
    PROVE  Times(c, k) \in Seq(Y) /\ Len(Times(c, k)) = k /\ \A i \in 1..k : Times(c, k)[i] = c
<1>1. Times(c, k) \in [1..k -> Y] BY DEF Times
<1>2. [1..k -> Y] \subseteq Seq(Y) OBVIOUS
<1>3. \A i \in 1..k : Times(c, k)[i] = c BY DEF Times
<1>4. Len(Times(c, k)) = k BY DEF Times
<1> QED BY ONLY <1>1, <1>2, <1>3, <1>4

(* One character or one run more on the left. *)
LEMMA PunctuationCons ==
    ASSUME NEW Y, NEW v \in Seq(Y), NEW c \in Y
    PROVE  /\ collapse_punctuation(<<>>) = <<>>
           /\ collapse_punctuation(v) \in Seq(Y)
           /\ c \notin Punctuation =>
                 collapse_punctuation(<<c>> \o v) = <<c>> \o collapse_punctuation(v)
           /\ c \in Punctuation /\ (v # <<>> => v[1] # c) =>
                 \A k \in Nat \ {0} : collapse_punctuation(Times(c, k) \o v) =
                                      Mark(c, k) \o collapse_punctuation(v)
<1>1. collapse_punctuation(<<>>) = <<>>
  <2>1. <<>> \in Seq(Y) /\ Len(<<>>) = 0 OBVIOUS
  <2>2. PICK f : PunctuationFrom(f, <<>>) BY <2>1, PunctuationIs
  <2>3. f[1] = <<>>
    <3>1. PunctuationRules(f, <<>>) BY <2>1, <2>2, PunctuationFromIs
    <3>2. Len(<<>>) + 1 = 1 OBVIOUS
    <3> QED BY ONLY <3>1, <3>2 DEF PunctuationRules
  <2>4. collapse_punctuation(<<>>) = f[1] BY <2>1, <2>2, PunctuationIs
  <2> QED BY ONLY <2>3, <2>4
<1>2. collapse_punctuation(v) \in Seq(Y)
  <2>1. PICK f \in [1..(Len(v) + 1) -> Seq(Y)] : PunctuationFrom(f, v) BY PunctuationIs
  <2>2. collapse_punctuation(v) = f[1] BY <2>1, PunctuationIs
  <2>3. 1 \in 1..(Len(v) + 1) OBVIOUS
  <2> QED BY ONLY <2>1, <2>2, <2>3
<1>3. ASSUME c \notin Punctuation
      PROVE  collapse_punctuation(<<c>> \o v) = <<c>> \o collapse_punctuation(v)
  <2>1. PICK s \in Seq(Y) : s = <<c>> \o v
    <3>1. <<c>> \in Seq(Y) OBVIOUS
    <3> QED BY <3>1, ConcatProperties
  <2>2. s[1] = c /\ 1 \in 1..Len(s) BY <2>1
  <2>3. PICK f : PunctuationFrom(f, s) /\ collapse_punctuation(s) = f[1] BY PunctuationIs
  <2>4. f[1] = <<c>> \o f[1 + 1]
    <3>1. PunctuationRules(f, s) BY <2>3, PunctuationFromIs
    <3> QED BY ONLY <1>3, <2>2, <3>1 DEF PunctuationRules
  <2>5. collapse_punctuation(v) = f[1 + 1]
    <3>1. <<c>> \in Seq(Y) /\ Len(<<c>>) = 1 OBVIOUS
    <3> QED BY <2>1, <2>3, <3>1, PunctuationOfEnd
  <2> QED BY ONLY <2>1, <2>3, <2>4, <2>5
<1>4. ASSUME c \in Punctuation, v # <<>> => v[1] # c, NEW k \in Nat \ {0}
      PROVE  collapse_punctuation(Times(c, k) \o v) = Mark(c, k) \o collapse_punctuation(v)
  <2>0. k \in Nat OBVIOUS
  <2>1. PICK a \in Seq(Y) : a = Times(c, k) /\ Len(a) = k /\ \A i \in 1..k : a[i] = c
    <3>1. Times(c, k) \in Seq(Y) /\ Len(Times(c, k)) = k /\ \A i \in 1..k : Times(c, k)[i] = c
      BY ONLY <2>0, c \in Y, TimesIs
    <3> QED BY ONLY <3>1
  <2>2. PICK n \in Nat : n = Len(v) OBVIOUS
  <2>3. PICK s \in Seq(Y) : s = a \o v BY ConcatProperties
  <2>4. /\ Len(s) = k + n /\ \A i \in 1..k : s[i] = c
        /\ n > 0 => s[k + 1] = v[1]
    <3>1. Len(s) = k + n BY <2>1, <2>2, <2>3, ConcatFacts
    <3>2. \A i \in 1..k : s[i] = c BY <2>1, <2>3, ConcatFacts
    <3>3. n > 0 => s[k + 1] = v[1]
      <4>1. n > 0 => 1 \in 1..Len(v) BY <2>2
      <4>2. \A i \in 1..Len(v) : s[Len(a) + i] = v[i] BY <2>3, ConcatFacts
      <4> QED BY <2>1, <4>1, <4>2
    <3> QED BY ONLY <3>1, <3>2, <3>3
  <2>5. 1 \in 1..Len(s) /\ s[1] = c /\ 1 \in 1..k BY <2>2, <2>4
  <2>6. RunAt(s, 1) = k
    <3>1. k \in 1..(Len(s) - 1 + 1) BY <2>2, <2>4
    <3>2. AllAlike(s, 1, k) BY <2>4, <2>5 DEF AllAlike
    <3>3. 1 + k <= Len(s) => s[1 + k] # s[1]
      <4>1. 1 + k = k + 1 OBVIOUS
      <4>2. 1 + k <= Len(s) => n > 0 /\ v # <<>> BY <2>2, <2>4
      <4> QED BY <1>4, <2>4, <2>5, <4>1, <4>2
    <3> QED BY <2>5, <3>1, <3>2, <3>3, RunIs
  <2>7. PICK f : PunctuationFrom(f, s) /\ collapse_punctuation(s) = f[1] BY PunctuationIs
  <2>8. f[1] = Mark(c, k) \o f[1 + k]
    <3>1. PunctuationRules(f, s) BY <2>7, PunctuationFromIs
    <3> QED BY ONLY <1>4, <2>5, <2>6, <3>1 DEF PunctuationRules
  <2>9. collapse_punctuation(v) = f[k + 1] BY <2>1, <2>3, <2>7, PunctuationOfEnd
  <2>10. 1 + k = k + 1 OBVIOUS
  <2> QED BY ONLY <2>1, <2>3, <2>7, <2>8, <2>9, <2>10
<1> QED BY <1>1, <1>2, <1>3, <1>4

-----------------------------------------------------------------------------
(* Induction along the runs of a text.                                       *)

LEMMA RunSplit ==
    ASSUME NEW Y, NEW s \in Seq(Y), s # <<>>
    PROVE  \E k \in Nat \ {0}, v \in Seq(Y) :
              /\ s = Times(s[1], k) \o v /\ Len(v) < Len(s)
              /\ v # <<>> => v[1] # s[1]
<1>1. PICK n \in Nat : n = Len(s) /\ n # 0 BY EmptySeq
<1>2. 1 \in 1..n /\ s[1] \in Y BY <1>1
<1>3. PICK k : k = RunAt(s, 1) OBVIOUS
<1>4. k \in 1..n /\ AllAlike(s, 1, k) /\ (1 + k <= n => s[1 + k] # s[1])
  <2>1. n - 1 + 1 = n BY <1>1
  <2> QED BY <1>1, <1>2, <1>3, <2>1, RunIs
<1>5. k \in Nat /\ k # 0 BY <1>1, <1>4
<1>6. PICK v : v = SubSeq(s, k + 1, n) OBVIOUS
<1>7. v \in Seq(Y) /\ Len(v) = n - k /\ \A i \in 1..(n - k) : v[i] = s[k + i]
  <2>1. \A i \in (k + 1)..n : s[i] \in Y BY <1>1, <1>4
  <2>2. k + 1 \in Int /\ n \in Int /\ n - (k + 1) + 1 = n - k BY <1>1, <1>5
  <2>3. v \in Seq(Y) /\ Len(v) = n - k BY <1>1, <1>4, <1>6, <2>1
  <2>4. \A i \in 1..(n - k) : v[i] = s[k + i]
    <3>1. TAKE i \in 1..(n - k)
    <3>2. v[i] = s[(k + 1) + i - 1] BY <1>1, <1>4, <1>6
    <3>3. (k + 1) + i - 1 = k + i BY <1>5
    <3> QED BY <3>2, <3>3
  <2> QED BY <2>3, <2>4
<1>8. PICK a \in Seq(Y) : a = Times(s[1], k) /\ Len(a) = k /\ \A i \in 1..k : a[i] = s[1]
  <2>1. /\ Times(s[1], k) \in Seq(Y) /\ Len(Times(s[1], k)) = k
        /\ \A i \in 1..k : Times(s[1], k)[i] = s[1]
    BY <1>2, <1>5, TimesIs
  <2> QED BY ONLY <2>1
<1>9. s = a \o v
  <2>1. /\ a \o v \in Seq(Y) /\ Len(a \o v) = k + (n - k)
        /\ \A i \in 1..k : (a \o v)[i] = a[i]
        /\ \A i \in 1..(n - k) : (a \o v)[k + i] = v[i]
    <3>1. /\ a \o v \in Seq(Y) /\ Len(a \o v) = Len(a) + Len(v)
          /\ \A i \in 1..Len(a) : (a \o v)[i] = a[i]
          /\ \A i \in 1..Len(v) : (a \o v)[Len(a) + i] = v[i]
      <4>1. a \in Seq(Y) /\ v \in Seq(Y) BY <1>7
      <4> QED BY ONLY <4>1, ConcatFacts
    <3> QED BY ONLY <1>7, <1>8, <3>1
  <2>2. Len(a \o v) = n BY <1>1, <1>5, <2>1
  <2>3. ASSUME NEW i \in 1..n PROVE (a \o v)[i] = s[i]
    <3>1. CASE i <= k
      <4>1. i \in 1..k /\ i \in 1..(1 + k - 1) BY <1>1, <1>4, <3>1
      <4>2. s[i] = s[1] BY <1>4, <4>1 DEF AllAlike
      <4> QED BY <1>8, <2>1, <4>1, <4>2
    <3>2. CASE ~ (i <= k)
      <4>1. i - k \in 1..(n - k) /\ k + (i - k) = i BY <1>1, <1>4, <3>2
      <4> QED BY <1>7, <2>1, <4>1
    <3> QED BY <3>1, <3>2
  <2> QED BY <1>1, <2>1, <2>2, <2>3, SeqEqual
<1>10. Len(v) < Len(s) BY <1>1, <1>4, <1>7
<1>11. v # <<>> => v[1] # s[1]
  <2>1. HAVE v # <<>>
  <2>2. Len(v) # 0 BY <1>7, <2>1, EmptySeq
  <2>3. 1 \in 1..(n - k) /\ 1 + k <= n /\ 1 + k = k + 1 BY <1>1, <1>4, <1>7, <2>2
  <2> QED BY <1>4, <1>7, <2>3
<1> QED BY <1>5, <1>7, <1>8, <1>9, <1>10, <1>11

LEMMA SequenceEmptyOrCons ==
    ASSUME NEW Y, NEW s \in Seq(Y), s # <<>>
    PROVE  \E c \in Y, t \in Seq(Y) : s = <<c>> \o t /\ c = s[1] /\ Len(t) < Len(s)
<1>1. PICK n \in Nat : n = Len(s) /\ n # 0 BY EmptySeq
<1>2. PICK c \in Y : c = s[1] BY <1>1
<1>3. PICK t \in Seq(Y) : t = Tail(s) /\ Len(t) = n - 1 /\ \A i \in 1..(n - 1) : t[i] = s[i + 1]
  <2>1. Tail(s) \in Seq(Y) /\ Len(Tail(s)) = n - 1 BY <1>1, HeadTailProperties
  <2>2. \A i \in 1..(n - 1) : Tail(s)[i] = s[i + 1] BY <1>1, HeadTailProperties
  <2> QED BY ONLY <2>1, <2>2
<1>4. PICK a \in Seq(Y) : a = <<c>> /\ Len(a) = 1 /\ a[1] = c
  <2>1. <<c>> \in Seq(Y) /\ Len(<<c>>) = 1 /\ <<c>>[1] = c OBVIOUS
  <2> QED BY ONLY <2>1
<1>5. /\ a \o t \in Seq(Y) /\ Len(a \o t) = Len(a) + Len(t)
      /\ \A i \in 1..Len(a) : (a \o t)[i] = a[i]
      /\ \A i \in 1..Len(t) : (a \o t)[Len(a) + i] = t[i]
  BY ConcatFacts
<1>6. Len(a \o t) = n BY <1>1, <1>3, <1>4, <1>5
<1>7. ASSUME NEW i \in 1..n PROVE (a \o t)[i] = s[i]
  <2>1. CASE i = 1
    <3>1. 1 \in 1..1 OBVIOUS
    <3> QED BY ONLY <1>2, <1>4, <1>5, <2>1, <3>1
  <2>2. CASE i # 1
    <3>1. i - 1 \in 1..(n - 1) /\ 1 + (i - 1) = i /\ (i - 1) + 1 = i BY <1>1, <2>2
    <3> QED BY ONLY <1>3, <1>4, <1>5, <3>1
  <2> QED BY <2>1, <2>2
<1>8. a \o t = s BY <1>1, <1>5, <1>6, <1>7, SeqEqual
<1>9. Len(t) < Len(s) BY <1>1, <1>3
<1> QED BY ONLY <1>2, <1>3, <1>4, <1>8, <1>9

LEMMA RunInduction ==
    ASSUME NEW Y, NEW P, <<>> \in P,
           \A v \in Seq(Y), c \in Y : v \in P /\ c \notin Punctuation => <<c>> \o v \in P,
           \A v \in Seq(Y), c \in Y, k \in Nat \ {0} :
              v \in P /\ c \in Punctuation /\ (v # <<>> => v[1] # c) => Times(c, k) \o v \in P
    PROVE  Seq(Y) \subseteq P
<1> SUFFICES ASSUME NEW s \in Seq(Y), s \notin P PROVE FALSE OBVIOUS
<1> DEFINE Bad == {n \in Nat : \E e \in Seq(Y) : Len(e) = n /\ e \notin P}
<1>1. Bad # {} /\ Bad \subseteq Nat
  <2>1. Len(s) \in Bad OBVIOUS
  <2> QED BY <2>1
<1>2. PICK m \in Bad : \A k \in Bad : m <= k
  <2> HIDE DEF Bad
  <2> QED BY <1>1, NatLeast
<1>3. PICK e \in Seq(Y) : Len(e) = m /\ e \notin P OBVIOUS
<1>4. e # <<>> BY <1>3
<1>5. ASSUME NEW v \in Seq(Y), Len(v) < Len(e) PROVE v \in P
  <2>1. Len(v) \in Nat /\ ~ (m <= Len(v)) BY <1>3, <1>5
  <2> QED BY <1>2, <2>1
<1>6. PICK c \in Y : c = e[1]
  <2>1. Len(e) # 0 /\ Len(e) \in Nat BY <1>4, EmptySeq
  <2>2. 1 \in 1..Len(e) BY <2>1
  <2> QED BY <2>2
<1>7. CASE c \notin Punctuation
  <2>1. PICK d \in Y, t \in Seq(Y) : e = <<d>> \o t /\ d = e[1] /\ Len(t) < Len(e)
    BY <1>4, SequenceEmptyOrCons
  <2>2. t \in P BY <1>5, <2>1
  <2> QED BY <1>3, <1>6, <1>7, <2>1, <2>2
<1>8. CASE c \in Punctuation
  <2>1. PICK k \in Nat \ {0}, v \in Seq(Y) :
              /\ e = Times(c, k) \o v /\ Len(v) < Len(e)
              /\ v # <<>> => v[1] # c
    <3>1. \E k \in Nat \ {0}, v \in Seq(Y) :
              /\ e = Times(e[1], k) \o v /\ Len(v) < Len(e)
              /\ v # <<>> => v[1] # e[1]
      BY <1>4, RunSplit
    <3> QED BY ONLY <1>6, <3>1
  <2>2. v \in P BY <1>5, <2>1
  <2> QED BY <1>3, <1>8, <2>1, <2>2
<1> QED BY <1>7, <1>8

(* The first character stays. *)
LEMMA PunctuationFirst ==
    ASSUME NEW Y, NEW s \in Seq(Y)
    PROVE  /\ collapse_punctuation(s) = <<>> <=> s = <<>>
           /\ s # <<>> => collapse_punctuation(s)[1] = s[1]
<1>1. CASE s = <<>>
  <2>1. collapse_punctuation(<<>>) = <<>>
    <3>1. <<>> \in Seq(Nat) /\ 0 \in Nat OBVIOUS
    <3> QED BY ONLY <3>1, PunctuationCons
  <2> QED BY ONLY <1>1, <2>1
<1>2. CASE s # <<>>
  <2>1. PICK k \in Nat \ {0}, v \in Seq(Y), c \in Y :
           s = Times(c, k) \o v /\ c = s[1] /\ (v # <<>> => v[1] # s[1])
    <3>1. \E k \in Nat \ {0}, v \in Seq(Y) :
              /\ s = Times(s[1], k) \o v /\ Len(v) < Len(s)
              /\ v # <<>> => v[1] # s[1]
      BY <1>2, RunSplit
    <3>2. PICK c \in Y : c = s[1] BY <1>2, SequenceEmptyOrCons
    <3> QED BY ONLY <3>1, <3>2
  <2>2. ASSUME NEW a \in Seq(Y), Len(a) # 0, a[1] = c, NEW b \in Seq(Y)
        PROVE  a \o b # <<>> /\ (a \o b)[1] = c
    <3>1. Len(a) \in Nat /\ Len(b) \in Nat /\ 1 \in 1..Len(a) BY <2>2
    <3>2. (a \o b)[1] = a[1] /\ Len(a \o b) # 0 BY <3>1, ConcatFacts
    <3> QED BY <2>2, <3>2, EmptySeq
  <2>3. CASE c \in Punctuation
    <3>1. collapse_punctuation(s) = Mark(c, k) \o collapse_punctuation(v)
      BY ZenonT(60), <2>1, <2>3, PunctuationCons
    <3>2. /\ Mark(c, k) \in Seq(Y) /\ Len(Mark(c, k)) # 0 /\ Mark(c, k)[1] = c
          /\ collapse_punctuation(v) \in Seq(Y)
      BY MarkIs, PunctuationCons
    <3> QED BY ONLY <1>2, <2>1, <2>2, <3>1, <3>2
  <2>4. CASE c \notin Punctuation
    <3>1. PICK d \in Y, t \in Seq(Y) : s = <<d>> \o t /\ d = s[1] BY <1>2, SequenceEmptyOrCons
    <3>5. s = <<c>> \o t BY ONLY <2>1, <3>1
    <3>2. collapse_punctuation(s) = <<c>> \o collapse_punctuation(t)
      BY <2>4, <3>5, PunctuationCons
    <3>3. <<c>> \in Seq(Y) /\ Len(<<c>>) # 0 /\ <<c>>[1] = c OBVIOUS
    <3>4. collapse_punctuation(t) \in Seq(Y) BY PunctuationCons
    <3> QED BY ONLY <1>2, <2>1, <2>2, <3>2, <3>3, <3>4
  <2> QED BY <2>3, <2>4
<1> QED BY <1>1, <1>2

-----------------------------------------------------------------------------
(* The reference's words squeeze to the same.                               *)

SqueezeOne(w, k, out) == IF Goes(w, k) THEN out ELSE Append(out, w[k])

LEMMA SqueezeOneIs ==
    ASSUME NEW Y, NEW w \in Seq(Y), NEW k \in 1..Len(w), NEW out \in Seq(Y)
    PROVE  SqueezeOne(w, k, out) \in Seq(Y)
BY DEF SqueezeOne

(* The prefixes of a squeezed word. *)
Squeezes(f, w) ==
    f[0] = <<>> /\ \A k \in 1..Len(w) : f[k] = SqueezeOne(w, k, f[k - 1])

LEMMA SqueezedIs ==
    ASSUME NEW Y, NEW w \in Seq(Y)
    PROVE  /\ \E f \in [0..Len(w) -> Seq(Y)] : Squeezes(f, w)
           /\ \A f : Squeezes(f, w) => Squeezed(w) = f[Len(w)]
<1>1. PICK n \in Nat : n = Len(w) /\ \A k \in 1..n : w[k] \in Y OBVIOUS
<1>2. PICK S2, b : /\ S2 = Seq(Y) /\ b = <<>> /\ b \in S2
                   /\ \A k \in 1..n : \A st \in S2 : SqueezeOne(w, k, st) \in S2
  <2>1. <<>> \in Seq(Y) BY EmptySeq
  <2>2. \A k \in 1..n : \A st \in Seq(Y) : SqueezeOne(w, k, st) \in Seq(Y)
    BY <1>1, SqueezeOneIs
  <2> QED BY <2>1, <2>2
<1>3. PICK step : step = [k \in 1..n |-> [st \in S2 |-> SqueezeOne(w, k, st)]] OBVIOUS
<1>4. step \in [1..n -> [S2 -> S2]] BY ONLY <1>2, <1>3
<1>5. \A k \in 1..n : \A st \in S2 : step[k][st] = SqueezeOne(w, k, st) BY ONLY <1>3
<1>6. PICK f \in [0..n -> S2] : Steps(f, n, b, step) BY ONLY <1>1, <1>2, <1>4, StepsExist
<1>7. \A k \in 1..n : k - 1 \in 0..n /\ k \in 0..n /\ k # 0 BY <1>1
<1>8. Squeezes(f, w) BY ONLY <1>1, <1>2, <1>5, <1>6, <1>7 DEF Steps, Squeezes
<1>9. ASSUME NEW h, Squeezes(h, w) PROVE Squeezed(w) = h[Len(w)]
  <2> DEFINE Rec(e) == e = [k \in 0..n |-> IF k = 0 THEN <<>> ELSE SqueezeOne(w, k, e[k - 1])]
  <2>1. PICK g : g = CHOOSE e : Rec(e) OBVIOUS
  <2>2. Squeezed(w) = g[n] BY <1>1, <2>1 DEF Squeezed, SqueezeOne
  <2>3. Rec(f)
    <3> DEFINE r == [k \in 0..n |-> IF k = 0 THEN <<>> ELSE SqueezeOne(w, k, f[k - 1])]
    <3>1. \A k \in 0..n : k = 0 \/ k \in 1..n BY <1>1
    <3>2. \A k \in 0..n : f[k] = r[k] BY ONLY <1>1, <1>8, <3>1 DEF Squeezes
    <3> QED BY ONLY <1>6, <3>2
  <2>4. Rec(g)
    <3> HIDE DEF Rec
    <3> QED BY ONLY <2>3, <2>1
  <2>5. g[0] = b /\ \A k \in 1..n : g[k] = SqueezeOne(w, k, g[k - 1])
    <3>1. \A k \in 0..n : g[k] = IF k = 0 THEN <<>> ELSE SqueezeOne(w, k, g[k - 1])
      BY ONLY <2>4
    <3>2. 0 \in 0..n BY <1>1
    <3> QED BY ONLY <1>2, <1>7, <3>1, <3>2
  <2>6. Follows(g, n, b, step, S2) BY ONLY <1>5, <2>5 DEF Follows
  <2>7. Follows(h, n, b, step, S2)
    BY ONLY <1>1, <1>2, <1>5, <1>9 DEF Follows, Squeezes
  <2>8. \A k \in 0..n : h[k] \in S2 /\ h[k] = g[k]
    <3>1. n \in Nat /\ b \in S2 BY <1>2
    <3> QED BY ONLY <3>1, <1>4, <2>6, <2>7, StepsAgree
  <2>9. n \in 0..n BY <1>1
  <2> QED BY ONLY <1>1, <2>2, <2>8, <2>9
<1> QED BY ONLY <1>1, <1>2, <1>6, <1>8, <1>9

(* Two parts of a text between which there is no run. *)
NoRunAcross(a, b) ==
    a = <<>> \/ b = <<>> \/ a[Len(a)] \notin Punctuation \/ a[Len(a)] # b[1]

LEMMA GoesApart ==
    ASSUME NEW Y, NEW a \in Seq(Y), NEW b \in Seq(Y), NoRunAcross(a, b)
    PROVE  /\ \A i \in 1..Len(a) : Goes(a \o b, i) <=> Goes(a, i)
           /\ \A i \in 1..Len(b) : Goes(a \o b, Len(a) + i) <=> Goes(b, i)
<1>1. PICK m \in Nat, n \in Nat : m = Len(a) /\ n = Len(b) OBVIOUS
<1>2. PICK z \in Seq(Y) : /\ z = a \o b /\ Len(z) = m + n
                          /\ \A i \in 1..m : z[i] = a[i]
                          /\ \A i \in 1..n : z[m + i] = b[i]
  <2>1. /\ a \o b \in Seq(Y) /\ Len(a \o b) = Len(a) + Len(b)
        /\ \A i \in 1..Len(a) : (a \o b)[i] = a[i]
        /\ \A i \in 1..Len(b) : (a \o b)[Len(a) + i] = b[i]
    BY ConcatFacts
  <2> QED BY ONLY <1>1, <2>1
<1>3. "." \in Punctuation BY DEF Punctuation
<1>4. m > 0 /\ n > 0 => z[m] \notin Punctuation \/ z[m] # z[m + 1]
  <2>1. HAVE m > 0 /\ n > 0
  <2>2. a # <<>> /\ b # <<>> BY <1>1, <2>1
  <2>3. m \in 1..m /\ 1 \in 1..n BY <1>1, <2>1
  <2>4. z[m] = a[Len(a)] /\ z[m + 1] = b[1] BY ONLY <1>1, <1>2, <2>3
  <2> QED BY <2>2, <2>4 DEF NoRunAcross
<1>5. m > 0 /\ n > 0 => z[m] # "." \/ z[m + 1] # "." BY ONLY <1>3, <1>4
<1>6. ASSUME NEW p \in Int, p <= m PROVE ThreeDots(z, p) <=> ThreeDots(a, p)
  <2>1. CASE p >= 1 /\ p + 2 <= m
    <3>1. p \in 1..m /\ p + 1 \in 1..m /\ p + 2 \in 1..m /\ p \in 1..(m - 2) /\ p \in 1..(m + n - 2)
      BY <1>1, <1>6, <2>1
    <3>2. z[p] = a[p] /\ z[p + 1] = a[p + 1] /\ z[p + 2] = a[p + 2] BY ONLY <1>2, <3>1
    <3>3. p > 1 => z[p - 1] = a[p - 1]
      <4>1. p > 1 => p - 1 \in 1..m BY <1>1, <1>6
      <4> QED BY ONLY <1>2, <4>1
    <3>4. CASE p + 3 <= m
      <4>1. p + 3 \in 1..m /\ p + 3 <= m + n BY <1>1, <1>6, <2>1, <3>4
      <4>2. z[p + 3] = a[p + 3] BY ONLY <1>2, <4>1
      <4> QED BY ONLY <1>1, <1>2, <3>1, <3>2, <3>3, <3>4, <4>1, <4>2 DEF ThreeDots
    <3>5. CASE ~ (p + 3 <= m)
      <4>1. p + 2 = m /\ p + 3 = m + 1 /\ m > 0 BY <1>1, <1>6, <2>1, <3>5
      <4>2. p + 3 <= m + n => n > 0 BY <1>1, <4>1
      <4>3. z[p + 2] = "." /\ p + 3 <= m + n => z[p + 3] # "." BY ONLY <1>5, <4>1, <4>2
      <4> QED BY ONLY <1>1, <1>2, <3>1, <3>2, <3>3, <3>5, <4>3 DEF ThreeDots
    <3> QED BY <3>4, <3>5
  <2>2. CASE p >= 1 /\ ~ (p + 2 <= m)
    <3>1. ~ (p \in 1..(m - 2)) BY <1>1, <1>6, <2>2
    <3>2. ~ ThreeDots(a, p) BY ONLY <1>1, <3>1 DEF ThreeDots
    <3>3. ASSUME ThreeDots(z, p) PROVE FALSE
      <4>1. p \in 1..(m + n - 2) /\ z[p] = "." /\ z[p + 1] = "." /\ z[p + 2] = "."
        BY ONLY <1>2, <3>3 DEF ThreeDots
      <4>2. (m = p \/ m = p + 1) /\ m > 0 /\ n > 0 /\ (p + 1) + 1 = p + 2
        BY ONLY <1>1, <1>6, <2>2, <4>1
      <4>3. z[m] = "." /\ z[m + 1] = "." BY ONLY <4>1, <4>2
      <4> QED BY ONLY <1>5, <4>2, <4>3
    <3> QED BY <3>2, <3>3
  <2>3. CASE p < 1
    <3>1. ~ (p \in 1..(m - 2)) /\ ~ (p \in 1..(m + n - 2)) BY <1>1, <1>6, <2>3
    <3> QED BY ONLY <1>1, <1>2, <3>1 DEF ThreeDots
  <2> QED BY <1>6, <2>1, <2>2, <2>3
<1>7. ASSUME NEW q \in Int, q >= 1 PROVE ThreeDots(z, m + q) <=> ThreeDots(b, q)
  <2>1. CASE q + 2 <= n
    <3>1. /\ q \in 1..n /\ q + 1 \in 1..n /\ q + 2 \in 1..n /\ q \in 1..(n - 2)
          /\ m + q \in 1..(m + n - 2)
          /\ (m + q) + 1 = m + (q + 1) /\ (m + q) + 2 = m + (q + 2)
          /\ (m + q) + 3 = m + (q + 3) /\ ((m + q) + 3 <= m + n <=> q + 3 <= n)
      BY <1>1, <1>7, <2>1
    <3>2. z[m + q] = b[q] /\ z[(m + q) + 1] = b[q + 1] /\ z[(m + q) + 2] = b[q + 2]
      BY ONLY <1>2, <3>1
    <3>3. q + 3 <= n => z[(m + q) + 3] = b[q + 3]
      <4>1. q + 3 <= n => q + 3 \in 1..n BY <1>1, <1>7
      <4> QED BY ONLY <1>2, <3>1, <4>1
    <3>4. CASE q > 1
      <4>1. q - 1 \in 1..n /\ (m + q) - 1 = m + (q - 1) /\ m + q > 1 BY <1>1, <1>7, <2>1, <3>4
      <4>2. z[(m + q) - 1] = b[q - 1] BY ONLY <1>2, <4>1
      <4> QED BY ONLY SMTT(40), <1>1, <1>2, <3>1, <3>2, <3>3, <3>4, <4>1, <4>2 DEF ThreeDots
    <3>5. CASE ~ (q > 1)
      <4>1. q = 1 /\ (m + q) - 1 = m /\ n > 0 /\ (m + q > 1 => m > 0) BY <1>1, <1>7, <2>1, <3>5
      <4>2. z[m + q] = "." /\ m + q > 1 => z[(m + q) - 1] # "." BY ONLY <1>5, <4>1
      <4> QED BY ONLY <1>1, <1>2, <3>1, <3>2, <3>3, <3>5, <4>2 DEF ThreeDots
    <3> QED BY <3>4, <3>5
  <2>2. CASE ~ (q + 2 <= n)
    <3>1. ~ (q \in 1..(n - 2)) /\ ~ (m + q \in 1..(m + n - 2)) BY <1>1, <1>7, <2>2
    <3> QED BY ONLY <1>1, <1>2, <3>1 DEF ThreeDots
  <2> QED BY <1>7, <2>1, <2>2
<1>8. ASSUME NEW i \in 1..m PROVE Goes(z, i) <=> Goes(a, i)
  <2>1. i - 1 \in Int /\ i - 1 <= m /\ i - 2 \in Int /\ i - 2 <= m BY <1>1
  <2>2. (ThreeDots(z, i - 1) <=> ThreeDots(a, i - 1)) /\ (ThreeDots(z, i - 2) <=> ThreeDots(a, i - 2))
    BY <1>6, <2>1
  <2>3. i > 1 => i - 1 \in 1..m BY <1>1
  <2>4. z[i] = a[i] /\ (i > 1 => z[i - 1] = a[i - 1]) BY ONLY <1>2, <2>3, i \in 1..m
  <2> QED BY ONLY <2>2, <2>4 DEF Goes
<1>9. ASSUME NEW j \in 1..n PROVE Goes(z, m + j) <=> Goes(b, j)
  <2>1. CASE j = 1
    <3>1. ~ Goes(b, j) BY ONLY <2>1 DEF Goes
    <3>2. ASSUME Goes(z, m + j) PROVE FALSE
      <4>1. /\ m + j = m + 1 /\ m + 1 > 1 /\ (m + 1) - 1 = m /\ m > 0 /\ n > 0
        BY <1>1, <2>1, <3>2 DEF Goes
      <4>2. z[m + 1] \in Punctuation /\ z[m] = z[m + 1] BY ONLY <3>2, <4>1 DEF Goes
      <4> QED BY ONLY <1>4, <4>1, <4>2
    <3> QED BY <3>1, <3>2
  <2>2. CASE j # 1
    <3>1. /\ j - 1 \in 1..n /\ j > 1 /\ m + j > 1 /\ (m + j) - 1 = m + (j - 1)
          /\ (m + j) - 2 = m + (j - 2) /\ j - 1 \in Int /\ j - 1 >= 1 /\ j - 2 \in Int
      BY <1>1, <2>2
    <3>2. ThreeDots(z, (m + j) - 1) <=> ThreeDots(b, j - 1) BY <1>7, <3>1
    <3>3. z[m + j] = b[j] /\ z[(m + j) - 1] = b[j - 1] BY ONLY <1>2, <3>1, j \in 1..n
    <3>4. CASE j - 2 >= 1
      <4>1. ThreeDots(z, (m + j) - 2) <=> ThreeDots(b, j - 2) BY <1>7, <3>1, <3>4
      <4> QED BY ONLY <3>1, <3>2, <3>3, <4>1 DEF Goes
    <3>5. CASE ~ (j - 2 >= 1)
      <4>1. j = 2 /\ (m + j) - 2 = m /\ ~ (j - 2 \in 1..(Len(b) - 2)) BY <1>1, <3>1, <3>5
      <4>2. ~ ThreeDots(b, j - 2) BY ONLY <4>1 DEF ThreeDots
      <4>3. ~ ThreeDots(z, m)
        <5>1. SUFFICES ASSUME ThreeDots(z, m) PROVE FALSE OBVIOUS
        <5>2. m \in 1..(Len(z) - 2) /\ z[m] = "." /\ z[m + 1] = "." BY ONLY <5>1 DEF ThreeDots
        <5>3. m > 0 /\ n > 0 BY <1>1, <5>2
        <5> QED BY ONLY <1>5, <5>2, <5>3
      <4> QED BY ONLY <3>1, <3>2, <3>3, <4>1, <4>2, <4>3 DEF Goes
    <3> QED BY <3>4, <3>5
  <2> QED BY <2>1, <2>2
<1> QED BY ONLY <1>1, <1>2, <1>8, <1>9


LEMMA ConcatAppend ==
    ASSUME NEW Y, NEW u \in Seq(Y), NEW v \in Seq(Y), NEW c \in Y
    PROVE  u \o Append(v, c) = Append(u \o v, c)
<1>1. PICK x \in Seq(Y) : x = <<c>>
  <2>1. <<c>> \in Seq(Y) OBVIOUS
  <2> QED BY ONLY <2>1
<1>2. Append(v, c) = v \o x /\ u \o v \in Seq(Y) BY <1>1, AppendIsConcat, ConcatProperties
<1>3. Append(u \o v, c) = (u \o v) \o x BY <1>1, <1>2, AppendIsConcat
<1>4. (u \o v) \o x = u \o (v \o x) BY ONLY ConcatAssociative
<1> QED BY ONLY <1>2, <1>3, <1>4

LEMMA SqueezedConcat ==
    ASSUME NEW Y, NEW a \in Seq(Y), NEW b \in Seq(Y), NoRunAcross(a, b)
    PROVE  Squeezed(a \o b) = Squeezed(a) \o Squeezed(b)
<1>0. \A u, v \in Seq(Y), c \in Y : u \o Append(v, c) = Append(u \o v, c) BY ConcatAppend
<1>1. PICK m \in Nat, n \in Nat : m = Len(a) /\ n = Len(b) OBVIOUS
<1>2. PICK z \in Seq(Y) : /\ z = a \o b /\ Len(z) = m + n
                          /\ \A i \in 1..m : z[i] = a[i]
                          /\ \A i \in 1..n : z[m + i] = b[i]
  <2>1. /\ a \o b \in Seq(Y) /\ Len(a \o b) = Len(a) + Len(b)
        /\ \A i \in 1..Len(a) : (a \o b)[i] = a[i]
        /\ \A i \in 1..Len(b) : (a \o b)[Len(a) + i] = b[i]
    BY ConcatFacts
  <2> QED BY ONLY <1>1, <2>1
<1>3. /\ \A i \in 1..m : Goes(z, i) <=> Goes(a, i)
      /\ \A i \in 1..n : Goes(z, m + i) <=> Goes(b, i)
  <2>1. /\ \A i \in 1..Len(a) : Goes(a \o b, i) <=> Goes(a, i)
        /\ \A i \in 1..Len(b) : Goes(a \o b, Len(a) + i) <=> Goes(b, i)
    BY GoesApart
  <2> QED BY ONLY <1>1, <1>2, <2>1
<1>4. PICK f \in [0..m -> Seq(Y)] : Squeezes(f, a) /\ Squeezed(a) = f[m] BY <1>1, SqueezedIs
<1>5. PICK g \in [0..n -> Seq(Y)] : Squeezes(g, b) /\ Squeezed(b) = g[n] BY <1>1, SqueezedIs
<1>6. /\ f[0] = <<>> /\ \A k \in 1..m : f[k] = SqueezeOne(a, k, f[k - 1])
      /\ g[0] = <<>> /\ \A k \in 1..n : g[k] = SqueezeOne(b, k, g[k - 1])
  BY ONLY <1>1, <1>4, <1>5 DEF Squeezes
<1>7. PICK h : h = [k \in 0..(m + n) |-> IF k <= m THEN f[k] ELSE f[m] \o g[k - m]] OBVIOUS
<1>8. /\ \A k \in 0..m : h[k] = f[k]
      /\ \A k \in 1..n : h[m + k] = f[m] \o g[k]
  <2>1. \A k \in 0..m : k \in 0..(m + n) /\ k <= m BY <1>1
  <2>2. \A k \in 1..n : m + k \in 0..(m + n) /\ ~ (m + k <= m) /\ (m + k) - m = k BY <1>1
  <2> QED BY ONLY <1>7, <2>1, <2>2
<1>9. f[m] \in Seq(Y) /\ \A k \in 0..n : g[k] \in Seq(Y)
  <2>1. m \in 0..m BY <1>1
  <2> QED BY ONLY <2>1, f \in [0..m -> Seq(Y)], g \in [0..n -> Seq(Y)]
<1>10. h[m] = f[m] \o g[0]
  <2>1. m \in 0..m BY <1>1
  <2>2. f[m] \o <<>> = f[m] BY <1>9
  <2> QED BY ONLY <1>6, <1>8, <2>1, <2>2
<1>11. \A k \in 0..n : h[m + k] = f[m] \o g[k]
  <2>1. \A k \in 0..n : k = 0 \/ k \in 1..n BY <1>1
  <2>2. m + 0 = m BY <1>1
  <2> QED BY ONLY <1>8, <1>10, <2>1, <2>2
<1>12. Squeezes(h, z)
  <2>1. h[0] = <<>>
    <3>1. 0 \in 0..m BY <1>1
    <3> QED BY ONLY <1>6, <1>8, <3>1
  <2>2. ASSUME NEW k \in 1..m PROVE h[k] = SqueezeOne(z, k, h[k - 1])
    <3>1. k \in 0..m /\ k - 1 \in 0..m BY <1>1
    <3>2. SqueezeOne(z, k, f[k - 1]) = SqueezeOne(a, k, f[k - 1])
      BY ONLY <1>2, <1>3, k \in 1..m DEF SqueezeOne
    <3> QED BY ONLY <1>6, <1>8, <3>1, <3>2, k \in 1..m
  <2>3. ASSUME NEW k \in 1..n PROVE h[m + k] = SqueezeOne(z, m + k, h[(m + k) - 1])
    <3>1. k \in 0..n /\ k - 1 \in 0..n /\ (m + k) - 1 = m + (k - 1) BY <1>1
    <3>2. h[m + k] = f[m] \o g[k] /\ h[(m + k) - 1] = f[m] \o g[k - 1] BY ONLY <1>11, <3>1
    <3>3. g[k] = SqueezeOne(b, k, g[k - 1]) BY ONLY <1>6, k \in 1..n
    <3>4. (Goes(z, m + k) <=> Goes(b, k)) /\ z[m + k] = b[k] BY ONLY <1>2, <1>3, k \in 1..n
    <3>5. f[m] \o Append(g[k - 1], b[k]) = Append(f[m] \o g[k - 1], b[k])
      <4>1. f[m] \in Seq(Y) /\ g[k - 1] \in Seq(Y) /\ b[k] \in Y BY <1>1, <1>9, <3>1
      <4> QED BY ONLY <1>0, <4>1
    <3> QED BY ONLY <3>2, <3>3, <3>4, <3>5 DEF SqueezeOne
  <2>4. \A k \in 1..(m + n) : k \in 1..m \/ (k - m \in 1..n /\ m + (k - m) = k) BY <1>1
  <2>5. \A k \in 1..Len(z) : h[k] = SqueezeOne(z, k, h[k - 1])
    <3>1. TAKE k \in 1..Len(z)
    <3>2. CASE k \in 1..m BY <2>2, <3>2
    <3>3. CASE k - m \in 1..n /\ m + (k - m) = k BY ONLY <2>3, <3>3
    <3> QED BY ONLY <1>2, <2>4, <3>2, <3>3, k \in 1..Len(z)
  <2> QED BY ONLY <2>1, <2>5 DEF Squeezes
<1>13. Squeezed(z) = h[m + n] BY <1>2, <1>12, SqueezedIs
<1>14. n \in 0..n BY <1>1
<1> QED BY ONLY <1>2, <1>4, <1>5, <1>11, <1>13, <1>14

(* A word of one character, of one mark. *)
LEMMA SqueezedTimes ==
    ASSUME NEW Y, NEW c \in Y, NEW k \in Nat \ {0}, c \in Punctuation \/ k = 1
    PROVE  Squeezed(Times(c, k)) = Mark(c, k)
<1>1. PICK w \in Seq(Y) : w = Times(c, k) /\ Len(w) = k /\ \A i \in 1..k : w[i] = c
  <2>1. k \in Nat OBVIOUS
  <2>2. Times(c, k) \in Seq(Y) /\ Len(Times(c, k)) = k /\ \A i \in 1..k : Times(c, k)[i] = c
    BY ONLY <2>1, c \in Y, TimesIs
  <2> QED BY ONLY <2>2
<1>2. k \in Nat /\ k >= 1 OBVIOUS
<1>3. ~ Goes(w, 1) BY DEF Goes
<1>4. CASE ~ (c = "." /\ k = 3)
  <2>1. ASSUME NEW p \in Int PROVE ~ ThreeDots(w, p)
    <3>1. SUFFICES ASSUME ThreeDots(w, p) PROVE FALSE OBVIOUS
    <3>2. /\ p \in 1..(k - 2) /\ w[p] = "." /\ (p > 1 => w[p - 1] # ".")
          /\ p + 3 <= k => w[p + 3] # "."
      BY ONLY <1>1, <3>1 DEF ThreeDots
    <3>3. p \in 1..k /\ (p > 1 => p - 1 \in 1..k) /\ (p + 3 <= k => p + 3 \in 1..k) BY <1>2, <3>2
    <3>4. c = "." BY ONLY <1>1, <3>2, <3>3
    <3>5. ~ (p > 1) /\ ~ (p + 3 <= k) BY ONLY <1>1, <3>2, <3>3, <3>4
    <3>6. k = 3 BY ONLY <1>2, <3>2, <3>5
    <3> QED BY <1>4, <3>4, <3>6
  <2>2. ASSUME NEW i \in 2..k PROVE Goes(w, i)
    <3>1. i > 1 /\ i \in 1..k /\ i - 1 \in 1..k /\ i - 1 \in Int /\ i - 2 \in Int /\ k # 1 BY <1>2
    <3>2. w[i] = c /\ w[i - 1] = c BY ONLY <1>1, <3>1
    <3>3. ~ ThreeDots(w, i - 1) /\ ~ ThreeDots(w, i - 2) BY <2>1, <3>1
    <3>4. c \in Punctuation BY ONLY <3>1, c \in Punctuation \/ k = 1
    <3> QED BY ONLY <3>1, <3>2, <3>3, <3>4 DEF Goes
  <2>3. PICK f : f = [i \in 0..k |-> IF i = 0 THEN <<>> ELSE <<c>>] OBVIOUS
  <2>4. f[0] = <<>> /\ \A i \in 1..k : f[i] = <<c>> BY <1>2, <2>3
  <2>5. Squeezes(f, w)
    <3>1. ASSUME NEW i \in 1..k PROVE f[i] = SqueezeOne(w, i, f[i - 1])
      <4>1. CASE i = 1
        <5>1. i - 1 = 0 BY <4>1
        <5>2. Append(<<>>, c) = <<c>> OBVIOUS
        <5>3. w[i] = c BY ONLY <1>1, i \in 1..k
        <5>4. f[i] = <<c>> BY ONLY <2>4, i \in 1..k
        <5> QED BY ONLY <1>3, <2>4, <4>1, <5>1, <5>2, <5>3, <5>4 DEF SqueezeOne
      <4>2. CASE i # 1
        <5>1. i \in 2..k /\ i - 1 \in 1..k BY <4>2
        <5>2. Goes(w, i) BY <2>2, <5>1
        <5>3. f[i] = <<c>> /\ f[i - 1] = <<c>> BY ONLY <2>4, <5>1, i \in 1..k
        <5> QED BY ONLY <5>2, <5>3 DEF SqueezeOne
      <4> QED BY <4>1, <4>2
    <3> QED BY ONLY <1>1, <2>4, <3>1 DEF Squeezes
  <2>6. Squeezed(w) = f[k] BY <1>1, <2>5, SqueezedIs
  <2>7. k \in 1..k BY <1>2
  <2> QED BY ONLY <1>1, <1>4, <2>4, <2>6, <2>7 DEF Mark
<1>5. CASE c = "." /\ k = 3
  <2>1. w[1] = c /\ w[2] = c /\ w[3] = c
    <3>1. 1 \in 1..k /\ 2 \in 1..k /\ 3 \in 1..k BY <1>5
    <3> QED BY ONLY <1>1, <3>1
  <2>2. ThreeDots(w, 1)
    <3>1. 1 \in 1..(k - 2) /\ 1 + 1 = 2 /\ 1 + 2 = 3 /\ ~ (1 > 1) /\ ~ (1 + 3 <= k) BY <1>5
    <3> QED BY ONLY <1>1, <1>5, <2>1, <3>1 DEF ThreeDots
  <2>3. ~ Goes(w, 2) /\ ~ Goes(w, 3)
    <3>1. 2 - 1 = 1 /\ 3 - 2 = 1 OBVIOUS
    <3> QED BY ONLY <2>2, <3>1 DEF Goes
  <2>4. PICK f : f = [i \in 0..3 |-> IF i = 0 THEN <<>> ELSE IF i = 1 THEN <<c>>
                                     ELSE IF i = 2 THEN <<c, c>> ELSE <<c, c, c>>] OBVIOUS
  <2>5. f[0] = <<>> /\ f[1] = <<c>> /\ f[2] = <<c, c>> /\ f[3] = <<c, c, c>> BY <2>4
  <2>6. Append(<<>>, c) = <<c>> /\ Append(<<c>>, c) = <<c, c>> /\ Append(<<c, c>>, c) = <<c, c, c>>
    <3>1. Append(<<>>, c) = <<c>> OBVIOUS
    <3>2. Append(<<c>>, c) = <<c, c>>
      <4>1. Append(<<c>>, c) \in Seq(Y) /\ <<c, c>> \in Seq(Y) OBVIOUS
      <4>2. Len(Append(<<c>>, c)) = 2 /\ Len(<<c, c>>) = 2 OBVIOUS
      <4>3. \A i \in 1..2 : Append(<<c>>, c)[i] = <<c, c>>[i] OBVIOUS
      <4> QED BY ONLY <4>1, <4>2, <4>3, SeqEqual
    <3>3. Append(<<c, c>>, c) = <<c, c, c>>
      <4>1. Append(<<c, c>>, c) \in Seq(Y) /\ <<c, c, c>> \in Seq(Y) OBVIOUS
      <4>2. Len(Append(<<c, c>>, c)) = 3 /\ Len(<<c, c, c>>) = 3 OBVIOUS
      <4>3. \A i \in 1..3 : Append(<<c, c>>, c)[i] = <<c, c, c>>[i] OBVIOUS
      <4> QED BY ONLY <4>1, <4>2, <4>3, SeqEqual
    <3> QED BY ONLY <3>1, <3>2, <3>3
  <2>7. Squeezes(f, w)
    <3>1. f[1] = SqueezeOne(w, 1, f[0]) /\ f[2] = SqueezeOne(w, 2, f[1])
          /\ f[3] = SqueezeOne(w, 3, f[2])
      BY ONLY <1>3, <2>1, <2>3, <2>5, <2>6 DEF SqueezeOne
    <3>2. 1 - 1 = 0 /\ 2 - 1 = 1 /\ 3 - 1 = 2 OBVIOUS
    <3>3. \A i \in 1..k : i = 1 \/ i = 2 \/ i = 3 BY <1>5
    <3>4. \A i \in 1..k : f[i] = SqueezeOne(w, i, f[i - 1]) BY ONLY <3>1, <3>2, <3>3
    <3> QED BY ONLY <1>1, <2>5, <3>4 DEF Squeezes
  <2>8. Squeezed(w) = f[3] BY <1>1, <1>5, <2>7, SqueezedIs
  <2> QED BY ONLY <1>1, <1>5, <2>5, <2>8 DEF Mark
<1> QED BY <1>4, <1>5

LEMMA MarkTimes ==
    ASSUME NEW Y, NEW c \in Y, NEW k
    PROVE  \E j \in Nat \ {0} : Mark(c, k) = Times(c, j) /\ Mark(c, j) = Mark(c, k)
<1>1. Times(c, 1) = <<c>>
  <2>1. Times(c, 1) \in Seq(Y) /\ Len(Times(c, 1)) = 1 /\ \A i \in 1..1 : Times(c, 1)[i] = c
    BY 1 \in Nat, TimesIs
  <2>2. <<c>> \in Seq(Y) /\ Len(<<c>>) = 1 /\ \A i \in 1..1 : <<c>>[i] = c OBVIOUS
  <2> QED BY ONLY <2>1, <2>2, SeqEqual
<1>2. Times(c, 3) = <<c, c, c>>
  <2>1. Times(c, 3) \in Seq(Y) /\ Len(Times(c, 3)) = 3 /\ \A i \in 1..3 : Times(c, 3)[i] = c
    BY 3 \in Nat, TimesIs
  <2>2. <<c, c, c>> \in Seq(Y) /\ Len(<<c, c, c>>) = 3 /\ \A i \in 1..3 : <<c, c, c>>[i] = c
    OBVIOUS
  <2> QED BY ONLY <2>1, <2>2, SeqEqual
<1>3. 1 \in Nat \ {0} /\ 3 \in Nat \ {0} /\ 1 # 3 OBVIOUS
<1>4. CASE c = "." /\ k = 3
  <2>1. Mark(c, k) = Times(c, 3) /\ Mark(c, 3) = Mark(c, k) BY ONLY <1>2, <1>4 DEF Mark
  <2> QED BY ONLY <1>3, <2>1
<1>5. CASE ~ (c = "." /\ k = 3)
  <2>1. Mark(c, k) = Times(c, 1) /\ Mark(c, 1) = Mark(c, k) BY ONLY <1>1, <1>3, <1>5 DEF Mark
  <2> QED BY ONLY <1>3, <2>1
<1> QED BY <1>4, <1>5

(* The reference squeezes the way the code does. *)
LEMMA SqueezedAgrees ==
    ASSUME NEW Y, NEW s \in Seq(Y)
    PROVE  Squeezed(s) = collapse_punctuation(s)
<1> DEFINE P == {e \in Seq(Y) : Squeezed(e) = collapse_punctuation(e)}
<1>1. <<>> \in P
  <2>1. <<>> \in Seq(Y) /\ Len(<<>>) = 0 OBVIOUS
  <2>2. PICK f : Squeezes(f, <<>>) BY <2>1, SqueezedIs
  <2>3. Squeezed(<<>>) = f[0] BY <2>1, <2>2, SqueezedIs
  <2>4. f[0] = <<>> BY ONLY <2>2 DEF Squeezes
  <2>5. collapse_punctuation(<<>>) = <<>>
    <3>1. <<>> \in Seq(Nat) /\ 0 \in Nat OBVIOUS
    <3> QED BY ONLY <3>1, PunctuationCons
  <2> QED BY ONLY <2>1, <2>3, <2>4, <2>5
<1>2. \A a, b \in Seq(Y) : NoRunAcross(a, b) => Squeezed(a \o b) = Squeezed(a) \o Squeezed(b)
  BY SqueezedConcat
<1>3. \A c \in Y, k \in Nat \ {0} :
         /\ Times(c, k) \in Seq(Y) /\ Len(Times(c, k)) = k
         /\ \A i \in 1..k : Times(c, k)[i] = c
  <2>1. \A k \in Nat \ {0} : k \in Nat OBVIOUS
  <2> QED BY ONLY <2>1, TimesIs
<1>4. \A c \in Y : <<c>> = Times(c, 1) /\ Squeezed(Times(c, 1)) = <<c>>
  <2>1. TAKE c \in Y
  <2>2. 1 \in Nat \ {0} /\ 1 # 3 OBVIOUS
  <2>3. /\ Times(c, 1) \in Seq(Y) /\ Len(Times(c, 1)) = 1 /\ \A i \in 1..1 : Times(c, 1)[i] = c
    BY ONLY <1>3, <2>2, c \in Y
  <2>4. <<c>> \in Seq(Y) /\ Len(<<c>>) = 1 /\ \A i \in 1..1 : <<c>>[i] = c OBVIOUS
  <2>5. <<c>> = Times(c, 1) BY ONLY <2>3, <2>4, SeqEqual
  <2>6. Squeezed(Times(c, 1)) = Mark(c, 1) BY <2>2, SqueezedTimes
  <2> QED BY ONLY <2>2, <2>5, <2>6 DEF Mark
<1>5. ASSUME NEW v \in Seq(Y), NEW c \in Y, v \in P, c \notin Punctuation PROVE <<c>> \o v \in P
  <2>1. <<c>> \in Seq(Y) /\ Len(<<c>>) = 1 /\ <<c>>[1] = c /\ <<c>> \o v \in Seq(Y) OBVIOUS
  <2>2. NoRunAcross(<<c>>, v) BY ONLY <1>5, <2>1 DEF NoRunAcross
  <2>3. Squeezed(<<c>> \o v) = <<c>> \o Squeezed(v) BY ONLY ZenonT(60), <1>2, <1>4, <2>1, <2>2, v \in Seq(Y), c \in Y
  <2>4. collapse_punctuation(<<c>> \o v) = <<c>> \o collapse_punctuation(v)
    BY <1>5, PunctuationCons
  <2> QED BY ONLY <1>5, <2>1, <2>3, <2>4
<1>6. ASSUME NEW v \in Seq(Y), NEW c \in Y, NEW k \in Nat \ {0}, v \in P, c \in Punctuation,
             v # <<>> => v[1] # c
      PROVE  Times(c, k) \o v \in P
  <2>1. /\ Times(c, k) \in Seq(Y) /\ Len(Times(c, k)) = k /\ Times(c, k)[k] = c
    <3>1. k \in 1..k OBVIOUS
    <3> QED BY ONLY <1>3, <3>1, c \in Y, k \in Nat \ {0}
  <2>2. NoRunAcross(Times(c, k), v) BY ONLY <1>6, <2>1 DEF NoRunAcross
  <2>3. Squeezed(Times(c, k)) = Mark(c, k) BY <1>6, SqueezedTimes
  <2>4. Squeezed(Times(c, k) \o v) = Mark(c, k) \o Squeezed(v)
    BY ONLY <1>2, <2>1, <2>2, <2>3, v \in Seq(Y)
  <2>5. collapse_punctuation(Times(c, k) \o v) = Mark(c, k) \o collapse_punctuation(v)
    BY <1>6, PunctuationCons
  <2>6. Times(c, k) \o v \in Seq(Y) BY <2>1, ConcatProperties
  <2> QED BY ONLY <1>6, <2>4, <2>5, <2>6
<1>7. Seq(Y) \subseteq P
  <2> HIDE DEF P
  <2> QED BY ONLY <1>1, <1>5, <1>6, RunInduction
<1> QED BY <1>7

LEMMA PunctuationConcat ==
    ASSUME NEW Y, NEW a \in Seq(Y), NEW b \in Seq(Y), NoRunAcross(a, b)
    PROVE  collapse_punctuation(a \o b) = collapse_punctuation(a) \o collapse_punctuation(b)
<1>1. PICK ab \in Seq(Y) : ab = a \o b BY ConcatProperties
<1>2. /\ collapse_punctuation(a) = Squeezed(a) /\ collapse_punctuation(b) = Squeezed(b)
      /\ collapse_punctuation(ab) = Squeezed(ab)
  BY ONLY SqueezedAgrees, a \in Seq(Y), b \in Seq(Y), ab \in Seq(Y)
<1>3. Squeezed(a \o b) = Squeezed(a) \o Squeezed(b)
  BY ONLY SqueezedConcat, a \in Seq(Y), b \in Seq(Y), NoRunAcross(a, b)
<1> QED BY ONLY <1>1, <1>2, <1>3

(* Nothing is left to collapse. *)
LEMMA PunctuationTwice ==
    ASSUME NEW Y, NEW s \in Seq(Y)
    PROVE  collapse_punctuation(collapse_punctuation(s)) = collapse_punctuation(s)
<1> DEFINE P == {e \in Seq(Y) :
                    collapse_punctuation(collapse_punctuation(e)) = collapse_punctuation(e)}
<1>1. <<>> \in P
  <2>1. collapse_punctuation(<<>>) = <<>>
    <3>1. <<>> \in Seq(Nat) /\ 0 \in Nat OBVIOUS
    <3> QED BY ONLY <3>1, PunctuationCons
  <2> QED BY ONLY <2>1, EmptySeq
<1>2. ASSUME NEW v \in Seq(Y), NEW c \in Y, v \in P, c \notin Punctuation PROVE <<c>> \o v \in P
  <2>1. PICK u \in Seq(Y) : u = collapse_punctuation(v) BY PunctuationCons
  <2>2. collapse_punctuation(<<c>> \o v) = <<c>> \o u BY <1>2, <2>1, PunctuationCons
  <2>3. collapse_punctuation(<<c>> \o u) = <<c>> \o collapse_punctuation(u)
    BY <1>2, PunctuationCons
  <2>4. <<c>> \o v \in Seq(Y)
    <3>1. <<c>> \in Seq(Y) OBVIOUS
    <3> QED BY <3>1, ConcatProperties
  <2> QED BY ONLY <1>2, <2>1, <2>2, <2>3, <2>4
<1>3. ASSUME NEW v \in Seq(Y), NEW c \in Y, NEW k \in Nat \ {0}, v \in P, c \in Punctuation,
             v # <<>> => v[1] # c
      PROVE  Times(c, k) \o v \in P
  <2>1. PICK u \in Seq(Y) : u = collapse_punctuation(v) BY PunctuationCons
  <2>2. u # <<>> => u[1] # c BY ONLY <1>3, <2>1, v \in Seq(Y), PunctuationFirst
  <2>3. collapse_punctuation(Times(c, k) \o v) = Mark(c, k) \o u BY ZenonT(60), <1>3, <2>1, PunctuationCons
  <2>4. PICK j \in Nat \ {0} : Mark(c, k) = Times(c, j) /\ Mark(c, j) = Mark(c, k) BY MarkTimes
  <2>5. collapse_punctuation(Times(c, j) \o u) = Mark(c, j) \o collapse_punctuation(u)
    BY ZenonT(60), <1>3, <2>2, PunctuationCons
  <2>6. Times(c, k) \o v \in Seq(Y)
    <3>1. k \in Nat OBVIOUS
    <3>2. Times(c, k) \in Seq(Y) BY ONLY <3>1, c \in Y, TimesIs
    <3> QED BY <3>2, ConcatProperties
  <2> QED BY ONLY <1>3, <2>1, <2>3, <2>4, <2>5, <2>6
<1>4. Seq(Y) \subseteq P
  <2> HIDE DEF P
  <2> QED BY ONLY <1>1, <1>2, <1>3, RunInduction
<1> QED BY <1>4

-----------------------------------------------------------------------------
(* The tokens of a text whose punctuation is collapsed.                      *)

Squashed(t) == [i \in 1..Len(t) |-> collapse_punctuation(t[i])]

LEMMA SquashedIs ==
    ASSUME NEW X, NEW t \in Seq(Seq(X))
    PROVE  /\ Squashed(t) \in Seq(Seq(X)) /\ Len(Squashed(t)) = Len(t)
           /\ \A i \in 1..Len(t) : Squashed(t)[i] = collapse_punctuation(t[i])
<1>1. \A x \in Seq(X) : collapse_punctuation(x) \in Seq(X)
  <2>1. TAKE x \in Seq(X)
  <2>2. CASE x = <<>>
    <3>1. <<>> \in Seq(Nat) /\ 0 \in Nat OBVIOUS
    <3>2. collapse_punctuation(<<>>) = <<>> BY ONLY <3>1, PunctuationCons
    <3> QED BY ONLY <2>2, <3>2, EmptySeq
  <2>3. CASE x # <<>>
    <3>1. PICK c \in X : c = x[1] BY <2>3, SequenceEmptyOrCons
    <3> QED BY PunctuationCons
  <2> QED BY <2>2, <2>3
<1>2. PICK n \in Nat : n = Len(t) /\ \A i \in 1..n : t[i] \in Seq(X) OBVIOUS
<1>3. Squashed(t) \in [1..n -> Seq(X)] BY ONLY <1>1, <1>2 DEF Squashed
<1>4. [1..n -> Seq(X)] \subseteq Seq(Seq(X)) OBVIOUS
<1>5. \A i \in 1..n : Squashed(t)[i] = collapse_punctuation(t[i]) BY ONLY <1>2 DEF Squashed
<1>6. Len(Squashed(t)) = n BY <1>2 DEF Squashed
<1> QED BY ONLY <1>2, <1>3, <1>4, <1>5, <1>6

LEMMA SquashedSnoc ==
    ASSUME NEW X, NEW t \in Seq(Seq(X)), NEW w \in Seq(X)
    PROVE  /\ Squashed(<<>>) = <<>> /\ collapse_punctuation(w) \in Seq(X)
           /\ Squashed(Append(t, w)) = Append(Squashed(t), collapse_punctuation(w))
<1>1. Squashed(<<>>) = <<>>
  <2>1. <<>> \in Seq(Seq(X)) /\ Len(<<>>) = 0 OBVIOUS
  <2>2. Squashed(<<>>) \in Seq(Seq(X)) /\ Len(Squashed(<<>>)) = 0 BY <2>1, SquashedIs
  <2> QED BY <2>2, EmptySeq
<1>2. PICK n \in Nat : n = Len(t) OBVIOUS
<1>3. PICK a \in Seq(Seq(X)) : a = Append(t, w) /\ Len(a) = n + 1 /\ a[n + 1] = w
                               /\ \A i \in 1..n : a[i] = t[i]
  <2>1. PICK Z : Z = Seq(X) OBVIOUS
  <2>2. t \in Seq(Z) /\ w \in Z BY ONLY <2>1
  <2>3. /\ Append(t, w) \in Seq(Z) /\ Len(Append(t, w)) = n + 1 /\ Append(t, w)[n + 1] = w
        /\ \A i \in 1..n : Append(t, w)[i] = t[i]
    BY ONLY <1>2, <2>2, AppendProperties
  <2> QED BY ONLY <2>1, <2>3
<1>4. PICK q \in Seq(Seq(X)) : q = Squashed(t) /\ Len(q) = n
                               /\ \A i \in 1..n : q[i] = collapse_punctuation(t[i])
  BY ONLY <1>2, SquashedIs, t \in Seq(Seq(X))
<1>5. PICK p \in Seq(Seq(X)) : p = Squashed(a) /\ Len(p) = n + 1
                               /\ \A i \in 1..(n + 1) : p[i] = collapse_punctuation(a[i])
  <2>1. /\ Squashed(a) \in Seq(Seq(X)) /\ Len(Squashed(a)) = Len(a)
        /\ \A i \in 1..Len(a) : Squashed(a)[i] = collapse_punctuation(a[i])
    BY ONLY SquashedIs, a \in Seq(Seq(X))
  <2> QED BY ONLY <1>3, <2>1
<1>6. n + 1 \in 1..(n + 1) /\ \A i \in 1..n : i \in 1..(n + 1) BY <1>2
<1>7. p[n + 1] = collapse_punctuation(w) BY ONLY <1>3, <1>5, <1>6
<1>8. PICK e \in Seq(X) : e = collapse_punctuation(w)
  <2>1. p[n + 1] \in Seq(X) BY <1>5, <1>6
  <2> QED BY ONLY <1>7, <2>1
<1>9. \A i \in 1..n : p[i] = q[i] BY ONLY <1>3, <1>4, <1>5, <1>6
<1>10. Append(q, e) = p
  <2>1. PICK Z : Z = Seq(X) OBVIOUS
  <2>2. q \in Seq(Z) /\ e \in Z /\ p \in Seq(Z) BY ONLY <2>1
  <2>3. /\ Append(q, e) \in Seq(Z) /\ Len(Append(q, e)) = n + 1 /\ Append(q, e)[n + 1] = e
        /\ \A i \in 1..n : Append(q, e)[i] = q[i]
    BY ONLY SMTT(40), <1>4, <2>2, AppendProperties
  <2>4. \A i \in 1..(n + 1) : i = n + 1 \/ i \in 1..n BY <1>2
  <2>5. \A i \in 1..(n + 1) : Append(q, e)[i] = p[i] BY ONLY <1>7, <1>8, <1>9, <2>3, <2>4
  <2> QED BY ONLY SMTT(40), <1>5, <2>2, <2>3, <2>5, SeqEqual
<1> QED BY ONLY <1>1, <1>3, <1>4, <1>5, <1>8, <1>10

(* Characters that are no blanks make the token read last longer. *)
LEMMA TokenGrows ==
    ASSUME NEW X, Blank \subseteq X, NEW x \in Seq(X), NEW y \in Seq(X \ Blank)
    PROVE  Tokenized(x \o y) = [tokens |-> Tokenized(x).tokens, token |-> Tokenized(x).token \o y]
<1> DEFINE P == {e \in Seq(X \ Blank) :
                    Tokenized(x \o e) = [tokens |-> Tokenized(x).tokens,
                                         token |-> Tokenized(x).token \o e]}
<1>1. PICK st \in TokenStates(X) : st = Tokenized(x) BY TokenizedSnoc
<1>2. st.tokens \in Seq(Seq(X)) /\ st.token \in Seq(X)
      /\ st = [tokens |-> st.tokens, token |-> st.token]
  BY DEF TokenStates
<1>3. <<>> \in P
  <2>1. x \o <<>> = x /\ st.token \o <<>> = st.token BY <1>2
  <2> QED BY ONLY <1>1, <1>2, <2>1, EmptySeq
<1>4. Seq(X \ Blank) \subseteq Seq(X)
  <2>1. X \ Blank \subseteq X OBVIOUS
  <2> QED BY ONLY <2>1, SeqMonotonic
<1>5. ASSUME NEW e \in Seq(X \ Blank), NEW c \in X \ Blank, e \in P PROVE Append(e, c) \in P
  <2>1. PICK d \in Seq(X) : d = e BY <1>4
  <2>2. c \in X /\ c \notin Blank OBVIOUS
  <2>3. x \o Append(d, c) = Append(x \o d, c) /\ st.token \o Append(d, c) = Append(st.token \o d, c)
    <3>1. \A u, v \in Seq(X), k \in X : u \o Append(v, k) = Append(u \o v, k)
      BY ONLY ConcatAppend
    <3> QED BY ONLY <1>2, <2>2, <3>1, x \in Seq(X), d \in Seq(X)
  <2>4. x \o d \in Seq(X) BY ONLY ConcatProperties, x \in Seq(X), d \in Seq(X)
  <2>5. Tokenized(Append(x \o d, c)) = TokenOne(Tokenized(x \o d), c)
    BY ONLY <2>2, <2>4, Blank \subseteq X, TokenizedSnoc
  <2>6. Tokenized(x \o d) = [tokens |-> st.tokens, token |-> st.token \o d]
    BY ONLY <1>1, <1>5, <2>1
  <2>7. TokenOne(Tokenized(x \o d), c) = [tokens |-> st.tokens, token |-> Append(st.token \o d, c)]
    BY ONLY <2>2, <2>6 DEF TokenOne
  <2>8. Append(e, c) \in Seq(X \ Blank) OBVIOUS
  <2> QED BY ONLY <1>1, <2>1, <2>3, <2>5, <2>7, <2>8
<1>6. Seq(X \ Blank) \subseteq P
  <2> HIDE DEF P
  <2>1. PICK Z : Z = X \ Blank OBVIOUS
  <2>2. \A e \in Seq(Z), c \in Z : e \in P => Append(e, c) \in P BY ONLY <1>5, <2>1
  <2>3. Seq(Z) \subseteq P BY ONLY <1>3, <2>2, SnocInduction
  <2> QED BY ONLY <2>1, <2>3
<1> QED BY <1>6

LEMMA PunctuationTyped ==
    ASSUME NEW Y, NEW s \in Seq(Y)
    PROVE  collapse_punctuation(s) \in Seq(Y)
<1>1. CASE s = <<>>
  <2>1. <<>> \in Seq(Nat) /\ 0 \in Nat OBVIOUS
  <2>2. collapse_punctuation(<<>>) = <<>> BY ONLY <2>1, PunctuationCons
  <2> QED BY ONLY <1>1, <2>2, EmptySeq
<1>2. CASE s # <<>>
  <2>1. PICK c \in Y : c = s[1] BY <1>2, SequenceEmptyOrCons
  <2> QED BY PunctuationCons
<1> QED BY <1>1, <1>2

WordsOver(X) == {w \in Seq(X \ Blank) : w # <<>>}

LEMMA WordsAreTexts ==
    ASSUME NEW X
    PROVE  /\ Seq(X \ Blank) \subseteq Seq(X) /\ WordsOver(X) \subseteq Seq(X)
           /\ Seq(WordsOver(X)) \subseteq Seq(Seq(X))
<1>1. PICK Z : Z = X \ Blank /\ Z \subseteq X OBVIOUS
<1>2. Seq(Z) \subseteq Seq(X) BY ONLY <1>1, SeqMonotonic
<1>3. PICK W : W = WordsOver(X) OBVIOUS
<1>4. W \subseteq Seq(X) BY ONLY <1>1, <1>2, <1>3 DEF WordsOver
<1>5. PICK V : V = Seq(X) OBVIOUS
<1>6. Seq(W) \subseteq Seq(V) BY ONLY <1>4, <1>5, SeqMonotonic
<1> QED BY ONLY <1>1, <1>2, <1>3, <1>4, <1>5, <1>6

(* s is u and the token read last; before it there is a blank, or nothing.  *)
Split(X, s, u) ==
    /\ Tokenized(s).token \in Seq(X \ Blank) /\ Tokenized(s).tokens \in Seq(WordsOver(X))
    /\ u \in Seq(X) /\ s = u \o Tokenized(s).token
    /\ u = <<>> \/ u[Len(u)] \in Blank
    /\ Tokenized(u) = [tokens |-> Tokenized(s).tokens, token |-> <<>>]
    /\ Tokenized(collapse_punctuation(u)) =
          [tokens |-> Squashed(Tokenized(s).tokens), token |-> <<>>]

LEMMA SplitSquashed ==
    ASSUME NEW X, Blank \subseteq X, NEW s \in Seq(X), NEW u, Split(X, s, u)
    PROVE  /\ collapse_punctuation(s) \in Seq(X)
           /\ Tokenized(collapse_punctuation(s)) =
                 [tokens |-> Squashed(Tokenized(s).tokens),
                  token |-> collapse_punctuation(Tokenized(s).token)]
           /\ Ended(Tokenized(s)).tokens \in Seq(WordsOver(X))
           /\ Ended(Tokenized(collapse_punctuation(s))) =
                 [tokens |-> Squashed(Ended(Tokenized(s)).tokens), token |-> <<>>]
<1>1. PICK k \in Seq(X \ Blank) : k = Tokenized(s).token BY DEF Split
<1>2. PICK t \in Seq(WordsOver(X)) : t = Tokenized(s).tokens BY DEF Split
<1>3. /\ u \in Seq(X) /\ s = u \o k /\ (u = <<>> \/ u[Len(u)] \in Blank)
      /\ Tokenized(collapse_punctuation(u)) = [tokens |-> Squashed(t), token |-> <<>>]
  BY <1>1, <1>2 DEF Split
<1>4. k \in Seq(X) /\ t \in Seq(Seq(X)) BY WordsAreTexts
<1>5. Tokenized(s) = [tokens |-> t, token |-> k]
  <2>1. Tokenized(s) \in TokenStates(X) BY TokenizedSnoc
  <2> QED BY ONLY <1>1, <1>2, <2>1 DEF TokenStates
<1>6. \A c \in Blank : c \notin Punctuation BY DEF Blank, Punctuation
<1>7. NoRunAcross(u, k) BY ONLY <1>3, <1>6 DEF NoRunAcross
<1>8. collapse_punctuation(s) = collapse_punctuation(u) \o collapse_punctuation(k)
  BY ONLY <1>3, <1>4, <1>7, PunctuationConcat
<1>9. PICK e : e = collapse_punctuation(k) OBVIOUS
<1>10. e \in Seq(X \ Blank) /\ (e = <<>> <=> k = <<>>)
  <2>1. PICK Z : Z = X \ Blank OBVIOUS
  <2>2. k \in Seq(Z) BY ONLY <2>1, k \in Seq(X \ Blank)
  <2>3. e \in Seq(Z) /\ (e = <<>> <=> k = <<>>)
    BY ONLY <1>9, <2>2, PunctuationTyped, PunctuationFirst
  <2> QED BY ONLY <2>1, <2>3
<1>11. PICK x \in Seq(X) : x = collapse_punctuation(u) BY <1>3, PunctuationTyped
<1>12. Tokenized(x \o e) = [tokens |-> Tokenized(x).tokens, token |-> Tokenized(x).token \o e]
  BY ONLY <1>10, Blank \subseteq X, x \in Seq(X), TokenGrows
<1>13. Tokenized(collapse_punctuation(s)) = [tokens |-> Squashed(t), token |-> e]
  <2>1. Tokenized(x).tokens = Squashed(t) /\ Tokenized(x).token = <<>> BY ONLY <1>3, <1>11
  <2>2. <<>> \o e = e BY <1>10
  <2> QED BY ONLY <1>8, <1>9, <1>11, <1>12, <2>1, <2>2
<1>14. collapse_punctuation(s) \in Seq(X) BY PunctuationTyped
<1>15. CASE k = <<>>
  <2>1. Ended(Tokenized(s)) = [tokens |-> t, token |-> <<>>] BY ONLY <1>5, <1>15 DEF Ended
  <2>2. Ended(Tokenized(collapse_punctuation(s))) = [tokens |-> Squashed(t), token |-> <<>>]
    BY ONLY <1>10, <1>13, <1>15 DEF Ended
  <2> QED BY ONLY <1>1, <1>2, <1>9, <1>13, <1>14, <2>1, <2>2, t \in Seq(WordsOver(X))
<1>16. CASE k # <<>>
  <2>1. Ended(Tokenized(s)) = [tokens |-> Append(t, k), token |-> <<>>]
    BY ONLY <1>5, <1>16 DEF Ended
  <2>2. Ended(Tokenized(collapse_punctuation(s))) =
           [tokens |-> Append(Squashed(t), e), token |-> <<>>]
    BY ONLY <1>10, <1>13, <1>16 DEF Ended
  <2>3. Append(Squashed(t), e) = Squashed(Append(t, k)) BY ONLY <1>4, <1>9, SquashedSnoc
  <2>4. Append(t, k) \in Seq(WordsOver(X))
    <3>1. PICK W : W = WordsOver(X) OBVIOUS
    <3>2. k \in W /\ t \in Seq(W) BY ONLY <1>16, <3>1, k \in Seq(X \ Blank), t \in Seq(WordsOver(X)) DEF WordsOver
    <3>3. Append(t, k) \in Seq(W) BY ONLY <3>2, AppendProperties
    <3> QED BY ONLY <3>1, <3>3
  <2> QED BY ONLY <1>1, <1>2, <1>9, <1>13, <1>14, <2>1, <2>2, <2>3, <2>4
<1> QED BY <1>15, <1>16

LEMMA SplitExists ==
    ASSUME NEW X, Blank \subseteq X, NEW s \in Seq(X)
    PROVE  \E u : Split(X, s, u)
<1>0. \A x, y \in Seq(X), c \in X : x \o Append(y, c) = Append(x \o y, c) BY ConcatAppend
<1> DEFINE P == {e \in Seq(X) : \E u : Split(X, e, u)}
<1>1. <<>> \in P
  <2>1. Tokenized(<<>>) = NoTokens BY TokenizedSnoc
  <2>2. Tokenized(<<>>).token = <<>> /\ Tokenized(<<>>).tokens = <<>>
        /\ Tokenized(<<>>) = [tokens |-> <<>>, token |-> <<>>]
    BY ONLY <2>1 DEF NoTokens
  <2>3. collapse_punctuation(<<>>) = <<>>
    <3>1. <<>> \in Seq(Nat) /\ 0 \in Nat OBVIOUS
    <3> QED BY ONLY <3>1, PunctuationCons
  <2>4. Squashed(<<>>) = <<>>
    <3>1. <<>> \in Seq(Seq(Nat)) /\ <<>> \in Seq(Nat) OBVIOUS
    <3> QED BY ONLY <3>1, SquashedSnoc
  <2>5. <<>> \in Seq(X) /\ <<>> \in Seq(X \ Blank) /\ <<>> \in Seq(WordsOver(X)) /\ <<>> \o <<>> = <<>>
    OBVIOUS
  <2>6. Split(X, <<>>, <<>>) BY ONLY <2>2, <2>3, <2>4, <2>5 DEF Split
  <2> QED BY ONLY <2>5, <2>6
<1>2. ASSUME NEW e \in Seq(X), NEW c \in X, e \in P PROVE Append(e, c) \in P
  <2>1. PICK u : Split(X, e, u) BY <1>2
  <2>2. PICK k \in Seq(X \ Blank) : k = Tokenized(e).token BY <2>1 DEF Split
  <2>3. PICK t \in Seq(WordsOver(X)) : t = Tokenized(e).tokens BY <2>1 DEF Split
  <2>4. /\ u \in Seq(X) /\ e = u \o k /\ (u = <<>> \/ u[Len(u)] \in Blank)
        /\ Tokenized(u) = [tokens |-> t, token |-> <<>>]
        /\ Tokenized(collapse_punctuation(u)) = [tokens |-> Squashed(t), token |-> <<>>]
    BY <2>1, <2>2, <2>3 DEF Split
  <2>5. Tokenized(e) = [tokens |-> t, token |-> k]
    <3>1. Tokenized(e) \in TokenStates(X) BY TokenizedSnoc
    <3> QED BY ONLY <2>2, <2>3, <3>1 DEF TokenStates
  <2>6. k \in Seq(X) /\ t \in Seq(Seq(X)) BY WordsAreTexts
  <2>7. PICK n \in Nat, a \in Seq(X) : a = Append(e, c) /\ Len(a) = n /\ a[n] = c /\ a # <<>>
    <3>1. Append(e, c) \in Seq(X) /\ Len(Append(e, c)) = Len(e) + 1 /\ Append(e, c) # <<>>
          /\ Append(e, c)[Len(e) + 1] = c /\ Len(e) + 1 \in Nat
      BY AppendProperties
    <3> QED BY ONLY <3>1
  <2>8. Tokenized(a) = TokenOne(Tokenized(e), c) BY <2>7, TokenizedSnoc
  <2>9. CASE c \in Blank
    <3>1. PICK t2 : t2 = Ended(Tokenized(e)).tokens OBVIOUS
    <3>2. /\ t2 \in Seq(WordsOver(X))
          /\ Ended(Tokenized(collapse_punctuation(e))) = [tokens |-> Squashed(t2), token |-> <<>>]
          /\ collapse_punctuation(e) \in Seq(X)
      BY <2>1, <3>1, SplitSquashed
    <3>3. Tokenized(a) = [tokens |-> t2, token |-> <<>>]
      <4>1. Tokenized(e) \in TokenStates(X) BY TokenizedSnoc
      <4>2. Ended(Tokenized(e)) = [tokens |-> t2, token |-> <<>>] BY ONLY <3>1, <4>1, EndedIs
      <4> QED BY ONLY <2>8, <2>9, <4>2 DEF TokenOne
    <3>4. collapse_punctuation(a) = Append(collapse_punctuation(e), c)
      <4>1. PICK x \in Seq(X) : x = <<c>> /\ Len(x) = 1 /\ x[1] = c
        <5>1. <<c>> \in Seq(X) /\ Len(<<c>>) = 1 /\ <<c>>[1] = c OBVIOUS
        <5> QED BY ONLY <5>1
      <4>2. c \notin Punctuation BY <2>9 DEF Blank, Punctuation
      <4>3. NoRunAcross(e, x) BY ONLY <4>1, <4>2 DEF NoRunAcross
      <4>4. a = e \o x BY ONLY <2>7, <4>1, e \in Seq(X), c \in X, AppendIsConcat
      <4>5. collapse_punctuation(a) = collapse_punctuation(e) \o collapse_punctuation(x)
        BY ONLY <4>3, <4>4, e \in Seq(X), x \in Seq(X), PunctuationConcat
      <4>6. collapse_punctuation(x) = x
        <5>1. <<>> \in Seq(X) /\ <<c>> \o <<>> = <<c>> OBVIOUS
        <5>2. collapse_punctuation(<<>>) = <<>> BY ONLY <5>1, c \in X, PunctuationCons
        <5>3. collapse_punctuation(<<c>> \o <<>>) = <<c>> \o collapse_punctuation(<<>>)
          BY ONLY <4>2, <5>1, c \in X, PunctuationCons
        <5> QED BY ONLY <4>1, <5>1, <5>2, <5>3
      <4>7. Append(collapse_punctuation(e), c) = collapse_punctuation(e) \o x
        BY ONLY <3>2, <4>1, c \in X, AppendIsConcat
      <4> QED BY ONLY <4>5, <4>6, <4>7
    <3>5. Tokenized(collapse_punctuation(a)) = [tokens |-> Squashed(t2), token |-> <<>>]
      <4>1. Tokenized(collapse_punctuation(a)) = TokenOne(Tokenized(collapse_punctuation(e)), c)
        BY ONLY <3>2, <3>4, c \in X, Blank \subseteq X, TokenizedSnoc
      <4> QED BY ONLY <2>9, <3>2, <4>1 DEF TokenOne
    <3>6. a = a \o <<>> /\ <<>> \in Seq(X \ Blank) OBVIOUS
    <3>7. Tokenized(a).token = <<>> /\ Tokenized(a).tokens = t2 BY ONLY <3>3
    <3>8. Split(X, a, a) BY ONLY <2>7, <2>9, <3>2, <3>3, <3>5, <3>6, <3>7, a \in Seq(X) DEF Split
    <3> QED BY ONLY <2>7, <3>8, a \in Seq(X)
  <2>10. CASE c \notin Blank
    <3>1. PICK k2 \in Seq(X \ Blank) : k2 = Append(k, c)
      <4>1. c \in X \ Blank BY <2>10
      <4>2. Append(k, c) \in Seq(X \ Blank) BY ONLY <4>1, k \in Seq(X \ Blank), AppendProperties
      <4> QED BY ONLY <4>2
    <3>2. Tokenized(a) = [tokens |-> t, token |-> k2] BY ONLY <2>5, <2>8, <2>10, <3>1 DEF TokenOne
    <3>3. a = u \o k2
      <4>1. u \o Append(k, c) = Append(u \o k, c) BY ONLY <1>0, <2>4, <2>6, c \in X
      <4> QED BY ONLY <2>4, <2>7, <3>1, <4>1
    <3>4. Tokenized(a).tokens = t /\ Tokenized(a).token = k2 BY ONLY <3>2
    <3>5. Split(X, a, u)
      BY ONLY <2>4, <3>3, <3>4, k2 \in Seq(X \ Blank), t \in Seq(WordsOver(X)) DEF Split
    <3> QED BY ONLY <2>7, <3>5, a \in Seq(X)
  <2> QED BY <2>9, <2>10
<1>3. Seq(X) \subseteq P
  <2> HIDE DEF P
  <2> QED BY ONLY <1>1, <1>2, SnocInduction
<1> QED BY <1>3

-----------------------------------------------------------------------------
(* The reference's words are the tokens.                                     *)

LEMMA PrefixIs ==
    ASSUME NEW X, NEW s \in Seq(X), NEW k \in 0..Len(s)
    PROVE  /\ SubSeq(s, 1, k) \in Seq(X) /\ Len(SubSeq(s, 1, k)) = k
           /\ \A i \in 1..k : SubSeq(s, 1, k)[i] = s[i]
<1>1. k \in Nat /\ k <= Len(s) /\ Len(s) \in Nat OBVIOUS
<1>2. \A i \in 1..k : s[i] \in X BY <1>1
<1> QED BY <1>1, <1>2

LEMMA PrefixSnoc ==
    ASSUME NEW X, NEW s \in Seq(X), NEW k \in 1..Len(s)
    PROVE  SubSeq(s, 1, k) = Append(SubSeq(s, 1, k - 1), s[k])
<1>1. k \in Nat /\ k \in 0..Len(s) /\ k - 1 \in 0..Len(s) /\ s[k] \in X /\ k - 1 + 1 = k OBVIOUS
<1>2. PICK p \in Seq(X) : /\ p = SubSeq(s, 1, k) /\ Len(p) = k
                          /\ \A i \in 1..k : p[i] = s[i]
  BY ZenonT(60), <1>1, PrefixIs
<1>3. PICK q \in Seq(X) : /\ q = SubSeq(s, 1, k - 1) /\ Len(q) = k - 1
                          /\ \A i \in 1..(k - 1) : q[i] = s[i]
  BY ZenonT(60), <1>1, PrefixIs
<1>4. PICK a \in Seq(X) : /\ a = Append(q, s[k]) /\ Len(a) = k /\ a[k] = s[k]
                          /\ \A i \in 1..(k - 1) : a[i] = s[i]
  <2>1. /\ Append(q, s[k]) \in Seq(X) /\ Len(Append(q, s[k])) = Len(q) + 1
        /\ Append(q, s[k])[Len(q) + 1] = s[k]
        /\ \A i \in 1..Len(q) : Append(q, s[k])[i] = q[i]
    BY ONLY <1>1, q \in Seq(X), AppendProperties
  <2> QED BY ONLY ZenonT(60), <1>1, <1>3, <2>1
<1>5. \A i \in 1..k : i = k \/ i \in 1..(k - 1) BY <1>1
<1>6. \A i \in 1..k : a[i] = p[i] BY ONLY <1>2, <1>4, <1>5
<1>7. a = p BY ONLY <1>2, <1>4, <1>6, SeqEqual
<1> QED BY ONLY <1>2, <1>3, <1>4, <1>7

LEMMA WordUpToIs ==
    ASSUME NEW X, Blank \subseteq X, NEW s \in Seq(X), NEW k \in 1..Len(s), s[k] \notin Blank
    PROVE  /\ WordUpTo(s, k) = Tokenized(SubSeq(s, 1, k)).token
           /\ WordUpTo(s, k) \in Seq(X \ Blank) /\ WordUpTo(s, k) # <<>>
<1>0. k \in Nat /\ k \in 0..Len(s) /\ 1 <= k OBVIOUS
<1>1. PICK p \in Seq(X) : /\ p = SubSeq(s, 1, k) /\ Len(p) = k
                          /\ \A i \in 1..k : p[i] = s[i]
  BY <1>0, PrefixIs
<1>2. PICK u : Split(X, p, u) BY SplitExists
<1>3. PICK w \in Seq(X \ Blank) : w = Tokenized(p).token BY <1>2 DEF Split
<1>4. u \in Seq(X) /\ p = u \o w /\ (u = <<>> \/ u[Len(u)] \in Blank)
  BY <1>2, <1>3 DEF Split
<1>5. PICK m \in Nat, l \in Nat : m = Len(u) /\ l = Len(w) BY <1>4
<1>6. k = m + l /\ (\A i \in 1..m : s[i] = u[i]) /\ \A i \in 1..l : s[m + i] = w[i]
  <2>1. w \in Seq(X) BY WordsAreTexts
  <2>2. /\ Len(p) = m + l /\ \A i \in 1..m : p[i] = u[i]
        /\ \A i \in 1..l : p[m + i] = w[i]
    BY ONLY <1>4, <1>5, <2>1, ConcatFacts
  <2>3. k = m + l BY ONLY <1>1, <2>2
  <2>4. (\A i \in 1..m : i \in 1..k) /\ \A i \in 1..l : m + i \in 1..k BY <1>5, <2>3
  <2> QED BY ONLY <1>1, <2>2, <2>3, <2>4
<1>7. m > 0 => s[m] \in Blank
  <2>1. HAVE m > 0
  <2>2. u # <<>> /\ m \in 1..m BY <1>5, <2>1
  <2> QED BY ONLY <1>4, <1>5, <1>6, <2>2
<1>8. l # 0
  <2>1. SUFFICES ASSUME l = 0 PROVE FALSE OBVIOUS
  <2>2. m = k /\ m > 0 BY <1>0, <1>5, <1>6, <2>1
  <2> QED BY <1>7, <2>2
<1>9. \A i \in 1..l : w[i] \notin Blank BY <1>5
<1>10. \A j \in (m + 1)..k : s[j] \notin Blank
  <2>1. \A j \in (m + 1)..k : j - m \in 1..l /\ m + (j - m) = j BY <1>5, <1>6
  <2> QED BY ONLY <1>6, <1>9, <2>1
<1> DEFINE Start(i) == /\ \A j \in i..k : s[j] \notin Blank
                       /\ i = 1 \/ s[i - 1] \in Blank
           start == CHOOSE i \in 1..k : Start(i)
<1>11. m + 1 \in 1..k /\ Start(m + 1)
  <2>1. m + 1 \in 1..k /\ (m + 1) - 1 = m /\ (m + 1 = 1 \/ m > 0) BY <1>5, <1>6, <1>8
  <2> QED BY ONLY <1>7, <1>10, <2>1
<1>12. ASSUME NEW i \in 1..k, Start(i) PROVE i = m + 1
  <2>1. CASE i < m + 1
    <3>1. m > 0 /\ m \in i..k BY <1>5, <1>6, <2>1
    <3> QED BY ONLY <1>7, <1>12, <3>1
  <2>2. CASE i > m + 1
    <3>1. i # 1 /\ i - 1 \in (m + 1)..k BY <1>5, <2>2
    <3> QED BY ONLY <1>10, <1>12, <3>1
  <2> QED BY <1>5, <2>1, <2>2
<1>13. start = m + 1
  <2> HIDE DEF Start
  <2> QED BY ONLY <1>11, <1>12
<1>14. WordUpTo(s, k) = SubSeq(s, m + 1, k)
  <2>1. WordUpTo(s, k) = SubSeq(s, start, k) BY DEF WordUpTo
  <2> HIDE DEF start
  <2> QED BY ONLY <1>13, <2>1
<1>15. SubSeq(s, m + 1, k) = w
  <2>1. \A i \in (m + 1)..k : s[i] \in X BY <1>0, <1>5
  <2>2. PICK q \in Seq(X) : /\ q = SubSeq(s, m + 1, k) /\ Len(q) = l
                            /\ \A i \in 1..l : q[i] = s[m + i]
    <3>1. SubSeq(s, m + 1, k) \in Seq(X) BY <1>0, <1>5, <2>1
    <3>2. Len(SubSeq(s, m + 1, k)) = l BY <1>0, <1>5, <1>6
    <3>3. \A i \in 1..l : SubSeq(s, m + 1, k)[i] = s[m + i]
      <4>1. TAKE i \in 1..l
      <4>2. SubSeq(s, m + 1, k)[i] = s[(m + 1) + i - 1] BY <1>0, <1>5, <1>6
      <4>3. (m + 1) + i - 1 = m + i BY <1>5
      <4> QED BY ONLY <4>2, <4>3
    <3> QED BY ONLY <3>1, <3>2, <3>3
  <2>3. w \in Seq(X) /\ Len(w) = l /\ \A i \in 1..l : q[i] = w[i]
    BY <1>5, <1>6, <2>2, WordsAreTexts
  <2> QED BY ONLY <2>2, <2>3, SeqEqual
<1>16. w # <<>> BY <1>5, <1>8
<1> HIDE DEF Start, start
<1> QED BY ONLY <1>1, <1>3, <1>14, <1>15, <1>16, w \in Seq(X \ Blank)

CompressOne(s, k, out) ==
    IF EndsWord(s, k) /\ Core(Squeezed(WordUpTo(s, k))) \notin kFillers
    THEN Joined(out, Squeezed(WordUpTo(s, k))) ELSE out

LEMMA CompressOneIs ==
    ASSUME NEW X, Blank \subseteq X, NEW s \in Seq(X), NEW k \in 1..Len(s), NEW out \in Seq(X)
    PROVE  CompressOne(s, k, out) \in Seq(X)
<1>1. CASE EndsWord(s, k)
  <2>1. s[k] \notin Blank BY ONLY <1>1 DEF EndsWord
  <2>2. WordUpTo(s, k) \in Seq(X) BY <2>1, WordUpToIs, WordsAreTexts
  <2>3. PICK w \in Seq(X) : w = Squeezed(WordUpTo(s, k))
    <3>1. Squeezed(WordUpTo(s, k)) = collapse_punctuation(WordUpTo(s, k)) BY <2>2, SqueezedAgrees
    <3>2. collapse_punctuation(WordUpTo(s, k)) \in Seq(X) BY <2>2, PunctuationTyped
    <3> QED BY ONLY <3>1, <3>2
  <2>4. Joined(out, w) \in Seq(X) BY KeptIs
  <2> QED BY ONLY <2>3, <2>4, out \in Seq(X) DEF CompressOne
<1>2. CASE ~ EndsWord(s, k) BY <1>2 DEF CompressOne
<1> QED BY <1>1, <1>2

(* The reference on the prefixes of s. *)
Compresses(f, s) ==
    f[0] = <<>> /\ \A k \in 1..Len(s) : f[k] = CompressOne(s, k, f[k - 1])

LEMMA CompressedIs ==
    ASSUME NEW X, Blank \subseteq X, NEW s \in Seq(X)
    PROVE  /\ \E f \in [0..Len(s) -> Seq(X)] : Compresses(f, s)
           /\ \A f : Compresses(f, s) => Compressed(s) = f[Len(s)]
<1>1. PICK n \in Nat : n = Len(s) /\ \A k \in 1..n : s[k] \in X OBVIOUS
<1>2. PICK S2, b : /\ S2 = Seq(X) /\ b = <<>> /\ b \in S2
                   /\ \A k \in 1..n : \A st \in S2 : CompressOne(s, k, st) \in S2
  <2>1. <<>> \in Seq(X) BY EmptySeq
  <2>2. \A k \in 1..n : \A st \in Seq(X) : CompressOne(s, k, st) \in Seq(X)
    BY <1>1, CompressOneIs
  <2> QED BY <2>1, <2>2
<1>3. PICK step : step = [k \in 1..n |-> [st \in S2 |-> CompressOne(s, k, st)]] OBVIOUS
<1>4. step \in [1..n -> [S2 -> S2]] BY ONLY <1>2, <1>3
<1>5. \A k \in 1..n : \A st \in S2 : step[k][st] = CompressOne(s, k, st) BY ONLY <1>3
<1>6. PICK f \in [0..n -> S2] : Steps(f, n, b, step) BY ONLY <1>1, <1>2, <1>4, StepsExist
<1>7. \A k \in 1..n : k - 1 \in 0..n /\ k \in 0..n /\ k # 0 BY <1>1
<1>8. Compresses(f, s) BY ONLY <1>1, <1>2, <1>5, <1>6, <1>7 DEF Steps, Compresses
<1>9. ASSUME NEW h, Compresses(h, s) PROVE Compressed(s) = h[Len(s)]
  <2> DEFINE Rec(e) == e = [k \in 0..n |-> IF k = 0 THEN <<>> ELSE CompressOne(s, k, e[k - 1])]
  <2>1. PICK g : g = CHOOSE e : Rec(e) OBVIOUS
  <2>2. Compressed(s) = g[n] BY <1>1, <2>1 DEF Compressed, CompressOne
  <2>3. Rec(f)
    <3> DEFINE r == [k \in 0..n |-> IF k = 0 THEN <<>> ELSE CompressOne(s, k, f[k - 1])]
    <3>1. \A k \in 0..n : k = 0 \/ k \in 1..n BY <1>1
    <3>2. \A k \in 0..n : f[k] = r[k] BY ONLY <1>1, <1>8, <3>1 DEF Compresses
    <3> QED BY ONLY <1>6, <3>2
  <2>4. Rec(g)
    <3> HIDE DEF Rec
    <3> QED BY ONLY <2>3, <2>1
  <2>5. g[0] = b /\ \A k \in 1..n : g[k] = CompressOne(s, k, g[k - 1])
    <3>1. \A k \in 0..n : g[k] = IF k = 0 THEN <<>> ELSE CompressOne(s, k, g[k - 1])
      BY ONLY <2>4
    <3>2. 0 \in 0..n BY <1>1
    <3> QED BY ONLY <1>2, <1>7, <3>1, <3>2
  <2>6. Follows(g, n, b, step, S2) BY ONLY <1>5, <2>5 DEF Follows
  <2>7. Follows(h, n, b, step, S2)
    BY ONLY <1>1, <1>2, <1>5, <1>9 DEF Follows, Compresses
  <2>8. \A k \in 0..n : h[k] \in S2 /\ h[k] = g[k]
    <3>1. n \in Nat /\ b \in S2 BY <1>2
    <3> QED BY ONLY <3>1, <1>4, <2>6, <2>7, StepsAgree
  <2>9. n \in 0..n BY <1>1
  <2> QED BY ONLY <1>1, <2>2, <2>8, <2>9
<1> QED BY ONLY <1>1, <1>2, <1>6, <1>8, <1>9


(* The reference keeps the squeezed tokens that are no fillers.             *)
LEMMA CompressedAgrees ==
    ASSUME NEW X, Blank \subseteq X, NEW s \in Seq(X)
    PROVE  Compressed(s) = WithoutFillers(Squashed(TokensIn(s)))
<1>1. PICK n \in Nat : n = Len(s) OBVIOUS
<1>2. PICK T : T = [k \in 0..n |-> Tokenized(SubSeq(s, 1, k))] OBVIOUS
<1>3. \A k \in 0..n : T[k] = Tokenized(SubSeq(s, 1, k)) BY ONLY <1>2
<1>4. T[0] = NoTokens
  <2>1. SubSeq(s, 1, 0) = <<>>
    <3>1. 0 \in 0..Len(s) OBVIOUS
    <3>2. SubSeq(s, 1, 0) \in Seq(X) /\ Len(SubSeq(s, 1, 0)) = 0 BY ONLY <3>1, s \in Seq(X), PrefixIs
    <3> QED BY ONLY <3>2, EmptySeq
  <2>2. 0 \in 0..n BY <1>1
  <2>3. Tokenized(<<>>) = NoTokens BY TokenizedSnoc
  <2> QED BY ONLY <1>3, <2>1, <2>2, <2>3
<1>5. T[n] = Tokenized(s)
  <2>1. n \in 0..n BY <1>1
  <2>2. SubSeq(s, 1, n) = s BY <1>1
  <2> QED BY ONLY <1>3, <2>1, <2>2
<1>6. ASSUME NEW k \in 1..n PROVE k - 1 \in 0..n /\ T[k] = TokenOne(T[k - 1], s[k])
  <2>1. k \in 0..n /\ k - 1 \in 0..n /\ k \in 1..Len(s) /\ k - 1 \in 0..Len(s) /\ s[k] \in X
    BY <1>1
  <2>2. SubSeq(s, 1, k) = Append(SubSeq(s, 1, k - 1), s[k])
    BY ONLY <2>1, s \in Seq(X), PrefixSnoc
  <2>3. SubSeq(s, 1, k - 1) \in Seq(X) BY ONLY <2>1, s \in Seq(X), PrefixIs
  <2>4. Tokenized(Append(SubSeq(s, 1, k - 1), s[k])) = TokenOne(Tokenized(SubSeq(s, 1, k - 1)), s[k])
    BY ONLY <2>1, <2>3, Blank \subseteq X, TokenizedSnoc
  <2> QED BY ONLY <1>3, <2>1, <2>2, <2>4
<1>7. ASSUME NEW k \in 0..n
      PROVE  /\ T[k] = [tokens |-> T[k].tokens, token |-> T[k].token]
             /\ T[k].tokens \in Seq(Seq(X)) /\ T[k].token \in Seq(X)
             /\ Ended(Ended(T[k])) = Ended(T[k]) /\ Ended(T[k]).token = <<>>
             /\ Ended(T[k]).tokens \in Seq(Seq(X))
  <2>1. k \in 0..Len(s) BY <1>1
  <2>2. SubSeq(s, 1, k) \in Seq(X) BY ONLY <2>1, s \in Seq(X), PrefixIs
  <2>3. T[k] \in TokenStates(X) BY ONLY <1>3, <2>2, Blank \subseteq X, TokenizedSnoc, k \in 0..n
  <2>4. PICK st \in TokenStates(X) : st = T[k] BY <2>3
  <2>5. /\ Ended(Ended(st)) = Ended(st) /\ Ended(st).token = <<>>
        /\ Ended(st) \in TokenStates(X)
    BY EndedIs
  <2> QED BY ONLY <2>4, <2>5, st \in TokenStates(X) DEF TokenStates
<1> DEFINE Over(k) == k = 0 \/ s[k] \in Blank \/ k = n \/ s[k + 1] \in Blank
           Done(k) == IF Over(k) THEN Ended(T[k]).tokens ELSE T[k].tokens
<1>8. PICK g : g = [k \in 0..n |-> WithoutFillers(Squashed(Done(k)))] OBVIOUS
<1>9. \A k \in 0..n : g[k] = WithoutFillers(Squashed(Done(k))) BY ONLY <1>8
<1>10. \A k \in 0..n : Done(k) \in Seq(Seq(X)) BY ONLY <1>7
<1>11. g[0] = <<>>
  <2>1. 0 \in 0..n BY <1>1
  <2>2. Done(0) = <<>>
    <3>1. Ended(NoTokens).tokens = <<>> BY DEF Ended, NoTokens
    <3> QED BY ONLY <1>4, <3>1
  <2>3. Squashed(<<>>) = <<>>
    <3>1. <<>> \in Seq(Seq(Nat)) /\ <<>> \in Seq(Nat) OBVIOUS
    <3> QED BY ONLY <3>1, SquashedSnoc
  <2>4. WithoutFillers(<<>>) = <<>> BY WithoutFillersSnoc
  <2> HIDE DEF Done
  <2> QED BY ONLY <1>9, <2>1, <2>2, <2>3, <2>4
<1>12. ASSUME NEW k \in 1..n PROVE g[k] = CompressOne(s, k, g[k - 1])
  <2>0. k \in 0..n /\ k - 1 \in 0..n /\ k # 0 /\ (k - 1) + 1 = k /\ k - 1 # n /\ k \in 1..Len(s)
        /\ (k - 1 # 0 => k - 1 \in 1..n)
    BY <1>1
  <2>1. T[k] = TokenOne(T[k - 1], s[k]) BY <1>6
  <2>2. CASE s[k] \in Blank
    <3>1. T[k] = Ended(T[k - 1]) BY ONLY <2>1, <2>2 DEF TokenOne
    <3>2. Done(k) = Ended(Ended(T[k - 1])).tokens BY ONLY <2>2, <3>1
    <3>3. Done(k - 1) = Ended(T[k - 1]).tokens BY ONLY <2>0, <2>2
    <3>4. Ended(Ended(T[k - 1])) = Ended(T[k - 1]) BY <1>7, <2>0
    <3>5. ~ EndsWord(s, k) BY ONLY <2>2 DEF EndsWord
    <3> HIDE DEF Done
    <3>6. g[k] = g[k - 1] BY ONLY <1>9, <2>0, <3>2, <3>3, <3>4
    <3> QED BY ONLY <3>5, <3>6 DEF CompressOne
  <2>3. CASE s[k] \notin Blank
    <3>1. PICK t, e : t = T[k - 1].tokens /\ e = Append(T[k - 1].token, s[k]) OBVIOUS
    <3>2. T[k] = [tokens |-> t, token |-> e] BY ONLY <2>1, <2>3, <3>1 DEF TokenOne
    <3>3. t \in Seq(Seq(X)) /\ e \in Seq(X) /\ e # <<>>
      <4>1. T[k - 1].token \in Seq(X) /\ t \in Seq(Seq(X)) BY <1>7, <2>0, <3>1
      <4>2. s[k] \in X BY <2>0
      <4> QED BY ONLY <3>1, <4>1, <4>2, AppendProperties
    <3>4. Done(k - 1) = t
      <4>1. CASE k - 1 = 0
        <5>1. Ended(NoTokens) = NoTokens BY DEF Ended, NoTokens
        <5> QED BY ONLY <1>4, <3>1, <4>1, <5>1
      <4>2. CASE k - 1 # 0 /\ s[k - 1] \in Blank
        <5>1. T[k - 1] = TokenOne(T[(k - 1) - 1], s[k - 1]) /\ (k - 1) - 1 \in 0..n
          BY <1>6, <2>0, <4>2
        <5>2. T[k - 1] = Ended(T[(k - 1) - 1]) BY ONLY <4>2, <5>1 DEF TokenOne
        <5>3. Ended(Ended(T[(k - 1) - 1])) = Ended(T[(k - 1) - 1]) BY <1>7, <5>1
        <5> QED BY ONLY <3>1, <4>2, <5>2, <5>3
      <4>3. CASE k - 1 # 0 /\ s[k - 1] \notin Blank
        BY ONLY <2>0, <2>3, <3>1, <4>3
      <4> QED BY ONLY <4>1, <4>2, <4>3
    <3>5. g[k - 1] = WithoutFillers(Squashed(t))
      <4> HIDE DEF Done
      <4> QED BY ONLY <1>9, <2>0, <3>4
    <3>6. CASE EndsWord(s, k)
      <4>1. Over(k) BY ONLY <1>1, <3>6 DEF EndsWord
      <4>2. Ended(T[k]) = [tokens |-> Append(t, e), token |-> <<>>]
        BY ONLY <3>2, <3>3 DEF Ended
      <4>3. Done(k) = Append(t, e) BY ONLY <4>1, <4>2
      <4>4. g[k] = WithoutFillers(Squashed(Append(t, e)))
        <5> HIDE DEF Done
        <5> QED BY ONLY <1>9, <2>0, <4>3
      <4>5. PICK w \in Seq(X) : w = collapse_punctuation(e)
                                /\ Squashed(Append(t, e)) = Append(Squashed(t), w)
        BY ONLY <3>3, SquashedSnoc
      <4>6. Squashed(t) \in Seq(Seq(X)) BY ONLY <3>3, SquashedIs
      <4>7. WithoutFillers(Append(Squashed(t), w)) = Kept(g[k - 1], w)
        BY ONLY <3>5, <4>6, Blank \subseteq X, w \in Seq(X), WithoutFillersSnoc
      <4>8. w = Squeezed(WordUpTo(s, k))
        <5>1. WordUpTo(s, k) = e
          <6>1. WordUpTo(s, k) = Tokenized(SubSeq(s, 1, k)).token
            BY ONLY <2>0, <2>3, s \in Seq(X), Blank \subseteq X, WordUpToIs
          <6> QED BY ONLY <1>3, <2>0, <3>2, <6>1
        <5>2. Squeezed(e) = collapse_punctuation(e) BY ONLY <3>3, SqueezedAgrees
        <5> QED BY ONLY <4>5, <5>1, <5>2
      <4> QED BY ONLY <3>6, <4>4, <4>5, <4>7, <4>8 DEF CompressOne, Kept
    <3>7. CASE ~ EndsWord(s, k)
      <4>1. ~ Over(k) BY ONLY <1>1, <2>0, <2>3, <3>7 DEF EndsWord
      <4>2. Done(k) = t BY ONLY <3>2, <4>1
      <4> HIDE DEF Done
      <4>3. g[k] = g[k - 1] BY ONLY <1>9, <2>0, <3>4, <4>2
      <4> QED BY ONLY <3>7, <4>3 DEF CompressOne
    <3> QED BY <3>6, <3>7
  <2> QED BY <2>2, <2>3
<1>13. Compresses(g, s) BY ONLY <1>1, <1>11, <1>12 DEF Compresses
<1>14. Compressed(s) = g[n] BY <1>1, <1>13, CompressedIs
<1>15. Done(n) = TokensIn(s) BY ONLY <1>5 DEF TokensIn
<1> HIDE DEF Done
<1>16. n \in 0..n BY <1>1
<1> QED BY ONLY <1>9, <1>14, <1>15, <1>16

-----------------------------------------------------------------------------
(* What compress_context yields, and that it has nothing left to do.         *)

LEMMA CompressIs ==
    ASSUME NEW X, Blank \subseteq X, NEW s \in Seq(X)
    PROVE  /\ compress_context(s) = WithoutFillers(Squashed(TokensIn(s)))
           /\ TokensIn(s) \in Seq(WordsOver(X))
<1>1. PICK y \in Seq(X) : y = collapse_whitespace(s) /\ TokensIn(y) = TokensIn(s)
  BY TokensKept
<1>2. PICK u : Split(X, y, u) BY SplitExists
<1>3. /\ Ended(Tokenized(y)).tokens \in Seq(WordsOver(X))
      /\ Ended(Tokenized(collapse_punctuation(y))) =
            [tokens |-> Squashed(Ended(Tokenized(y)).tokens), token |-> <<>>]
  BY <1>2, SplitSquashed
<1>4. TokensIn(collapse_punctuation(y)) = Squashed(TokensIn(s)) /\ TokensIn(y) \in Seq(WordsOver(X))
  BY ONLY <1>1, <1>3 DEF TokensIn
<1> QED BY ONLY <1>1, <1>4 DEF compress_context, remove_fillers

(* Words in which no punctuation is left to collapse. *)
Stable(X) == {w \in WordsOver(X) : collapse_punctuation(w) = w}

LEMMA SquashedStable ==
    ASSUME NEW X, NEW t \in Seq(WordsOver(X))
    PROVE  Squashed(t) \in Seq(Stable(X))
<1>1. PICK W : W = WordsOver(X) OBVIOUS
<1>2. PICK n \in Nat : n = Len(t) /\ \A i \in 1..n : t[i] \in W
  <2>1. t \in Seq(W) BY ONLY <1>1, t \in Seq(WordsOver(X))
  <2>2. Len(t) \in Nat /\ \A i \in 1..Len(t) : t[i] \in W BY ONLY <2>1
  <2> QED BY ONLY <2>2
<1>3. PICK Z : Z = X \ Blank OBVIOUS
<1>4. PICK V : V = Stable(X) OBVIOUS
<1>5. \A w \in W : collapse_punctuation(w) \in V
  <2>1. TAKE w \in W
  <2>2. w \in Seq(Z) /\ w # <<>> BY ONLY <1>1, <1>3, w \in W DEF WordsOver
  <2>3. PICK e \in Seq(Z) : e = collapse_punctuation(w) /\ e # <<>> /\ collapse_punctuation(e) = e
    BY ONLY <2>2, PunctuationTyped, PunctuationFirst, PunctuationTwice
  <2> QED BY ONLY <1>3, <1>4, <2>3, e \in Seq(Z) DEF Stable, WordsOver
<1>6. Squashed(t) \in [1..n -> V] BY ONLY <1>2, <1>5 DEF Squashed
<1>7. [1..n -> V] \subseteq Seq(V) OBVIOUS
<1> QED BY ONLY <1>4, <1>6, <1>7

LEMMA StableStays ==
    ASSUME NEW X, Blank \subseteq X, NEW t \in Seq(Stable(X))
    PROVE  /\ WithoutFillers(t) \in Seq(X)
           /\ WithoutFillers(Squashed(TokensIn(WithoutFillers(t)))) = WithoutFillers(t)
<1> DEFINE Stays(e) == WithoutFillers(Squashed(TokensIn(WithoutFillers(e)))) = WithoutFillers(e)
           P == {e \in Seq(Stable(X)) : Stays(e)}
<1>0. Stable(X) \subseteq Seq(X) /\ Seq(Stable(X)) \subseteq Seq(Seq(X))
  <2>1. PICK V, W : V = Stable(X) /\ W = Seq(X) OBVIOUS
  <2>2. V \subseteq W BY ONLY <2>1, WordsAreTexts DEF Stable
  <2>3. Seq(V) \subseteq Seq(W) BY ONLY <2>2, SeqMonotonic
  <2> QED BY ONLY <2>1, <2>2, <2>3
<1>1. Squashed(<<>>) = <<>> /\ WithoutFillers(<<>>) = <<>> /\ Tokenized(<<>>) = NoTokens
      /\ TokensIn(<<>>) = <<>>
  <2>1. Squashed(<<>>) = <<>>
    <3>1. <<>> \in Seq(Seq(Nat)) /\ <<>> \in Seq(Nat) OBVIOUS
    <3> QED BY ONLY <3>1, SquashedSnoc
  <2>2. WithoutFillers(<<>>) = <<>> /\ Tokenized(<<>>) = NoTokens
    BY WithoutFillersSnoc, TokenizedSnoc
  <2>3. TokensIn(<<>>) = <<>> BY ONLY <2>2 DEF TokensIn, Ended, NoTokens
  <2> QED BY ONLY <2>1, <2>2, <2>3
<1>2. <<>> \in P
  <2>1. <<>> \in Seq(Stable(X)) OBVIOUS
  <2> QED BY ONLY <1>1, <2>1
<1>3. ASSUME NEW y \in Seq(X), NEW w \in Stable(X), NEW T,
             T \in Seq(Seq(X)), Tokenized(y) = [tokens |-> T, token |-> <<>>],
             NEW z, z = WithoutFillers(Squashed(T))
      PROVE  WithoutFillers(Squashed(TokensIn(y \o w))) = Kept(z, w)
  <2>1. w \in Seq(X \ Blank) /\ w # <<>> /\ collapse_punctuation(w) = w /\ w \in Seq(X)
    BY <1>0 DEF Stable, WordsOver
  <2>2. Tokenized(y \o w) = [tokens |-> T, token |-> w]
    <3>1. Tokenized(y \o w) = [tokens |-> Tokenized(y).tokens, token |-> Tokenized(y).token \o w]
      BY ONLY <2>1, Blank \subseteq X, TokenGrows, y \in Seq(X)
    <3>2. <<>> \o w = w BY ONLY <2>1
    <3>3. Tokenized(y).tokens = T /\ Tokenized(y).token = <<>> BY ONLY <1>3
    <3> QED BY ONLY <3>1, <3>2, <3>3
  <2>3. TokensIn(y \o w) = Append(T, w) BY ONLY <2>1, <2>2 DEF TokensIn, Ended
  <2>4. Squashed(Append(T, w)) = Append(Squashed(T), w) BY ONLY <1>3, <2>1, SquashedSnoc
  <2>5. Squashed(T) \in Seq(Seq(X)) BY ONLY <1>3, SquashedIs
  <2>6. WithoutFillers(Append(Squashed(T), w)) = Kept(WithoutFillers(Squashed(T)), w)
    BY ONLY <2>1, <2>5, Blank \subseteq X, WithoutFillersSnoc
  <2> QED BY ONLY <1>3, <2>3, <2>4, <2>6
<1>4. ASSUME NEW e \in Seq(Stable(X)), NEW w \in Stable(X), e \in P PROVE Append(e, w) \in P
  <2>1. e \in Seq(Seq(X)) /\ w \in Seq(X) BY <1>0
  <2>2. PICK y \in Seq(X) : y = WithoutFillers(e) BY <2>1, WithoutFillersSnoc
  <2>3. WithoutFillers(Append(e, w)) = Kept(y, w)
    BY ONLY <2>1, <2>2, Blank \subseteq X, WithoutFillersSnoc
  <2>4. Append(e, w) \in Seq(Stable(X)) BY AppendProperties
  <2>5. WithoutFillers(Squashed(TokensIn(y))) = y BY ONLY <1>4, <2>2
  <2>6. WithoutFillers(Squashed(TokensIn(Kept(y, w)))) = Kept(y, w)
    <3>1. CASE Core(w) \in kFillers BY ONLY <2>5, <3>1 DEF Kept
    <3>2. CASE Core(w) \notin kFillers /\ y = <<>>
      <4>1. Kept(y, w) = w BY ONLY <3>2 DEF Kept, Joined
      <4>2. Tokenized(<<>>) = [tokens |-> <<>>, token |-> <<>>] BY ONLY <1>1 DEF NoTokens
      <4>3. <<>> \in Seq(Seq(X)) /\ <<>> \in Seq(X) /\ <<>> \o w = w BY <2>1
      <4>4. WithoutFillers(Squashed(<<>>)) = <<>> BY ONLY <1>1
      <4>5. WithoutFillers(Squashed(TokensIn(<<>> \o w))) = Kept(<<>>, w)
        <5>1. PICK y0 : y0 = <<>> OBVIOUS
        <5>2. PICK T0 : T0 = <<>> OBVIOUS
        <5>3. y0 \in Seq(X) /\ T0 \in Seq(Seq(X)) BY ONLY <5>1, <5>2, <4>3
        <5>4. Tokenized(y0) = [tokens |-> T0, token |-> <<>>] BY ONLY <5>1, <5>2, <4>2
        <5>5. y0 = WithoutFillers(Squashed(T0)) BY ONLY <5>1, <5>2, <4>4
        <5>6. WithoutFillers(Squashed(TokensIn(y0 \o w))) = Kept(y0, w)
          BY ONLY <1>3, <5>3, <5>4, <5>5, w \in Stable(X)
        <5> QED BY ONLY <5>1, <5>6
      <4> QED BY ONLY <3>2, <4>1, <4>3, <4>5
    <3>3. CASE Core(w) \notin kFillers /\ y # <<>>
      <4>1. PICK sp \in X : sp = " " /\ sp \in Blank BY DEF Blank
      <4>2. PICK a \in Seq(X) : a = Append(y, sp) /\ a = y \o <<" ">>
        <5>1. Append(y, sp) \in Seq(X) /\ Append(y, sp) = y \o <<sp>>
          BY ONLY y \in Seq(X), sp \in X, AppendProperties, AppendIsConcat
        <5> QED BY ONLY <4>1, <5>1
      <4>3. Kept(y, w) = a \o w BY ONLY <3>3, <4>2 DEF Kept, Joined
      <4>4. PICK st \in TokenStates(X) : st = Tokenized(y) BY TokenizedSnoc
      <4>5. Tokenized(a) = Ended(st)
        <5>1. Tokenized(a) = TokenOne(st, sp)
          BY ONLY <4>2, <4>4, y \in Seq(X), sp \in X, Blank \subseteq X, TokenizedSnoc
        <5> QED BY ONLY <4>1, <5>1 DEF TokenOne
      <4>6. Ended(st) = [tokens |-> TokensIn(y), token |-> <<>>] /\ TokensIn(y) \in Seq(Seq(X))
        <5>1. Ended(st) = [tokens |-> Ended(st).tokens, token |-> <<>>]
              /\ Ended(st) \in TokenStates(X)
          BY ONLY st \in TokenStates(X), EndedIs
        <5> QED BY ONLY <4>4, <5>1 DEF TokensIn, TokenStates
      <4>7. WithoutFillers(Squashed(TokensIn(a \o w))) = Kept(y, w)
        BY ONLY <1>3, <2>5, <4>5, <4>6, a \in Seq(X), w \in Stable(X)
      <4> QED BY ONLY <4>3, <4>7
    <3> QED BY <3>1, <3>2, <3>3
  <2> QED BY ONLY <2>3, <2>4, <2>6
<1>5. t \in P
  <2> HIDE DEF P
  <2>1. PICK V : V = Stable(X) OBVIOUS
  <2>2. \A e \in Seq(V), w \in V : e \in P => Append(e, w) \in P BY ONLY <1>4, <2>1
  <2>3. Seq(V) \subseteq P BY ONLY <1>2, <2>2, SnocInduction
  <2> QED BY ONLY <2>1, <2>3, t \in Seq(Stable(X))
<1>6. t \in Seq(Seq(X)) BY <1>0
<1>7. WithoutFillers(t) \in Seq(X)
  BY ONLY <1>6, Blank \subseteq X, WithoutFillersSnoc
<1> QED BY ONLY <1>5, <1>7

(* For every text: compress_context keeps the words that are no fillers, in  *)
(* order, squeezed and one space apart, and compressing what it yields       *)
(* changes nothing.                                                         *)
THEOREM CompressesToWords ==
    ASSUME NEW X, Blank \subseteq X, NEW s \in Seq(X)
    PROVE  /\ compress_context(s) = Compressed(s)
           /\ compress_context(compress_context(s)) = compress_context(s)
<1>1. PICK t : t = Squashed(TokensIn(s)) OBVIOUS
<1>2. compress_context(s) = WithoutFillers(t) /\ TokensIn(s) \in Seq(WordsOver(X))
  BY <1>1, CompressIs
<1>3. Compressed(s) = WithoutFillers(t) BY <1>1, CompressedAgrees
<1>4. t \in Seq(Stable(X)) BY <1>1, <1>2, SquashedStable
<1>5. PICK y \in Seq(X) : y = WithoutFillers(t) /\ WithoutFillers(Squashed(TokensIn(y))) = y
  BY <1>4, StableStays
<1>6. compress_context(y) = y BY <1>5, CompressIs
<1> QED BY ONLY <1>2, <1>3, <1>5, <1>6
=============================================================================
