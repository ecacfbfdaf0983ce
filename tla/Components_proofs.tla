-------------------------- MODULE Components_proofs --------------------------
(***************************************************************************)
(* Theorems about the components that MCComponents puts side by side, for  *)
(* every value of their constants.  A component's invariant follows from   *)
(* its own steps: in the steps of the others its variables stay.           *)
(***************************************************************************)
EXTENDS MCComponents, Operators_proofs

LEMMA MCSteps == MCSpec => MCInit /\ [][MCNext]_MCvars
BY PTL DEF MCSpec

-----------------------------------------------------------------------------
(* MemoryManager                                                           *)

LEMMA MemoryConstants ==
    MaxTokens \in Nat /\ TokenCounts \subseteq Nat /\ MaxMessages \in Nat
BY ComponentsAssumption DEF Memory!MemoryAssumption

LEMMA MemoryTokens == \A w : Memory!TokensOf(w) = TokensOf(w)
BY DEF Memory!TokensOf, TokensOf

LEMMA MemoryMessages == \A m \in Memory!Message : m.tokens \in Nat /\ m.id \in Nat
BY DEF Memory!Message

LEMMA BudgetNat == Memory!Budget \in Nat
<1>1. MaxTokens \in Nat BY MemoryConstants
<1> QED BY <1>1 DEF Memory!Budget

(* The loop of flush_to_storage ends, takes no more than it has to, and     *)
(* leaves the budget kept.                                                 *)
LEMMA EvictFacts ==
    ASSUME NEW w \in Seq(Memory!Message), NEW n \in Nat, n = TokensOf(w)
    PROVE  LET k == Memory!EvictCount(w, n)
           IN  /\ k \in 0..Len(w)
               /\ n - TokensOf(SubSeq(w, 1, k)) <= Memory!Budget
               /\ \A j \in 0..Len(w) :
                     j < k => ~ (n - TokensOf(SubSeq(w, 1, j)) <= Memory!Budget)
<1> DEFINE S == {j \in 0..Len(w) : Memory!Fits(n - Memory!TokensOf(SubSeq(w, 1, j)))}
           k == Memory!EvictCount(w, n)
<1>1. \A j \in 0..Len(w) : j \in S <=> n - TokensOf(SubSeq(w, 1, j)) <= Memory!Budget
  BY MemoryTokens DEF Memory!Fits
<1>2. k = Memory!Min(S) BY DEF Memory!EvictCount
<1>3. S \subseteq 0..Len(w) OBVIOUS
<1> HIDE DEF S, k
<1>4. Len(w) \in S
  <2>1. Len(w) \in 0..Len(w) /\ SubSeq(w, 1, Len(w)) = w BY SubSeqFull
  <2>2. n - TokensOf(w) <= Memory!Budget BY BudgetNat
  <2> QED BY <1>1, <2>1, <2>2
<1>5. \E j \in S : \A i \in S : j <= i
  <2>1. S \subseteq Nat /\ S # {} BY <1>3, <1>4
  <2> QED BY <2>1, NatLeast
<1>6. k \in S /\ \A i \in S : k <= i BY <1>2, <1>5 DEF Memory!Min
<1>7. \A j \in 0..Len(w) : j < k => ~ (j \in S)
  <2>1. TAKE j \in 0..Len(w)
  <2>2. k \in Nat /\ j \in Nat BY <1>3, <1>6
  <2> QED BY <1>6, <2>2
<1>8. /\ k \in 0..Len(w)
      /\ n - TokensOf(SubSeq(w, 1, k)) <= Memory!Budget
      /\ \A j \in 0..Len(w) : j < k => ~ (n - TokensOf(SubSeq(w, 1, j)) <= Memory!Budget)
  BY <1>1, <1>3, <1>6, <1>7
<1> QED BY <1>8 DEF k

MemoryRest == Memory!TypeOK /\ Memory!Numbered /\ Memory!MessagesInOnePlace

(* The staged messages are the first ones added. *)
LEMMA StagingNumbers ==
    ASSUME NEW S, NEW s \in Seq(S), NEW a \in Seq(S), NEW w \in Seq(S), s \o a = w,
           \A i \in DOMAIN w : w[i].id = i
    PROVE  {s[i].id : i \in DOMAIN s} = 1..Len(s)
<1>1. /\ Len(s \o a) = Len(s) + Len(a) /\ \A i \in 1..Len(s) : (s \o a)[i] = s[i]
  BY ConcatFacts
<1>2. Len(s) \in Nat /\ Len(a) \in Nat /\ DOMAIN s = 1..Len(s) /\ DOMAIN w = 1..Len(w)
  OBVIOUS
<1>3. \A i \in 1..Len(s) : i \in 1..Len(w) BY <1>1, <1>2
<1>4. \A i \in DOMAIN s : s[i].id = i BY <1>1, <1>2, <1>3
<1> QED BY <1>2, <1>4

LEMMA MemoryStaging ==
    ASSUME MemoryRest PROVE Memory!Staging = 1..Len(staging)
<1>1. /\ staging \in Seq(Memory!Message) /\ active \in Seq(Memory!Message)
      /\ added \in Seq(Memory!Message) /\ staging \o active = added
      /\ \A i \in DOMAIN added : added[i].id = i
  BY DEF MemoryRest, Memory!TypeOK, Memory!Numbered, Memory!MessagesInOnePlace
<1> QED BY ONLY <1>1, StagingNumbers DEF Memory!Staging

(* A message is added with whatever flush it causes, and the flush with     *)
(* whatever INSERT of it fails: the buffers and the table still account for *)
(* every message, and the new one is the last of the window unless it is    *)
(* too large for it.                                                       *)
LEMMA AddMessageKeeps ==
    ASSUME MemoryRest, NEW m \in Memory!Message, m.id = Len(added) + 1, NEW stored,
           Memory!AddMessage(m, stored)
    PROVE  /\ active' \in Seq(Memory!Message) /\ staging' \in Seq(Memory!Message)
           /\ added' \in Seq(Memory!Message) /\ tokens' \in Nat
           /\ rows' \in Seq(Memory!Row) /\ unsaved' \subseteq Nat
           /\ Memory!Numbered' /\ Memory!MessagesInOnePlace'
           /\ Memory!Last(added)' = m
           /\ m.tokens > Memory!Budget
              \/ (active' # <<>> /\ Memory!Last(active)' = m)
<1> DEFINE now  == Append(active, m)
           n    == tokens + m.tokens
           k    == Memory!EvictCount(now, n)
           gone == SubSeq(now, 1, k)
           rest == SubSeq(now, k + 1, Len(now))
           new  == [i \in 1..stored |-> Memory!RowOf(gone[i])]
<1>t. /\ active \in Seq(Memory!Message) /\ staging \in Seq(Memory!Message)
      /\ added \in Seq(Memory!Message) /\ tokens \in Nat
      /\ rows \in Seq(Memory!Row) /\ unsaved \subseteq Nat
      /\ \A i \in DOMAIN added : added[i].id = i
  BY DEF MemoryRest, Memory!TypeOK, Memory!Numbered
<1>m. /\ staging \o active = added /\ tokens = TokensOf(active)
      /\ \A i, j \in DOMAIN rows : i < j => rows[i].id < rows[j].id
      /\ {rows[i].id : i \in DOMAIN rows} \subseteq Memory!Staging
      /\ Memory!Staging \ {rows[i].id : i \in DOMAIN rows} \subseteq unsaved
  BY MemoryTokens DEF MemoryRest, Memory!MessagesInOnePlace
<1>a. /\ added' = Append(added, m) /\ active' = rest
      /\ tokens' = n - TokensOf(gone)
      /\ stored \in 0..k
      /\ staging' = staging \o gone
      /\ rows' = rows \o new
      /\ unsaved' = IF stored = k THEN unsaved
                    ELSE unsaved \cup {g.id : g \in Memory!ToSet(gone)}
  BY MemoryTokens DEF Memory!AddMessage, Memory!Staged
<1>1. now \in Seq(Memory!Message) /\ Len(now) = Len(active) + 1 /\ now[Len(now)] = m
      /\ \A i \in 1..Len(active) : now[i] = active[i]
  BY <1>t
<1>2. n \in Nat /\ n = TokensOf(now)
  <2>1. m.tokens \in Nat BY MemoryMessages
  <2>2. TokensOf(now) = TokensOf(active) + m.tokens BY <1>t, MemoryMessages, TokensOfAppend
  <2> QED BY <1>t, <1>m, <2>1, <2>2
<1>3. /\ k \in 0..Len(now)
      /\ n - TokensOf(gone) <= Memory!Budget
      /\ \A j \in 0..Len(now) : j < k => ~ (n - TokensOf(SubSeq(now, 1, j)) <= Memory!Budget)
  <2> HIDE DEF now, n
  <2> QED BY <1>1, <1>2, EvictFacts
<1> HIDE DEF now, n, k
<1>4. /\ gone \in Seq(Memory!Message) /\ Len(gone) = k
      /\ (\A i \in 1..k : gone[i] = now[i]) /\ gone \o rest = now
  BY <1>1, <1>3, PrefixFacts
<1>5. /\ rest \in Seq(Memory!Message) /\ Len(rest) = Len(now) - k
      /\ \A i \in 1..(Len(now) - k) : rest[i] = now[k + i]
  BY <1>1, <1>3, SuffixFacts
<1> HIDE DEF gone, rest
<1>6. n = TokensOf(gone) + TokensOf(rest) /\ TokensOf(gone) \in Nat /\ TokensOf(rest) \in Nat
  BY <1>2, <1>4, <1>5, MemoryMessages, TokensOfConcat, TokensOfNat
<1>7. tokens' = TokensOf(rest) /\ tokens' \in Nat /\ tokens' <= Memory!Budget
  BY SMTT(40), <1>2, <1>3, <1>6, <1>a
<1>8. staging' \in Seq(Memory!Message) /\ staging' \o active' = added'
      /\ added' \in Seq(Memory!Message)
  <2>1. staging \o gone \in Seq(Memory!Message) BY <1>t, <1>4, ConcatFacts
  <2>2. (staging \o gone) \o rest = staging \o (gone \o rest)
    <3>1. /\ staging \in Seq(Memory!Message) /\ gone \in Seq(Memory!Message)
          /\ rest \in Seq(Memory!Message)
      BY <1>t, <1>4, <1>5
    <3> QED BY ONLY SMTT(40), <3>1, ConcatThree
  <2>3. staging \o Append(active, m) = Append(staging \o active, m)
    BY <1>t, AppendIsConcat
  <2> QED BY <1>t, <1>m, <1>a, <1>4, <2>1, <2>2, <2>3 DEF now
<1>9. Memory!Numbered' /\ Memory!Last(added)' = m
  <2>1. /\ Len(added') = Len(added) + 1 /\ added'[Len(added')] = m
        /\ \A i \in 1..Len(added) : added'[i] = added[i]
    BY <1>t, <1>a
  <2>2. DOMAIN added' = 1..Len(added') /\ DOMAIN added = 1..Len(added) BY <1>t, <1>8
  <2>3. ASSUME NEW i \in DOMAIN added' PROVE added'[i].id = i
    <3>1. CASE i = Len(added') BY <3>1, <2>1
    <3>2. CASE i # Len(added')
      <4>1. i \in 1..Len(added) BY <3>2, <2>1, <2>2, <1>t
      <4> QED BY <4>1, <2>1, <2>2, <1>t
    <3> QED BY <3>1, <3>2
  <2> QED BY <2>1, <2>3 DEF Memory!Numbered, Memory!Last
<1>10. m.tokens > Memory!Budget \/ (active' # <<>> /\ Memory!Last(active)' = m)
  <2>1. CASE k = Len(now)
    <3>1. Len(active) \in 0..Len(now) /\ Len(active) < k BY <2>1, <1>1, <1>t
    <3>2. SubSeq(now, 1, Len(active)) = active
      <4>1. /\ SubSeq(now, 1, Len(active)) \in Seq(Memory!Message)
            /\ Len(SubSeq(now, 1, Len(active))) = Len(active)
            /\ \A i \in 1..Len(active) : SubSeq(now, 1, Len(active))[i] = now[i]
        BY <1>1, <3>1, PrefixFacts
      <4> QED BY <4>1, <1>1, <1>t, SeqEqual
    <3>3. ~ (n - TokensOf(active) <= Memory!Budget) BY <3>1, <3>2, <1>3
    <3>4. n - TokensOf(active) = m.tokens BY <1>t, <1>m, MemoryMessages DEF n
    <3>5. m.tokens \in Nat /\ Memory!Budget \in Nat BY MemoryMessages, BudgetNat
    <3> QED BY <3>3, <3>4, <3>5
  <2>2. CASE k # Len(now)
    <3>1. Len(now) - k \in 1..(Len(now) - k) /\ k + (Len(now) - k) = Len(now)
      BY <2>2, <1>1, <1>3
    <3>2. rest[Len(rest)] = m BY <3>1, <1>1, <1>5
    <3>3. rest # <<>> BY <3>1, <1>5, EmptySeq
    <3> QED BY <3>2, <3>3, <1>a DEF Memory!Last
  <2> QED BY <2>1, <2>2
(* The rows of this flush are numbered on from the staging buffer. *)
<1>11. /\ new \in Seq(Memory!Row) /\ Len(new) = stored
       /\ \A i \in 1..stored : new[i].id = Len(staging) + i
  <2>1. stored \in Nat /\ \A i \in 1..stored : i \in 1..k BY <1>3, <1>a, <1>1
  <2>2. \A i \in 1..k : gone[i].id = Len(staging) + i
    <3>1. TAKE i \in 1..k
    <3>2. staging' \in Seq(Memory!Message) /\ Len(staging') = Len(staging) + k
          /\ staging'[Len(staging) + i] = gone[i]
      <4>1. /\ Len(staging \o gone) = Len(staging) + Len(gone)
            /\ \A j \in 1..Len(gone) : (staging \o gone)[Len(staging) + j] = gone[j]
        <5>1. staging \in Seq(Memory!Message) /\ gone \in Seq(Memory!Message) BY <1>t, <1>4
        <5> QED BY ONLY <5>1, ConcatFacts
      <4> QED BY <1>8, <1>a, <1>4, <4>1
    <3>3. Len(staging) + i \in 1..Len(staging')
      BY <3>2, <1>t, <1>1, <1>3
    <3>4. Len(staging) + i \in 1..Len(added') /\ added'[Len(staging) + i] = gone[i]
      <4>1. active' \in Seq(Memory!Message) BY <1>5, <1>a
      <4>2. /\ Len(staging' \o active') = Len(staging') + Len(active')
            /\ \A j \in 1..Len(staging') : (staging' \o active')[j] = staging'[j]
        BY ZenonT(60), <3>2, <4>1, ConcatFacts
      <4>3. Len(active') \in Nat /\ Len(staging') \in Nat BY <3>2, <4>1
      <4> QED BY <3>2, <3>3, <4>2, <4>3, <1>8
    <3>5. DOMAIN added' = 1..Len(added') BY <1>8
    <3> QED BY <3>4, <3>5, <1>9 DEF Memory!Numbered
  <2>3. \A i \in 1..stored : gone[i] \in Memory!Message /\ gone[i].id \in Nat
    BY <2>1, <1>4, MemoryMessages
  <2>4. \A i \in 1..stored : Memory!RowOf(gone[i]) \in Memory!Row
    BY <2>3 DEF Memory!RowOf, Memory!Row
  <2>5. \A i \in 1..stored : Memory!RowOf(gone[i]).id = gone[i].id BY DEF Memory!RowOf
  <2> QED BY <2>1, <2>2, <2>4, <2>5
<1> HIDE DEF new
<1>12. /\ rows' \in Seq(Memory!Row) /\ Len(rows') = Len(rows) + stored
       /\ \A i \in 1..Len(rows) : rows'[i] = rows[i]
       /\ \A i \in 1..stored : rows'[Len(rows) + i] = new[i]
  <2>1. rows \in Seq(Memory!Row) /\ new \in Seq(Memory!Row) BY <1>t, <1>11
  <2>2. /\ rows \o new \in Seq(Memory!Row) /\ Len(rows \o new) = Len(rows) + Len(new)
        /\ \A i \in 1..Len(rows) : (rows \o new)[i] = rows[i]
        /\ \A i \in 1..Len(new) : (rows \o new)[Len(rows) + i] = new[i]
    BY ONLY <2>1, ConcatFacts
  <2>3. rows' = rows \o new /\ Len(new) = stored BY <1>a, <1>11
  <2> QED BY ONLY <2>2, <2>3
<1>13. Len(rows) \in Nat /\ stored \in Nat /\ Len(staging) \in Nat /\ k \in Nat
       /\ Len(staging') = Len(staging) + k /\ stored <= k
       /\ DOMAIN rows = 1..Len(rows) /\ DOMAIN rows' = 1..Len(rows')
       /\ DOMAIN staging = 1..Len(staging) /\ DOMAIN staging' = 1..Len(staging')
  <2>1. Len(staging') = Len(staging) + k BY <1>t, <1>a, <1>4, ConcatFacts
  <2>2. k \in Nat /\ stored \in Nat /\ stored <= k BY <1>1, <1>3, <1>a
  <2> QED BY <2>1, <2>2, <1>t, <1>8, <1>12
(* Staging holds the numbers of the messages staged. *)
<1>14. Memory!Staging = 1..Len(staging) /\ Memory!Staging' = 1..Len(staging')
  <2>1. Memory!Staging = 1..Len(staging)
    BY <1>t, <1>m, MemoryStaging DEF MemoryRest
  <2>2. Memory!Staging' = 1..Len(staging')
    <3>1. active' \in Seq(Memory!Message) BY <1>5, <1>a
    <3>2. \A i \in DOMAIN added' : added'[i].id = i BY <1>9 DEF Memory!Numbered
    <3> QED BY ONLY <1>8, <3>1, <3>2, StagingNumbers DEF Memory!Staging
  <2> QED BY <2>1, <2>2
<1>15. \A i, j \in DOMAIN rows' : i < j => rows'[i].id < rows'[j].id
  <2>1. ASSUME NEW i \in DOMAIN rows', NEW j \in DOMAIN rows', i < j
        PROVE  rows'[i].id < rows'[j].id
    <3>1. i \in 1..Len(rows') /\ j \in 1..Len(rows') BY <1>13
    <3>2. \A x \in 1..Len(rows) : rows[x].id \in 1..Len(staging)
      BY <1>m, <1>13, <1>14
    <3>3. CASE j <= Len(rows)
      <4>1. i \in DOMAIN rows /\ j \in DOMAIN rows BY <3>1, <3>3, <2>1, <1>13
      <4> QED BY <4>1, <2>1, <1>m, <1>12, <1>13
    <3>4. CASE ~ (j <= Len(rows))
      <4>1. PICK y \in 1..stored : j = Len(rows) + y
        <5>1. j - Len(rows) \in 1..stored /\ j = Len(rows) + (j - Len(rows))
          BY <3>1, <3>4, <1>12, <1>13
        <5> QED BY <5>1
      <4>2. rows'[j].id = Len(staging) + y BY <4>1, <1>11, <1>12
      <4>3. CASE i <= Len(rows)
        <5>1. i \in 1..Len(rows) BY <3>1, <4>3, <1>13
        <5>2. rows'[i].id \in 1..Len(staging) BY <5>1, <3>2, <1>12
        <5> QED BY <4>1, <4>2, <5>2, <1>13
      <4>4. CASE ~ (i <= Len(rows))
        <5>1. PICK x \in 1..stored : i = Len(rows) + x
          <6>1. i - Len(rows) \in 1..stored /\ i = Len(rows) + (i - Len(rows))
            BY <3>1, <4>4, <1>12, <1>13
          <6> QED BY <6>1
        <5>2. rows'[i].id = Len(staging) + x BY <5>1, <1>11, <1>12
        <5>3. x < y BY <2>1, <4>1, <5>1, <1>13
        <5> QED BY <4>1, <4>2, <5>1, <5>2, <5>3, <1>13
      <4> QED BY <4>3, <4>4
    <3> QED BY <3>3, <3>4
  <2> QED BY <2>1
(* Each row is of a staged message, and a message without a row is reported. *)
<1>16. {rows'[i].id : i \in DOMAIN rows'} \subseteq Memory!Staging'
  <2>1. ASSUME NEW i \in DOMAIN rows' PROVE rows'[i].id \in 1..Len(staging')
    <3>1. CASE i <= Len(rows)
      <4>1. i \in DOMAIN rows /\ rows'[i] = rows[i] BY <3>1, <1>12, <1>13
      <4>2. rows[i].id \in 1..Len(staging) BY <4>1, <1>m, <1>14
      <4> QED BY <4>1, <4>2, <1>13
    <3>2. CASE ~ (i <= Len(rows))
      <4>1. i - Len(rows) \in 1..stored /\ i = Len(rows) + (i - Len(rows))
        BY <3>2, <1>12, <1>13
      <4>2. PICK x \in 1..stored : i = Len(rows) + x BY <4>1
      <4>3. rows'[i].id = Len(staging) + x BY <4>2, <1>11, <1>12
      <4> QED BY <4>3, <1>13
    <3> QED BY <3>1, <3>2
  <2> QED BY <2>1, <1>14
<1>17. Memory!Staging' \ {rows'[i].id : i \in DOMAIN rows'} \subseteq unsaved'
  <2>1. ASSUME NEW x \in 1..Len(staging'), \A i \in DOMAIN rows' : rows'[i].id # x
        PROVE  x \in unsaved'
    <3>1. CASE x <= Len(staging)
      <4>1. x \in Memory!Staging BY <3>1, <1>13, <1>14
      <4>2. ASSUME NEW i \in DOMAIN rows, rows[i].id = x PROVE FALSE
        <5>1. i \in DOMAIN rows' /\ rows'[i] = rows[i] BY <1>12, <1>13
        <5> QED BY <5>1, <4>2, <2>1
      <4>3. x \in unsaved BY <4>1, <4>2, <1>m
      <4> QED BY <4>3, <1>a
    <3>2. CASE ~ (x <= Len(staging))
      <4>1. PICK y \in 1..k : x = Len(staging) + y
        <5>1. x - Len(staging) \in 1..k /\ x = Len(staging) + (x - Len(staging))
          BY <3>2, <1>13
        <5> QED BY <5>1
      <4>2. stored # k
        <5> SUFFICES ASSUME stored = k PROVE FALSE OBVIOUS
        <5>1. y \in 1..stored /\ Len(rows) + y \in DOMAIN rows' BY <4>1, <1>12, <1>13
        <5>2. rows'[Len(rows) + y].id = x BY <5>1, <4>1, <1>11, <1>12
        <5> QED BY <5>1, <5>2, <2>1
      <4>3. staging'[x] = gone[y]
        <5>1. /\ Len(staging \o gone) = Len(staging) + Len(gone)
              /\ \A j \in 1..Len(gone) : (staging \o gone)[Len(staging) + j] = gone[j]
          <6>1. staging \in Seq(Memory!Message) /\ gone \in Seq(Memory!Message) BY <1>t, <1>4
          <6> QED BY ONLY <6>1, ConcatFacts
        <5> QED BY <5>1, <4>1, <1>4, <1>a
      <4>4. gone[y].id = x
        <5>1. active' \in Seq(Memory!Message) BY <1>5, <1>a
        <5>2. /\ Len(added') = Len(staging') + Len(active')
              /\ \A j \in 1..Len(staging') : added'[j] = staging'[j]
          BY ONLY <1>8, <5>1, ConcatFacts
        <5>3. x \in 1..Len(added')
          <6>1. Len(active') \in Nat BY <5>1
          <6> QED BY <6>1, <5>2, <1>13
        <5>4. added'[x].id = x BY <5>3, <1>8, <1>9 DEF Memory!Numbered
        <5> QED BY <5>2, <5>4, <4>3
      <4>5. gone[y] \in Memory!ToSet(gone)
        <5>1. DOMAIN gone = 1..k BY <1>4
        <5> QED BY <5>1, <4>1 DEF Memory!ToSet
      <4> QED BY <4>2, <4>4, <4>5, <1>a
    <3> QED BY <3>1, <3>2
  <2> QED BY <2>1, <1>14
<1>18. unsaved' \subseteq Nat
  <2>1. \A g \in Memory!ToSet(gone) : g.id \in Nat
    <3>1. \A i \in DOMAIN gone : gone[i] \in Memory!Message BY <1>4
    <3> QED BY <3>1, MemoryMessages DEF Memory!ToSet
  <2> QED BY <2>1, <1>t, <1>a
<1>19. Memory!MessagesInOnePlace'
  <2>1. staging' \o active' = added' /\ tokens' = TokensOf(active') /\ tokens' <= Memory!Budget
    BY <1>7, <1>8, <1>a
  <2>2. Memory!Budget' = Memory!Budget BY DEF Memory!Budget
  <2> QED BY <2>1, <2>2, <1>15, <1>16, <1>17, MemoryTokens DEF Memory!MessagesInOnePlace
<1>20. active' \in Seq(Memory!Message) BY <1>5, <1>a
<1> QED BY <1>7, <1>8, <1>9, <1>10, <1>12, <1>18, <1>19, <1>20

LEMMA AddKeeps ==
    ASSUME Memory!IInv, NEW role \in {"system", "user", "assistant"}, Memory!Add(role)
    PROVE  /\ active' \in Seq(Memory!Message) /\ staging' \in Seq(Memory!Message)
           /\ added' \in Seq(Memory!Message) /\ tokens' \in Nat
           /\ rows' \in Seq(Memory!Row) /\ unsaved' \subseteq Nat
           /\ Memory!Numbered' /\ Memory!MessagesInOnePlace'
           /\ Memory!Last(added)'.role = role
           /\ Memory!Last(added)'.tokens > Memory!Budget
              \/ (active' # <<>> /\ Memory!Last(active)' = Memory!Last(added)')
<1>1. PICK t \in TokenCounts, stored \in 0..MaxMessages :
         Memory!AddMessage(Memory!NewMessage(role, t), stored)
  BY DEF Memory!Add
<1>2. PICK m : m = Memory!NewMessage(role, t) OBVIOUS
<1>3. m \in Memory!Message /\ m.id = Len(added) + 1 /\ m.role = role
  <2>1. t \in Nat BY MemoryConstants
  <2>2. Len(added) \in Nat BY DEF Memory!IInv, Memory!TypeOK
  <2> QED BY <1>2, <2>1, <2>2 DEF Memory!NewMessage, Memory!Message
<1>4. Memory!AddMessage(m, stored) BY <1>1, <1>2
<1>5. MemoryRest BY DEF MemoryRest, Memory!IInv
<1>6. /\ active' \in Seq(Memory!Message) /\ staging' \in Seq(Memory!Message)
      /\ added' \in Seq(Memory!Message) /\ tokens' \in Nat
      /\ rows' \in Seq(Memory!Row) /\ unsaved' \subseteq Nat
      /\ Memory!Numbered' /\ Memory!MessagesInOnePlace'
      /\ Memory!Last(added)' = m
      /\ m.tokens > Memory!Budget \/ (active' # <<>> /\ Memory!Last(active)' = m)
  BY ONLY <1>3, <1>4, <1>5, AddMessageKeeps
<1> QED BY ONLY <1>3, <1>6

LEMMA MemoryInitIInv == Memory!Init => Memory!IInv
<1> SUFFICES ASSUME Memory!Init PROVE Memory!IInv OBVIOUS
<1>1. /\ active = <<>> /\ staging = <<>> /\ tokens = 0
      /\ rows = <<>> /\ added = <<>> /\ unsaved = {}
      /\ phase = "restoring" /\ left \in 0..MaxMessages
  BY DEF Memory!Init
<1>2. Memory!TypeOK BY <1>1 DEF Memory!TypeOK
<1>3. Memory!Numbered BY <1>1 DEF Memory!Numbered
<1>4. Memory!MessagesInOnePlace
  <2>1. TokensOf(active) = 0 BY <1>1, TokensOfEmpty
  <2>2. 0 <= Memory!Budget BY BudgetNat
  <2>3. staging \o active = added BY <1>1
  <2>4. DOMAIN rows = {} /\ DOMAIN staging = {} BY <1>1
  <2> QED BY <1>1, <2>1, <2>2, <2>3, <2>4, MemoryTokens
          DEF Memory!MessagesInOnePlace, Memory!Staging
<1>5. Memory!AsksTheQuestion BY <1>1 DEF Memory!AsksTheQuestion
<1> QED BY <1>2, <1>3, <1>4, <1>5 DEF Memory!IInv

(* The buffers stay and only the agent moves. *)
LEMMA BuffersStay ==
    ASSUME Memory!IInv, UNCHANGED <<active, staging, tokens, rows, added, unsaved, left>>,
           phase' \in {"restoring", "reading", "asking", "stopped"},
           phase' = "asking" => phase = "asking"
    PROVE  Memory!IInv'
<1>1. Memory!TypeOK' BY DEF Memory!IInv, Memory!TypeOK
<1>2. Memory!Numbered' BY DEF Memory!IInv, Memory!Numbered
<1>3. Memory!MessagesInOnePlace'
  BY ZenonT(60) DEF Memory!IInv, Memory!MessagesInOnePlace, Memory!Staging, Memory!TokensOf, Memory!Budget
<1>4. Memory!AsksTheQuestion'
  BY DEF Memory!IInv, Memory!AsksTheQuestion, Memory!Last, Memory!Budget
<1> QED BY <1>1, <1>2, <1>3, <1>4 DEF Memory!IInv

LEMMA MemoryNextIInv == Memory!IInv /\ (Memory!Next \/ UNCHANGED memoryVars) => Memory!IInv'
<1> SUFFICES ASSUME Memory!IInv, Memory!Next \/ UNCHANGED memoryVars PROVE Memory!IInv'
  OBVIOUS
<1>t. left \in 0..MaxMessages /\ MaxMessages \in Nat
      /\ phase \in {"restoring", "reading", "asking", "stopped"}
  BY MemoryConstants DEF Memory!IInv, Memory!TypeOK
<1>1. ASSUME NEW role \in {"system", "user", "assistant"}, Memory!Add(role),
             left' \in 0..MaxMessages,
             phase' \in {"restoring", "reading", "asking", "stopped"},
             phase' = "asking" => role = "user"
      PROVE  Memory!IInv'
  <2>1. /\ active' \in Seq(Memory!Message) /\ staging' \in Seq(Memory!Message)
        /\ added' \in Seq(Memory!Message) /\ tokens' \in Nat
        /\ rows' \in Seq(Memory!Row) /\ unsaved' \subseteq Nat
        /\ Memory!Numbered' /\ Memory!MessagesInOnePlace'
        /\ Memory!Last(added)'.role = role
        /\ Memory!Last(added)'.tokens > Memory!Budget
              \/ (active' # <<>> /\ Memory!Last(active)' = Memory!Last(added)')
    BY <1>1, AddKeeps
  <2>2. Memory!TypeOK' BY <2>1, <1>1 DEF Memory!TypeOK
  <2>3. Memory!AsksTheQuestion' BY <2>1, <1>1 DEF Memory!AsksTheQuestion, Memory!Budget
  <2> QED BY <2>1, <2>2, <2>3 DEF Memory!IInv
<1>2. CASE Memory!NoSchema
  BY <1>2, BuffersStay DEF Memory!NoSchema, Memory!bufferVars
<1>3. CASE Memory!RestoreOne
  <2>1. /\ \E role \in {"user", "assistant"} : Memory!Add(role)
        /\ left' = (IF Memory!Reported THEN 0 ELSE left - 1) /\ left > 0
        /\ phase' = phase /\ phase = "restoring"
    BY <1>3 DEF Memory!RestoreOne
  <2>2. left' \in 0..MaxMessages BY <2>1, <1>t
  <2> QED BY <2>1, <2>2, <1>1
<1>4. CASE Memory!SeedPrompt
  BY <1>4, <1>1, <1>t DEF Memory!SeedPrompt
<1>5. CASE Memory!ReadLine
  BY <1>5, <1>1, <1>t DEF Memory!ReadLine
<1>6. CASE Memory!NoAnswer
  BY <1>6, BuffersStay DEF Memory!NoAnswer, Memory!bufferVars
<1>7. CASE Memory!Answered
  BY <1>7, <1>1, <1>t DEF Memory!Answered
<1>8. CASE Memory!Quit
  BY <1>8, BuffersStay DEF Memory!Quit, Memory!bufferVars
<1>9. CASE UNCHANGED memoryVars
  BY <1>9, <1>t, BuffersStay DEF memoryVars
<1> QED BY <1>2, <1>3, <1>4, <1>5, <1>6, <1>7, <1>8, <1>9 DEF Memory!Next

LEMMA MemoryInvariance == MCSpec => []Memory!IInv
<1>1. MCInit => Memory!Init BY DEF MCInit, MemoryIdle
<1>2. [MCNext]_MCvars => Memory!Next \/ UNCHANGED memoryVars BY DEF MCNext, MCvars
<1> QED BY <1>1, <1>2, MCSteps, MemoryInitIInv, MemoryNextIInv, PTL

(* Whatever INSERT of a flush fails, every message is in one place, the      *)
(* counter is the active buffer's and within the budget, and a message      *)
(* without its row was reported.                                           *)
THEOREM MessagesAccounted == MCSpec => []MessagesInOnePlace
<1>1. Memory!IInv => MessagesInOnePlace BY DEF Memory!IInv, MessagesInOnePlace
<1> QED BY <1>1, MemoryInvariance, PTL

(* A request ends with the line typed, unless that line alone is too long.  *)
THEOREM QuestionAsked == MCSpec => []AsksTheQuestion
<1>1. Memory!IInv => AsksTheQuestion BY DEF Memory!IInv, AsksTheQuestion
<1> QED BY <1>1, MemoryInvariance, PTL

-----------------------------------------------------------------------------
(* EndpointHealth                                                          *)

LEMMA HealthConstants ==
    /\ kWindowSamples \in Nat \ {0} /\ kSlowLatencyUs \in Nat
    /\ Latencies \subseteq Nat /\ MaxReports \in Nat
BY ComponentsAssumption DEF Health!HealthAssumption

LEMMA HealthTokens == \A w : Health!TokensOf(w) = TokensOf(w)
BY DEF Health!TokensOf, TokensOf

LEMMA HealthCardinality == \A S : Health!Cardinality(S) = Cardinality(S)
BY DEF Health!Cardinality, Cardinality

Amount == [tokens : Latencies]

LEMMA CountsFacts ==
    ASSUME NEW w \in Seq(Health!Entry)
    PROVE  /\ Health!Counts(w) \in Seq(Amount) /\ Len(Health!Counts(w)) = Len(w)
           /\ \A i \in 1..Len(w) : Health!Counts(w)[i] = [tokens |-> w[i].latency_us]
<1>1. DOMAIN w = 1..Len(w) /\ Len(w) \in Nat OBVIOUS
<1>2. \A i \in 1..Len(w) : w[i].latency_us \in Latencies
  <2>1. \A i \in 1..Len(w) : w[i] \in Health!Entry BY <1>1
  <2>2. \A e \in Health!Entry : e.latency_us \in Latencies BY DEF Health!Entry
  <2> QED BY <2>1, <2>2
<1> QED BY <1>1, <1>2 DEF Health!Counts, Amount

LEMMA AmountNat == \A m \in Amount : m.tokens \in Nat
BY HealthConstants DEF Amount

(* A new sample adds its latency; the oldest one takes its own with it.    *)
LEMMA SumAppend ==
    ASSUME NEW w \in Seq(Health!Entry), NEW e \in Health!Entry
    PROVE  Health!SumUs(Append(w, e)) = Health!SumUs(w) + e.latency_us
<1> DEFINE v == Append(w, e)
           a == [tokens |-> e.latency_us]
<1>1. /\ v \in Seq(Health!Entry) /\ Len(v) = Len(w) + 1 /\ v[Len(v)] = e
      /\ \A i \in 1..Len(w) : v[i] = w[i]
  OBVIOUS
<1>2. a \in Amount BY DEF Amount, Health!Entry
<1> HIDE DEF v, a
<1>3. /\ Health!Counts(v) \in Seq(Amount) /\ Len(Health!Counts(v)) = Len(v)
      /\ \A i \in 1..Len(v) : Health!Counts(v)[i] = [tokens |-> v[i].latency_us]
  BY <1>1, CountsFacts
<1>4. /\ Health!Counts(w) \in Seq(Amount) /\ Len(Health!Counts(w)) = Len(w)
      /\ \A i \in 1..Len(w) : Health!Counts(w)[i] = [tokens |-> w[i].latency_us]
  BY CountsFacts
<1> DEFINE d == Append(Health!Counts(w), a)
<1>5. /\ d \in Seq(Amount) /\ Len(d) = Len(w) + 1 /\ d[Len(d)] = a
      /\ \A i \in 1..Len(w) : d[i] = Health!Counts(w)[i]
  BY <1>2, <1>4
<1>6. Health!Counts(v) = d
  <2> HIDE DEF d
  <2>1. Len(w) \in Nat OBVIOUS
  <2>2. ASSUME NEW i \in 1..Len(v) PROVE Health!Counts(v)[i] = d[i]
    <3>1. CASE i = Len(v) BY <3>1, <1>1, <1>3, <1>5 DEF a
    <3>2. CASE i # Len(v)
      <4>1. i \in 1..Len(w) BY <3>2, <1>1, <2>1
      <4> QED BY <4>1, <1>1, <1>3, <1>4, <1>5
    <3> QED BY <3>1, <3>2
  <2> QED BY <2>2, <1>1, <1>3, <1>5, SeqEqual
<1>7. TokensOf(d) = TokensOf(Health!Counts(w)) + a.tokens
  BY <1>2, <1>4, AmountNat, TokensOfAppend
<1>8. a.tokens = e.latency_us BY DEF a
<1> HIDE DEF d
<1> QED BY <1>6, <1>7, <1>8, HealthTokens DEF Health!SumUs, v

LEMMA SumTail ==
    ASSUME NEW w \in Seq(Health!Entry), w # <<>>
    PROVE  Health!SumUs(w) = Health!SumUs(Tail(w)) + Head(w).latency_us
<1> DEFINE v == Tail(w)
<1>1. /\ v \in Seq(Health!Entry) /\ Len(v) = Len(w) - 1 /\ Len(w) \in Nat \ {0}
      /\ \A i \in 1..(Len(w) - 1) : v[i] = w[i + 1]
      /\ Head(w) = w[1]
  OBVIOUS
<1> HIDE DEF v
<1>2. /\ Health!Counts(v) \in Seq(Amount) /\ Len(Health!Counts(v)) = Len(v)
      /\ \A i \in 1..Len(v) : Health!Counts(v)[i] = [tokens |-> v[i].latency_us]
  BY <1>1, CountsFacts
<1> DEFINE c == Health!Counts(w)
           d == RemoveAt(c, 1)
<1>3. /\ c \in Seq(Amount) /\ Len(c) = Len(w)
      /\ \A i \in 1..Len(w) : c[i] = [tokens |-> w[i].latency_us]
  BY CountsFacts
<1> HIDE DEF c
<1>4. 1 \in 1..Len(c) BY <1>1, <1>3
<1>5. /\ d \in Seq(Amount) /\ Len(d) = Len(c) - 1
      /\ \A i \in 1..(Len(c) - 1) : d[i] = IF i < 1 THEN c[i] ELSE c[i + 1]
  BY <1>3, <1>4, RemoveAtFacts
<1>6. TokensOf(c) = TokensOf(d) + c[1].tokens
  BY <1>3, <1>4, AmountNat, TokensOfRemoveAt
<1> HIDE DEF d
<1>7. Health!Counts(v) = d
  <2>1. ASSUME NEW i \in 1..Len(v) PROVE Health!Counts(v)[i] = d[i]
    <3>1. i \in 1..(Len(c) - 1) /\ ~ (i < 1) /\ i + 1 \in 1..Len(w) BY <1>1, <1>3
    <3> QED BY <3>1, <1>1, <1>2, <1>3, <1>5
  <2> QED BY <2>1, <1>1, <1>2, <1>3, <1>5, SeqEqual
<1>8. c[1].tokens = Head(w).latency_us
  <2>1. 1 \in 1..Len(w) BY <1>1
  <2>2. c[1] = [tokens |-> w[1].latency_us] BY <2>1, <1>3
  <2> QED BY <2>2, <1>1
<1> QED BY <1>6, <1>7, <1>8, HealthTokens DEF Health!SumUs, c, v

LEMMA SumNat ==
    ASSUME NEW w \in Seq(Health!Entry) PROVE Health!SumUs(w) \in Nat
<1>1. Health!Counts(w) \in Seq(Amount) BY CountsFacts
<1>2. TokensOf(Health!Counts(w)) \in Nat BY <1>1, AmountNat, TokensOfNat
<1> QED BY <1>2, HealthTokens DEF Health!SumUs

FailedAt(w) == {i \in DOMAIN w : w[i].failed}

LEMMA FailedFinite ==
    ASSUME NEW w \in Seq(Health!Entry)
    PROVE  /\ IsFiniteSet(FailedAt(w)) /\ Cardinality(FailedAt(w)) \in Nat
           /\ Health!Failures(w) = Cardinality(FailedAt(w))
<1>1. Len(w) \in Nat /\ DOMAIN w = 1..Len(w) OBVIOUS
<1>2. IsFiniteSet(1..Len(w)) BY <1>1, FS_Interval
<1>3. FailedAt(w) \subseteq 1..Len(w) BY <1>1 DEF FailedAt
<1>4. IsFiniteSet(FailedAt(w)) BY <1>2, <1>3, FS_Subset
<1>5. Cardinality(FailedAt(w)) \in Nat BY <1>4, FS_CardinalityType
<1> QED BY <1>4, <1>5, HealthCardinality DEF Health!Failures, FailedAt

(* The same for the number of failed samples. *)
LEMMA FailuresAppend ==
    ASSUME NEW w \in Seq(Health!Entry), NEW e \in Health!Entry
    PROVE  Health!Failures(Append(w, e)) = Health!Failures(w) + (IF e.failed THEN 1 ELSE 0)
<1> DEFINE v == Append(w, e)
<1>1. /\ v \in Seq(Health!Entry) /\ Len(v) = Len(w) + 1 /\ v[Len(w) + 1] = e
      /\ \A i \in 1..Len(w) : v[i] = w[i]
      /\ Len(w) \in Nat /\ DOMAIN w = 1..Len(w)
  OBVIOUS
<1> HIDE DEF v
<1>2. DOMAIN v = 1..(Len(w) + 1) BY <1>1
<1>3. FailedAt(v) = FailedAt(w) \cup (IF e.failed THEN {Len(w) + 1} ELSE {})
  <2>1. \A i \in 1..(Len(w) + 1) : i \in 1..Len(w) \/ i = Len(w) + 1 BY <1>1
  <2>2. 1..Len(w) \subseteq 1..(Len(w) + 1) /\ Len(w) + 1 \in 1..(Len(w) + 1) BY <1>1
  <2> QED BY <2>1, <2>2, <1>1, <1>2 DEF FailedAt
<1>4. ~ (Len(w) + 1 \in FailedAt(w)) BY <1>1 DEF FailedAt
<1>5. /\ IsFiniteSet(FailedAt(w)) /\ Cardinality(FailedAt(w)) \in Nat
      /\ Health!Failures(w) = Cardinality(FailedAt(w))
      /\ Health!Failures(v) = Cardinality(FailedAt(v))
  BY <1>1, FailedFinite
<1>6. CASE e.failed
  <2>1. Cardinality(FailedAt(w) \cup {Len(w) + 1}) = Cardinality(FailedAt(w)) + 1
    BY <1>4, <1>5, FS_AddElement
  <2> QED BY <2>1, <1>3, <1>5, <1>6 DEF v
<1>7. CASE ~ e.failed
  <2>1. FailedAt(v) = FailedAt(w) BY <1>3, <1>7
  <2> QED BY <2>1, <1>5, <1>7 DEF v
<1> QED BY <1>6, <1>7

LEMMA FailuresTail ==
    ASSUME NEW w \in Seq(Health!Entry), w # <<>>
    PROVE  Health!Failures(w) = Health!Failures(Tail(w)) + Health!ErrsOf(Head(w))
<1> DEFINE v == Tail(w)
           S == FailedAt(w) \ {1}
           f == [i \in FailedAt(v) |-> i + 1]
<1>1. /\ v \in Seq(Health!Entry) /\ Len(v) = Len(w) - 1 /\ Len(w) \in Nat \ {0}
      /\ \A i \in 1..(Len(w) - 1) : v[i] = w[i + 1]
      /\ Head(w) = w[1] /\ DOMAIN w = 1..Len(w)
  OBVIOUS
<1> HIDE DEF v
<1>2. DOMAIN v = 1..(Len(w) - 1) BY <1>1
<1>3. FailedAt(v) \subseteq 1..(Len(w) - 1) /\ FailedAt(w) \subseteq 1..Len(w)
  BY <1>1, <1>2 DEF FailedAt
<1>4. \A i \in 1..(Len(w) - 1) : i \in FailedAt(v) <=> i + 1 \in FailedAt(w)
  <2>1. \A i \in 1..(Len(w) - 1) : i + 1 \in 1..Len(w) BY <1>1
  <2> QED BY <2>1, <1>1, <1>2 DEF FailedAt
<1>5. f \in Bijection(FailedAt(v), S)
  <2>1. \A i \in FailedAt(v) : i + 1 \in S
    <3>1. \A i \in 1..(Len(w) - 1) : i + 1 # 1 BY <1>1
    <3> QED BY <3>1, <1>3, <1>4
  <2>2. \A i, j \in FailedAt(v) : i + 1 = j + 1 => i = j
    <3>1. \A i, j \in 1..(Len(w) - 1) : i + 1 = j + 1 => i = j BY <1>1
    <3> QED BY <3>1, <1>3
  <2>3. \A j \in S : \E i \in FailedAt(v) : i + 1 = j
    <3>1. TAKE j \in S
    <3>2. j \in 1..Len(w) /\ j # 1 BY <1>3
    <3>3. j - 1 \in 1..(Len(w) - 1) /\ (j - 1) + 1 = j BY <3>2, <1>1
    <3>4. j - 1 \in FailedAt(v) BY <3>3, <1>4
    <3> QED BY <3>3, <3>4
  <2>4. f \in [FailedAt(v) -> S] BY <2>1
  <2>5. \A i, j \in FailedAt(v) : f[i] = f[j] => i = j BY <2>2
  <2>6. \A j \in S : \E i \in FailedAt(v) : f[i] = j BY <2>3
  <2> HIDE DEF f, S
  <2> QED BY ONLY <2>4, <2>5, <2>6 DEF Bijection, Injection, Surjection, IsInjective
<1>6. /\ IsFiniteSet(FailedAt(w)) /\ IsFiniteSet(FailedAt(v))
      /\ Cardinality(FailedAt(w)) \in Nat /\ Cardinality(FailedAt(v)) \in Nat
      /\ Health!Failures(w) = Cardinality(FailedAt(w))
      /\ Health!Failures(v) = Cardinality(FailedAt(v))
  BY <1>1, FailedFinite
<1> HIDE DEF f
<1>7. Cardinality(S) = Cardinality(FailedAt(v))
  <2> HIDE DEF S
  <2>1. ExistsBijection(FailedAt(v), S) BY <1>5 DEF ExistsBijection
  <2> QED BY <1>6, <2>1, FS_Bijection
<1>8. CASE w[1].failed
  <2>1. 1 \in FailedAt(w) BY <1>1, <1>8 DEF FailedAt
  <2>2. Cardinality(S) = Cardinality(FailedAt(w)) - 1 BY <2>1, <1>6, FS_RemoveElement
  <2> HIDE DEF S
  <2> QED BY <2>2, <1>1, <1>6, <1>7, <1>8 DEF v, Health!ErrsOf
<1>9. CASE ~ w[1].failed
  <2>1. S = FailedAt(w) BY <1>9 DEF FailedAt
  <2> HIDE DEF S
  <2> QED BY <2>1, <1>1, <1>6, <1>7, <1>9 DEF v, Health!ErrsOf
<1> QED BY <1>8, <1>9

(* The average, rounded down, tells whether the sum is small enough. *)
LEMMA AverageSlow ==
    ASSUME NEW s \in Nat, NEW n \in Nat \ {0}, NEW k \in Nat
    PROVE  s \div n > k <=> ~ (s < n * (k + 1))
<1> DEFINE q == s \div n
<1>1. q \in Int /\ n * q <= s /\ s < n * (q + 1) OBVIOUS
<1> HIDE DEF q
<1>2. \A a, b \in Int : a <= b => n * a <= n * b OBVIOUS
<1>3. CASE q > k
  <2>1. n * (k + 1) <= n * q BY <1>1, <1>2, <1>3
  <2>2. n * (k + 1) \in Int /\ n * q \in Int BY <1>1
  <2> QED BY <2>1, <2>2, <1>1, <1>3 DEF q
<1>4. CASE ~ (q > k)
  <2>1. n * (q + 1) <= n * (k + 1) BY <1>1, <1>2, <1>4
  <2>2. n * (k + 1) \in Int /\ n * (q + 1) \in Int BY <1>1
  <2> QED BY <2>1, <2>2, <1>1, <1>4 DEF q
<1> QED BY <1>3, <1>4

LEMMA HealthInitIInv == Health!Init => Health!IInv
<1> SUFFICES ASSUME Health!Init PROVE Health!IInv OBVIOUS
<1>i. /\ samples = <<>> /\ sum_us = 0 /\ errs = 0 /\ reports = <<>>
      /\ main = "starting" /\ monitor = "absent"
      /\ started = FALSE /\ stop_requests = FALSE /\ cv_mutex = "free"
  BY DEF Health!Init
<1>1. Health!TypeOK
  <2>1. <<>> \in Seq(Health!Entry) /\ 0 \in Int OBVIOUS
  <2> QED BY ONLY <2>1, <1>i DEF Health!TypeOK
<1>u. Health!StopUnderMutex BY <1>i DEF Health!StopUnderMutex, Health!NotifyNotLost
<1>2. Len(samples) = 0 /\ Len(reports) = 0 /\ DOMAIN samples = {} BY <1>i
<1>3. Len(samples) =
        IF Len(reports) < kWindowSamples THEN Len(reports) ELSE kWindowSamples
  BY <1>2, HealthConstants
<1>4. sum_us = Health!SumUs(samples)
  <2>1. Health!Counts(<<>>) = <<>> BY DEF Health!Counts
  <2> QED BY <1>i, <2>1, HealthTokens, TokensOfEmpty DEF Health!SumUs
<1>5. errs = Health!Failures(samples)
  <2>1. {i \in DOMAIN samples : samples[i].failed} = {} BY <1>2
  <2>2. Health!Failures(samples) = Cardinality({})
    BY <2>1, HealthCardinality DEF Health!Failures
  <2> QED BY <1>i, <2>2, FS_EmptySet
<1> QED BY <1>1, <1>u, <1>2, <1>3, <1>4, <1>5 DEF Health!IInv

(* report(): the window moves on by one sample and the counters with it. *)
LEMMA ReportKeeps ==
    ASSUME Health!IInv, NEW e \in Health!Entry, Health!report(e)
    PROVE  /\ samples' \in Seq(Health!Entry) /\ reports' \in Seq(Health!Entry)
           /\ sum_us' \in Int /\ errs' \in Int
           /\ Len(samples') =
                IF Len(reports') < kWindowSamples THEN Len(reports') ELSE kWindowSamples
           /\ \A i \in DOMAIN samples' :
                samples'[i] = reports'[(Len(reports') - Len(samples')) + i]
           /\ sum_us' = Health!SumUs(samples') /\ errs' = Health!Failures(samples')
<1>t. /\ samples \in Seq(Health!Entry) /\ reports \in Seq(Health!Entry)
      /\ sum_us \in Int /\ errs \in Int
      /\ Len(samples) =
           IF Len(reports) < kWindowSamples THEN Len(reports) ELSE kWindowSamples
      /\ \A i \in DOMAIN samples : samples[i] = reports[(Len(reports) - Len(samples)) + i]
      /\ sum_us = Health!SumUs(samples) /\ errs = Health!Failures(samples)
  BY DEF Health!IInv, Health!TypeOK
<1>c. kWindowSamples \in Nat \ {0} BY HealthConstants
<1> DEFINE over == Len(samples) = kWindowSamples
           kept == IF over THEN Tail(samples) ELSE samples
<1>a. /\ reports' = Append(reports, e)
      /\ samples' = Append(kept, e)
      /\ sum_us' = sum_us + e.latency_us - (IF over THEN Head(samples).latency_us ELSE 0)
      /\ errs' = errs + (IF e.failed THEN 1 ELSE 0)
                 - (IF over THEN Health!ErrsOf(Head(samples)) ELSE 0)
  BY DEF Health!report
<1>n. Len(samples) \in Nat /\ Len(reports) \in Nat /\ DOMAIN samples = 1..Len(samples)
  BY <1>t
<1>1. /\ kept \in Seq(Health!Entry)
      /\ Len(kept) = Len(samples) - (IF over THEN 1 ELSE 0)
      /\ \A i \in 1..Len(kept) : kept[i] = samples[i + (IF over THEN 1 ELSE 0)]
  <2>1. CASE over
    <3>1. samples # <<>> BY <2>1, <1>c
    <3>2. /\ Tail(samples) \in Seq(Health!Entry) /\ Len(Tail(samples)) = Len(samples) - 1
          /\ \A i \in 1..(Len(samples) - 1) : Tail(samples)[i] = samples[i + 1]
      BY <3>1, <1>t
    <3> QED BY <3>2, <2>1
  <2>2. CASE ~ over
    <3>1. \A i \in 1..Len(samples) : i + 0 = i BY <1>n
    <3> QED BY <2>2, <3>1, <1>t, <1>n
  <2> QED BY <2>1, <2>2
<1>2. Health!SumUs(kept) = sum_us - (IF over THEN Head(samples).latency_us ELSE 0)
      /\ Health!Failures(kept) = errs - (IF over THEN Health!ErrsOf(Head(samples)) ELSE 0)
  <2>1. CASE over
    <3>1. samples # <<>> BY <2>1, <1>c
    <3>2. /\ Health!SumUs(samples) = Health!SumUs(Tail(samples)) + Head(samples).latency_us
          /\ Health!Failures(samples)
               = Health!Failures(Tail(samples)) + Health!ErrsOf(Head(samples))
      BY <3>1, <1>t, SumTail, FailuresTail
    <3>3. /\ Health!SumUs(Tail(samples)) \in Nat /\ Health!Failures(Tail(samples)) \in Nat
      <4>1. Tail(samples) \in Seq(Health!Entry) BY <3>1, <1>t
      <4> QED BY <4>1, SumNat, FailedFinite
    <3>4. Head(samples).latency_us \in Nat /\ Health!ErrsOf(Head(samples)) \in Nat
      <4>1. Head(samples) \in Health!Entry BY <3>1, <1>t
      <4> QED BY <4>1, HealthConstants DEF Health!Entry, Health!ErrsOf
    <3> QED BY SMTT(40), <3>2, <3>3, <3>4, <2>1, <1>t
  <2>2. CASE ~ over BY <2>2, <1>t
  <2> QED BY <2>1, <2>2
<1> HIDE DEF kept
<1>3. /\ samples' \in Seq(Health!Entry) /\ Len(samples') = Len(kept) + 1
      /\ samples'[Len(samples')] = e /\ \A i \in 1..Len(kept) : samples'[i] = kept[i]
      /\ reports' \in Seq(Health!Entry) /\ Len(reports') = Len(reports) + 1
      /\ reports'[Len(reports')] = e /\ \A i \in 1..Len(reports) : reports'[i] = reports[i]
  BY SMTT(40), <1>1, <1>a, <1>t
<1>4. Health!SumUs(samples') = Health!SumUs(kept) + e.latency_us
      /\ Health!Failures(samples') = Health!Failures(kept) + (IF e.failed THEN 1 ELSE 0)
  BY <1>1, <1>a, SumAppend, FailuresAppend
<1>5. e.latency_us \in Nat /\ (IF e.failed THEN 1 ELSE 0) \in Nat
  BY HealthConstants DEF Health!Entry
<1>6. over => Head(samples).latency_us \in Nat /\ Health!ErrsOf(Head(samples)) \in Nat
  <2> SUFFICES ASSUME over
      PROVE Head(samples).latency_us \in Nat /\ Health!ErrsOf(Head(samples)) \in Nat
    OBVIOUS
  <2>1. samples # <<>> BY <1>c
  <2>2. Head(samples) \in Health!Entry BY <2>1, <1>t
  <2> QED BY <2>2, HealthConstants DEF Health!Entry, Health!ErrsOf
<1>7. sum_us' = Health!SumUs(samples') /\ sum_us' \in Int
  <2>1. (IF over THEN Head(samples).latency_us ELSE 0) \in Int BY <1>6
  <2> QED BY ONLY <2>1, <1>2, <1>4, <1>5, <1>a, <1>t
<1>8. errs' = Health!Failures(samples') /\ errs' \in Int
  <2>1. (IF over THEN Health!ErrsOf(Head(samples)) ELSE 0) \in Int BY <1>6
  <2> QED BY ONLY <2>1, <1>2, <1>4, <1>5, <1>a, <1>t
<1>9. /\ Len(samples') =
           IF Len(reports') < kWindowSamples THEN Len(reports') ELSE kWindowSamples
      /\ Len(samples') = Len(kept) + 1 /\ Len(samples') <= Len(reports')
  <2>1. Len(samples') = Len(kept) + 1 /\ Len(reports') = Len(reports) + 1 BY <1>3
  <2>2. Len(kept) = Len(samples) - (IF over THEN 1 ELSE 0) BY <1>1
  <2>3. Len(samples) =
          IF Len(reports) < kWindowSamples THEN Len(reports) ELSE kWindowSamples
    BY <1>t
  <2>4. Len(samples) \in Nat /\ Len(reports) \in Nat BY <1>n
  <2>5. CASE Len(reports) < kWindowSamples
    <3>1. Len(samples) = Len(reports) /\ ~ over BY ONLY <2>3, <2>4, <2>5, <1>c
    <3>2. Len(kept) = Len(samples) BY <3>1, <2>2, <2>4
    <3>3. Len(samples') = Len(reports') /\ Len(reports') <= kWindowSamples
      BY ONLY <3>1, <3>2, <2>1, <2>4, <2>5, <1>c
    <3> QED BY ONLY <3>3, <2>1, <2>4, <1>c
  <2>6. CASE ~ (Len(reports) < kWindowSamples)
    <3>1. Len(samples) = kWindowSamples /\ over BY ONLY <2>3, <2>4, <2>6, <1>c
    <3>2. Len(kept) = Len(samples) - 1 BY <3>1, <2>2
    <3> QED BY ONLY <3>1, <3>2, <2>1, <2>4, <2>6, <1>c
  <2> QED BY <2>5, <2>6
<1>10. ASSUME NEW i \in DOMAIN samples'
       PROVE  samples'[i] = reports'[(Len(reports') - Len(samples')) + i]
  <2>0. i \in 1..Len(samples') /\ Len(kept) \in Nat BY <1>1, <1>3
  <2>1. CASE i = Len(samples')
    <3>1. (Len(reports') - Len(samples')) + i = Len(reports') BY <2>1, <1>3, <1>n, <2>0
    <3> QED BY <3>1, <2>1, <1>3
  <2>2. CASE i # Len(samples')
    <3> DEFINE o == IF over THEN 1 ELSE 0
               j == (Len(reports) - Len(samples)) + (i + o)
    <3>1. i \in 1..Len(kept) /\ i \in Nat BY <2>2, <2>0, <1>3
    <3>2. samples'[i] = samples[i + o] BY <3>1, <1>1, <1>3
    <3>3. o \in {0, 1} /\ Len(kept) = Len(samples) - o BY <1>1
    <3> HIDE DEF o
    <3>4. i + o \in 1..Len(samples) BY <3>1, <3>3, <1>n
    <3>5. samples[i + o] = reports[j] BY <3>4, <1>t, <1>n
    <3>6. j \in 1..Len(reports) /\ j = (Len(reports') - Len(samples')) + i
      <4>1. Len(samples) =
              IF Len(reports) < kWindowSamples THEN Len(reports) ELSE kWindowSamples
        BY <1>t
      <4>2. Len(samples) \in Nat /\ Len(reports) \in Nat BY <1>n
      <4>3. Len(samples) <= Len(reports) BY ONLY <4>1, <4>2, <1>c
      <4>4. Len(samples') = Len(kept) + 1 /\ Len(reports') = Len(reports) + 1 BY <1>3
      <4> QED BY ONLY SMTT(40), <4>2, <4>3, <4>4, <3>1, <3>3, <3>4 DEF j
    <3> HIDE DEF j
    <3>7. reports'[j] = reports[j] BY <3>6, <1>3
    <3> QED BY <3>2, <3>5, <3>6, <3>7
  <2> QED BY <2>1, <2>2
<1> QED BY <1>3, <1>7, <1>8, <1>9, <1>10

(* The window stays and only the threads move. *)
LEMMA WindowStays ==
    ASSUME Health!IInv, UNCHANGED Health!window, Health!TypeOK', Health!StopUnderMutex'
    PROVE  Health!IInv'
<1>1. /\ samples' = samples /\ sum_us' = sum_us /\ errs' = errs /\ reports' = reports
  BY DEF Health!window
<1> QED BY <1>1 DEF Health!IInv, Health!SumUs, Health!Counts, Health!TokensOf, Health!Failures

(* The flag is set, and the monitor falls asleep, under the mutex. *)
LEMMA StopStays ==
    ASSUME Health!TypeOK, Health!StopUnderMutex, Health!Next \/ UNCHANGED healthVars
    PROVE  Health!StopUnderMutex'
<1> USE DEF Health!StopUnderMutex, Health!NotifyNotLost, Health!TypeOK
<1>1. CASE Health!Start BY <1>1 DEF Health!Start
<1>2. CASE Health!Request BY <1>2 DEF Health!Request, Health!threads
<1>3. CASE Health!Stop BY <1>3 DEF Health!Stop, Health!MayStop
<1>4. CASE Health!Notify BY <1>4 DEF Health!Notify
<1>5. CASE Health!Join BY <1>5 DEF Health!Join
<1>6. CASE Health!Test BY <1>6 DEF Health!Test
<1>7. CASE Health!Sleep BY <1>7 DEF Health!Sleep
<1>8. CASE Health!Wake BY <1>8 DEF Health!Wake
<1>9. CASE Health!Round BY <1>9 DEF Health!Round
<1>10. CASE Health!Probed BY <1>10 DEF Health!Probed
<1>11. CASE Health!Timeout BY <1>11 DEF Health!Timeout
<1>12. CASE UNCHANGED healthVars BY <1>12 DEF healthVars
<1> QED BY <1>1, <1>2, <1>3, <1>4, <1>5, <1>6, <1>7, <1>8, <1>9, <1>10, <1>11, <1>12
        DEF Health!Next, Health!MonitorStep

LEMMA HealthNextIInv == Health!IInv /\ (Health!Next \/ UNCHANGED healthVars) => Health!IInv'
<1> SUFFICES ASSUME Health!IInv, Health!Next \/ UNCHANGED healthVars PROVE Health!IInv'
  OBVIOUS
<1>t. Health!TypeOK BY DEF Health!IInv
<1>u. Health!StopUnderMutex'
  <2>1. Health!StopUnderMutex BY DEF Health!IInv
  <2> QED BY <2>1, <1>t, StopStays
<1>1. CASE UNCHANGED Health!window
  <2>1. Health!TypeOK'
    <3>1. CASE Health!Start BY <1>1, <1>t, <3>1 DEF Health!TypeOK, Health!Start, Health!window
    <3>2. CASE Health!Request
      BY <1>1, <1>t, <3>2 DEF Health!TypeOK, Health!Request, Health!window, Health!threads
    <3>3. CASE Health!Stop
      BY <1>1, <1>t, <3>3 DEF Health!TypeOK, Health!Stop, Health!window
    <3>4. CASE Health!Notify
      BY <1>1, <1>t, <3>4 DEF Health!TypeOK, Health!Notify, Health!window
    <3>5. CASE Health!Join
      BY <1>1, <1>t, <3>5 DEF Health!TypeOK, Health!Join, Health!window
    <3>6. CASE Health!MonitorStep
      BY <1>1, <1>t, <3>6
      DEF Health!TypeOK, Health!MonitorStep, Health!Test, Health!Sleep, Health!Wake,
          Health!Round, Health!Probed, Health!window
    <3>7. CASE Health!Timeout
      BY <1>1, <1>t, <3>7 DEF Health!TypeOK, Health!Timeout, Health!window
    <3>8. CASE UNCHANGED healthVars BY <1>t, <3>8 DEF Health!TypeOK, healthVars
    <3> QED BY <3>1, <3>2, <3>3, <3>4, <3>5, <3>6, <3>7, <3>8 DEF Health!Next
  <2> QED BY <1>1, <1>u, <2>1, WindowStays
<1>2. CASE \E e \in Health!Entry : Health!report(e)
  <2>1. PICK e \in Health!Entry : Health!report(e) BY <1>2
  <2>2. /\ samples' \in Seq(Health!Entry) /\ reports' \in Seq(Health!Entry)
        /\ sum_us' \in Int /\ errs' \in Int
        /\ Len(samples') =
             IF Len(reports') < kWindowSamples THEN Len(reports') ELSE kWindowSamples
        /\ \A i \in DOMAIN samples' :
             samples'[i] = reports'[(Len(reports') - Len(samples')) + i]
        /\ sum_us' = Health!SumUs(samples') /\ errs' = Health!Failures(samples')
    BY <2>1, ReportKeeps
  <2>3. reports' # reports
    <3>1. reports' = Append(reports, e) BY <2>1 DEF Health!report
    <3>2. reports \in Seq(Health!Entry) BY <1>t DEF Health!TypeOK
    <3>3. Len(reports') = Len(reports) + 1 /\ Len(reports) \in Nat BY <3>1, <3>2
    <3> QED BY <3>3
  <2>4. /\ main' = main /\ started' = started /\ stop_requests' = stop_requests
        /\ cv_mutex' = cv_mutex /\ monitor' \in {monitor, "testing"}
    BY <2>3
    DEF Health!Next, Health!Start, Health!Request, Health!Stop, Health!Notify, Health!Join,
        Health!MonitorStep, Health!Test, Health!Sleep, Health!Wake, Health!Round,
        Health!Probed, Health!Timeout, Health!window, Health!threads, healthVars
  <2>5. Health!TypeOK' BY <2>2, <2>4, <1>t DEF Health!TypeOK
  <2> QED
    <3>1. Health!SumUs(samples)' = Health!SumUs(samples')
      BY DEF Health!SumUs, Health!Counts, Health!TokensOf
    <3>2. Health!Failures(samples)' = Health!Failures(samples') BY DEF Health!Failures
    <3> QED BY <2>2, <2>5, <3>1, <3>2, <1>u DEF Health!IInv
<1>3. UNCHANGED Health!window \/ \E e \in Health!Entry : Health!report(e)
  BY DEF Health!Next, Health!Start, Health!Request, Health!Stop, Health!Notify, Health!Join,
         Health!MonitorStep, Health!Test, Health!Sleep, Health!Wake, Health!Round,
         Health!Probed, Health!Timeout, Health!window, healthVars
<1> QED BY <1>1, <1>2, <1>3

LEMMA HealthInvariance == MCSpec => []Health!IInv
<1>1. MCInit => Health!Init BY DEF MCInit
<1>2. [MCNext]_MCvars => Health!Next \/ UNCHANGED healthVars BY DEF MCNext, MCvars
<1> QED BY <1>1, <1>2, MCSteps, HealthInitIInv, HealthNextIInv, PTL

(* Whichever threads report, in whatever order, the counters kept             *)
(* incrementally are those of the last kWindowSamples samples, and the        *)
(* status says of them what its thresholds mean.                             *)
THEOREM StatusTellsRecent == MCSpec => []WindowTellsRecent
<1>1. Health!IInv => WindowTellsRecent
  <2> SUFFICES ASSUME Health!IInv PROVE WindowTellsRecent OBVIOUS
  <2> DEFINE n == IF Len(reports) < kWindowSamples THEN Len(reports) ELSE kWindowSamples
             recent == SubSeq(reports, Len(reports) - n + 1, Len(reports))
  <2>t. /\ samples \in Seq(Health!Entry) /\ reports \in Seq(Health!Entry)
        /\ sum_us \in Int /\ errs \in Int /\ Len(samples) = n
        /\ \A i \in DOMAIN samples : samples[i] = reports[(Len(reports) - Len(samples)) + i]
        /\ sum_us = Health!SumUs(samples) /\ errs = Health!Failures(samples)
    BY DEF Health!IInv, Health!TypeOK
  <2>c. kWindowSamples \in Nat \ {0} /\ kSlowLatencyUs \in Nat BY HealthConstants
  <2>n. n \in Nat /\ n <= Len(reports) /\ Len(reports) \in Nat /\ (n = 0 <=> samples = <<>>)
    <3>1. Len(reports) \in Nat /\ Len(samples) \in Nat /\ (Len(samples) = 0 <=> samples = <<>>)
      BY <2>t, EmptySeq
    <3>2. Len(samples) = n BY <2>t
    <3>3. n <= Len(reports) BY <3>1, <2>c
    <3> HIDE DEF n
    <3> QED BY ONLY <3>1, <3>2, <3>3
  <2> HIDE DEF n
  <2>1. samples = recent
    <3> DEFINE k == Len(reports) - n
    <3>1. k \in 0..Len(reports) /\ Len(reports) - k = n BY <2>n
    <3> HIDE DEF k
    <3>2. /\ SubSeq(reports, k + 1, Len(reports)) \in Seq(Health!Entry)
          /\ Len(SubSeq(reports, k + 1, Len(reports))) = n
          /\ \A i \in 1..n : SubSeq(reports, k + 1, Len(reports))[i] = reports[k + i]
      BY <2>t, <3>1, SuffixFacts
    <3>3. recent = SubSeq(reports, k + 1, Len(reports)) BY DEF k
    <3>4. \A i \in 1..n : samples[i] = reports[k + i]
      BY <2>t DEF k
    <3> HIDE DEF recent
    <3> QED BY <2>t, <3>2, <3>3, <3>4, SeqEqual
  <2> HIDE DEF recent
  <2>2. errs \in Nat /\ sum_us \in Nat BY <2>t, SumNat, FailedFinite
  <2>3. (Health!status = "Unhealthy") = (n > 0 /\ 2 * errs >= n)
    <3>1. CASE n = 0 BY <3>1, <2>n DEF Health!status
    <3>2. CASE n # 0
      <4>1. n > 0 BY <3>2, <2>n
      <4> QED BY <4>1, <3>2, <2>n, <2>t DEF Health!status
    <3> QED BY <3>1, <3>2
  <2>4. (Health!status = "Healthy")
          = (errs = 0 /\ (n = 0 \/ sum_us < n * (kSlowLatencyUs + 1)))
    <3>1. CASE n = 0
      <4>1. Health!Failures(<<>>) = 0
        <5>1. DOMAIN samples = {} BY <3>1, <2>t
        <5>2. {i \in DOMAIN samples : samples[i].failed} = {} BY <5>1
        <5> QED BY <3>1, <2>n, <5>2, HealthCardinality, FS_EmptySet DEF Health!Failures
      <4>2. errs = 0 BY <3>1, <4>1, <2>n, <2>t
      <4> QED BY <3>1, <4>2, <2>n DEF Health!status
    <3>2. CASE n # 0
      <4>1. sum_us \div n > kSlowLatencyUs <=> ~ (sum_us < n * (kSlowLatencyUs + 1))
        BY <3>2, <2>2, <2>c, <2>n, AverageSlow
      <4>2. CASE 2 * errs >= n
        <5>1. errs # 0 BY <4>2, <3>2, <2>n, <2>2
        <5> QED BY <5>1, <4>2, <3>2, <2>n, <2>t DEF Health!status
      <4>3. CASE ~ (2 * errs >= n) /\ errs # 0
        <5>1. errs > 0 BY <4>3, <2>2
        <5> QED BY <5>1, <4>3, <3>2, <2>n, <2>t DEF Health!status
      <4>4. CASE ~ (2 * errs >= n) /\ errs = 0
        <5>1. ~ (errs > 0) BY <4>4
        <5>2. (Health!status = "Healthy") = ~ (sum_us \div n > kSlowLatencyUs)
          BY <5>1, <4>4, <3>2, <2>n, <2>t DEF Health!status
        <5> QED BY ONLY <5>2, <4>1, <4>4, <3>2
      <4> QED BY <4>2, <4>3, <4>4
    <3> QED BY <3>1, <3>2
  <2> QED BY <2>1, <2>t, <2>3, <2>4
        DEF WindowTellsRecent, Health!WindowTellsRecent, n, recent
<1> QED BY <1>1, HealthInvariance, PTL

(* stop() never joins a monitor that sleeps until its interval has passed.   *)
THEOREM StopIsNoticed == MCSpec => []Health!NotifyNotLost
<1>1. Health!IInv => Health!NotifyNotLost BY DEF Health!IInv, Health!StopUnderMutex
<1> QED BY <1>1, HealthInvariance, PTL

-----------------------------------------------------------------------------
(* Ledger                                                                  *)

LEMMA LedgerConstants == Main \in Threads /\ MaxRows \in Nat /\ MaxSessions \in Nat
BY ComponentsAssumption DEF Ledgers!LedgerAssumption

LEMMA RowFacts ==
    ASSUME NEW r \in Nat, NEW t \in Threads
    PROVE  /\ Ledgers!Row(r, t) \in Seq(Ledgers!Units) /\ Len(Ledgers!Row(r, t)) = 2
           /\ Ledgers!Row(r, t)[1] = Ledgers!Unit(r, t, 1)
           /\ Ledgers!Row(r, t)[2] = Ledgers!Unit(r, t, 2)
           /\ \A p \in {1, 2} : Ledgers!Unit(r, t, p) \in Ledgers!Units
           /\ \A p \in {1, 2} : /\ Ledgers!Unit(r, t, p).row = r
                                /\ Ledgers!Unit(r, t, p).by = t
                                /\ Ledgers!Unit(r, t, p).part = p
<1>1. \A p \in {1, 2} : Ledgers!Unit(r, t, p) \in Ledgers!Units
  BY DEF Ledgers!Unit, Ledgers!Units
<1>2. \A p \in {1, 2} : /\ Ledgers!Unit(r, t, p).row = r
                        /\ Ledgers!Unit(r, t, p).by = t
                        /\ Ledgers!Unit(r, t, p).part = p
  BY DEF Ledgers!Unit
<1>3. /\ Ledgers!Row(r, t) \in Seq(Ledgers!Units) /\ Len(Ledgers!Row(r, t)) = 2
      /\ Ledgers!Row(r, t)[1] = Ledgers!Unit(r, t, 1)
      /\ Ledgers!Row(r, t)[2] = Ledgers!Unit(r, t, 2)
  <2>1. Ledgers!Unit(r, t, 1) \in Ledgers!Units /\ Ledgers!Unit(r, t, 2) \in Ledgers!Units
    BY <1>1
  <2> QED BY ONLY <2>1 DEF Ledgers!Row
<1> QED BY <1>1, <1>2, <1>3

(* What a thread has still to write: units of one row, in order. *)
LEMMA UnwrittenFacts ==
    ASSUME Ledgers!TypeOK, NEW t \in Threads, Ledgers!Unwritten(t)
    PROVE  \E r \in 0..recorded :
             /\ \A i \in 1..Len(todo[t]) : todo[t][i].row = r /\ todo[t][i].by = t
             /\ \A i, j \in 1..Len(todo[t]) :
                  i < j => Ledgers!Before(todo[t][i], todo[t][j])
             /\ Len(todo[t]) \in 0..2
             /\ Len(todo[t]) = 1 => todo[t] = <<Ledgers!Unit(r, t, 2)>>
             /\ Len(todo[t]) = 2 => todo[t] = Ledgers!Row(r, t)
             /\ todo[t] # <<>> => /\ r = 0 => t = Main /\ session = "header"
                                  /\ r # 0 => session = "open"
<1>1. PICK r \in 0..recorded :
        /\ todo[t] \in {<<>>, Ledgers!Row(r, t), <<Ledgers!Unit(r, t, 2)>>}
        /\ todo[t] # <<>> => /\ r = 0 => t = Main /\ session = "header"
                             /\ r # 0 => session = "open"
  BY DEF Ledgers!Unwritten
<1>2. r \in Nat BY DEF Ledgers!TypeOK
<1>3. /\ Len(Ledgers!Row(r, t)) = 2
      /\ Ledgers!Row(r, t)[1] = Ledgers!Unit(r, t, 1)
      /\ Ledgers!Row(r, t)[2] = Ledgers!Unit(r, t, 2)
      /\ \A p \in {1, 2} : /\ Ledgers!Unit(r, t, p).row = r
                           /\ Ledgers!Unit(r, t, p).by = t
                           /\ Ledgers!Unit(r, t, p).part = p
  BY <1>2, RowFacts
<1>4. CASE todo[t] = <<>>
  <2>1. Len(todo[t]) = 0 BY <1>4
  <2> QED BY <2>1, <1>1
<1>5. CASE todo[t] = <<Ledgers!Unit(r, t, 2)>>
  <2>1. Len(todo[t]) = 1 /\ todo[t][1] = Ledgers!Unit(r, t, 2) BY <1>5
  <2>2. \A i \in 1..Len(todo[t]) : i = 1 BY <2>1
  <2> QED BY <2>1, <2>2, <1>1, <1>3, <1>5
<1>6. CASE todo[t] = Ledgers!Row(r, t)
  <2>6. Len(todo[t]) = 2 BY <1>3, <1>6
  <2>1. \A i \in 1..Len(todo[t]) : i = 1 \/ i = 2 BY ONLY <2>6
  <2>2. \A i \in 1..Len(todo[t]) : todo[t][i].row = r /\ todo[t][i].by = t
    BY <2>1, <1>3, <1>6
  <2>3. Ledgers!Before(todo[t][1], todo[t][2])
    BY <1>3, <1>6 DEF Ledgers!Before
  <2>4. \A i, j \in 1..Len(todo[t]) : i < j => i = 1 /\ j = 2 BY ONLY <2>6
  <2>5. \A i, j \in 1..Len(todo[t]) : i < j => Ledgers!Before(todo[t][i], todo[t][j])
    BY <2>3, <2>4
  <2> QED BY <2>2, <2>5, <2>6, <1>1, <1>6
<1> QED BY <1>1, <1>4, <1>5, <1>6

(* A whole row after whole rows. *)
LEMMA WholeThenRow ==
    ASSUME NEW w \in Seq(Ledgers!Units), Ledgers!Whole(w), NEW r \in Nat, NEW t \in Threads,
           w # <<>> \/ (r = 0 /\ t = Main)
    PROVE  /\ Ledgers!Whole(w \o Ledgers!Row(r, t))
           /\ w \o Ledgers!Row(r, t) \in Seq(Ledgers!Units)
           /\ w \o Ledgers!Row(r, t) # <<>>
           /\ Len(w \o Ledgers!Row(r, t)) % 2 = 0
<1> DEFINE row == Ledgers!Row(r, t)
           v   == w \o row
<1>1. /\ row \in Seq(Ledgers!Units) /\ Len(row) = 2
      /\ row[1] = Ledgers!Unit(r, t, 1) /\ row[2] = Ledgers!Unit(r, t, 2)
      /\ \A p \in {1, 2} : /\ Ledgers!Unit(r, t, p).row = r
                           /\ Ledgers!Unit(r, t, p).by = t
                           /\ Ledgers!Unit(r, t, p).part = p
  BY RowFacts
<1> HIDE DEF row
<1>2. /\ v \in Seq(Ledgers!Units) /\ Len(v) = Len(w) + 2
      /\ \A i \in 1..Len(w) : v[i] = w[i]
      /\ v[Len(w) + 1] = row[1] /\ v[Len(w) + 2] = row[2]
  <2>1. /\ v \in Seq(Ledgers!Units) /\ Len(v) = Len(w) + Len(row)
        /\ \A i \in 1..Len(w) : v[i] = w[i]
        /\ \A i \in 1..Len(row) : v[Len(w) + i] = row[i]
    <3>1. w \in Seq(Ledgers!Units) /\ row \in Seq(Ledgers!Units) BY <1>1
    <3> QED BY ONLY <3>1, ConcatFacts
  <2>2. 1 \in 1..Len(row) /\ 2 \in 1..Len(row) BY <1>1
  <2> HIDE DEF v
  <2> QED BY <2>1, <2>2, <1>1
<1> HIDE DEF v
<1>3. Len(w) \in Nat /\ Len(w) % 2 = 0 /\ DOMAIN w = 1..Len(w) /\ DOMAIN v = 1..Len(v)
  BY <1>2 DEF Ledgers!Whole
<1>4. Len(v) % 2 = 0 BY <1>2, <1>3
<1>5. v # <<>> BY <1>2, <1>3, EmptySeq
<1>6. v[1] = Ledgers!Unit(0, Main, 1)
  <2>1. CASE w # <<>>
    <3>1. 1 \in 1..Len(w) BY <2>1, <1>3, EmptySeq
    <3> QED BY <3>1, <2>1, <1>2 DEF Ledgers!Whole
  <2>2. CASE w = <<>>
    <3>1. Len(w) + 1 = 1 BY <2>2
    <3> QED BY <3>1, <2>2, <1>1, <1>2
  <2> QED BY <2>1, <2>2
<1>7. ASSUME NEW i \in DOMAIN v, i % 2 = 1
      PROVE  v[i].part = 1 /\ v[i + 1] = Ledgers!Unit(v[i].row, v[i].by, 2)
  <2>1. CASE i <= Len(w)
    <3>1. i \in 1..Len(w) /\ i + 1 \in 1..Len(w) BY <2>1, <1>2, <1>3, <1>7
    <3>2. w[i].part = 1 /\ w[i + 1] = Ledgers!Unit(w[i].row, w[i].by, 2)
      BY <3>1, <1>3, <1>7 DEF Ledgers!Whole
    <3> QED BY <3>1, <3>2, <1>2
  <2>2. CASE i > Len(w)
    <3>1. i = Len(w) + 1 /\ i + 1 = Len(w) + 2 BY <2>2, <1>2, <1>3, <1>7
    <3> QED BY <3>1, <1>1, <1>2
  <2> QED BY <2>1, <2>2, <1>2, <1>3
<1>8. Ledgers!Whole(v) BY <1>4, <1>6, <1>7 DEF Ledgers!Whole
<1> QED BY <1>2, <1>4, <1>5, <1>8 DEF v, row

(* An even number of first units of whole rows are whole rows. *)
LEMMA WholePrefix ==
    ASSUME NEW w \in Seq(Ledgers!Units), NEW u \in Seq(Ledgers!Units),
           Ledgers!Whole(w \o u), Len(w) % 2 = 0
    PROVE  Ledgers!Whole(w)
<1>1. /\ w \o u \in Seq(Ledgers!Units) /\ Len(w \o u) = Len(w) + Len(u)
      /\ \A i \in 1..Len(w) : (w \o u)[i] = w[i]
  BY ConcatFacts
<1>2. /\ Len(w) \in Nat /\ Len(u) \in Nat /\ DOMAIN w = 1..Len(w)
      /\ DOMAIN (w \o u) = 1..Len(w \o u)
  BY <1>1
<1>3. ASSUME w # <<>> PROVE w[1] = Ledgers!Unit(0, Main, 1)
  <2>1. 1 \in 1..Len(w) BY <1>2, <1>3, EmptySeq
  <2>2. w \o u # <<>>
    <3>1. Len(w \o u) # 0 BY <2>1, <1>1, <1>2
    <3> QED BY <3>1
  <2> QED BY <2>1, <2>2, <1>1 DEF Ledgers!Whole
<1>4. ASSUME NEW i \in DOMAIN w, i % 2 = 1
      PROVE  w[i].part = 1 /\ w[i + 1] = Ledgers!Unit(w[i].row, w[i].by, 2)
  <2>1. i \in 1..Len(w) /\ i + 1 \in 1..Len(w) /\ i \in 1..Len(w \o u) BY <1>1, <1>2, <1>4
  <2>2. /\ (w \o u)[i].part = 1
        /\ (w \o u)[i + 1] = Ledgers!Unit((w \o u)[i].row, (w \o u)[i].by, 2)
    BY <2>1, <1>2, <1>4 DEF Ledgers!Whole
  <2> QED BY <2>1, <2>2, <1>1
<1> QED BY <1>3, <1>4 DEF Ledgers!Whole

LEMMA LedgerInitIInv == Ledgers!Init => Ledgers!IInv
<1> SUFFICES ASSUME Ledgers!Init PROVE Ledgers!IInv OBVIOUS
<1>i. /\ kind \in {"timing", "usage"} /\ file = <<>>
      /\ todo = [t \in Threads |-> <<>>]
      /\ session = "off" /\ sessions = 0 /\ recorded = 0 /\ harmed = FALSE
  BY DEF Ledgers!Init
<1>1. Ledgers!TypeOK
  <2>1. <<>> \in Seq(Ledgers!Units) OBVIOUS
  <2> QED BY ONLY <2>1, <1>i DEF Ledgers!TypeOK
<1>2. \A t \in Threads : todo[t] = <<>> BY <1>i
<1>3. \A t \in Threads : Ledgers!Unwritten(t)
  <2>1. 0 \in 0..recorded BY <1>i
  <2> QED BY <2>1, <1>2 DEF Ledgers!Unwritten
<1>4. DOMAIN file = {} /\ \A t \in Threads : DOMAIN todo[t] = {} BY <1>i, <1>2
<1>5. Ledgers!InOrder BY <1>3, <1>4 DEF Ledgers!InOrder
<1>6. Ledgers!HeaderOnTop BY <1>4, <1>i DEF Ledgers!HeaderOnTop
<1>7. Ledgers!Unharmed
  <2>1. todo[Main] = <<>> /\ file = <<>> BY <1>i, <1>2, LedgerConstants
  <2>2. file \o todo[Main] = <<>> BY <2>1
  <2>3. Ledgers!Whole(<<>>)
    <3>1. DOMAIN <<>> = {} /\ Len(<<>>) % 2 = 0 OBVIOUS
    <3> QED BY <3>1 DEF Ledgers!Whole
  <2>4. Len(file) % 2 = 0 /\ \A t \in Threads : Len(todo[t]) # 1
    <3>1. Len(<<>>) = 0 /\ Len(<<>>) % 2 = 0 OBVIOUS
    <3>2. Len(file) % 2 = 0 BY <3>1, <2>1
    <3>3. \A t \in Threads : Len(todo[t]) = 0 BY <3>1, <1>2
    <3>4. \A t \in Threads : Len(todo[t]) # 1 BY ONLY <3>3
    <3> QED BY <3>2, <3>4
  <2> QED BY <2>2, <2>3, <2>4, <1>i DEF Ledgers!Unharmed
<1> QED BY <1>1, <1>2, <1>5, <1>6, <1>7 DEF Ledgers!IInv

(* Nothing new in the file or to be written. *)
LEMMA LedgerStays ==
    ASSUME Ledgers!IInv, Ledgers!TypeOK', kind' = kind, file' = file, recorded' = recorded,
           \A t \in Threads : todo'[t] \in {todo[t], <<>>},
           harmed \/ (\E t \in Threads : todo'[t] # todo[t]) => harmed',
           \A t \in Threads : todo'[t] # <<>> => session' = session,
           session' = "header" => session = "header",
           session' = "open" => session = "open" \/ harmed' \/ file # <<>>
    PROVE  Ledgers!IInv'
<1>t. /\ file \in Seq(Ledgers!Units) /\ todo \in [Threads -> Seq(Ledgers!Units)]
      /\ recorded \in Nat /\ Main \in Threads
  BY LedgerConstants DEF Ledgers!IInv, Ledgers!TypeOK
<1>1. Ledgers!InOrder'
  <2>1. ASSUME NEW t \in Threads PROVE Ledgers!Unwritten(t)'
    <3>1. Ledgers!Unwritten(t) BY DEF Ledgers!IInv, Ledgers!InOrder
    <3>2. CASE todo'[t] = <<>>
      <4>1. 0 \in 0..recorded' BY <1>t
      <4> QED BY <4>1, <3>2 DEF Ledgers!Unwritten
    <3>3. CASE todo'[t] # <<>>
      <4>1. todo'[t] = todo[t] /\ session' = session BY <3>3
      <4> QED BY <4>1, <3>1 DEF Ledgers!Unwritten, Ledgers!Row, Ledgers!Unit
    <3> QED BY <3>2, <3>3
  <2>2. \A t \in Threads : \/ DOMAIN todo'[t] = DOMAIN todo[t] /\ todo'[t] = todo[t]
                           \/ DOMAIN todo'[t] = {}
    <3>1. DOMAIN <<>> = {} OBVIOUS
    <3> QED BY <3>1
  <2>3. \A t \in Threads : \A i \in DOMAIN file, j \in DOMAIN todo'[t] :
           file[i].by = t => Ledgers!Before(file[i], todo'[t][j])
    BY <2>2 DEF Ledgers!IInv, Ledgers!InOrder
  <2> QED BY <2>1, <2>3 DEF Ledgers!IInv, Ledgers!InOrder, Ledgers!Before
<1>2. Ledgers!HeaderOnTop'
  <2>1. ASSUME session' = "header"
        PROVE  \A i \in DOMAIN todo'[Main] : todo'[Main][i].part = Len(file) + i
    <3>1. CASE todo'[Main] = <<>>
      <4>1. DOMAIN todo'[Main] = {} BY <3>1
      <4> QED BY <4>1
    <3>2. CASE todo'[Main] = todo[Main]
      BY <2>1, <3>2 DEF Ledgers!IInv, Ledgers!HeaderOnTop
    <3> QED BY <3>1, <3>2, <1>t
  <2> QED BY <2>1 DEF Ledgers!IInv, Ledgers!HeaderOnTop
<1>3. Ledgers!Unharmed'
  <2> SUFFICES ASSUME ~ harmed' PROVE Ledgers!Unharmed' BY DEF Ledgers!Unharmed
  <2>1. ~ harmed /\ \A t \in Threads : todo'[t] = todo[t] OBVIOUS
  <2>2. todo' = todo
    <3>1. todo' \in [Threads -> Seq(Ledgers!Units)] BY DEF Ledgers!TypeOK
    <3> QED BY <3>1, <2>1, <1>t
  <2>3. session' = "header" => session = "header" OBVIOUS
  <2>4. session' = "open" => file # <<>> BY <2>1 DEF Ledgers!IInv, Ledgers!Unharmed
  <2> QED BY <2>1, <2>2, <2>3, <2>4
          DEF Ledgers!IInv, Ledgers!Unharmed, Ledgers!Whole, Ledgers!Unit
<1>4. kind' = "usage" => \A t \in Threads \ {Main} : todo'[t] = <<>>
  BY DEF Ledgers!IInv
<1> QED BY <1>1, <1>2, <1>3, <1>4 DEF Ledgers!IInv

(* Between sessions nothing is left to write, and while the header is        *)
(* written the main thread alone writes.                                   *)
LEMMA NothingUnwritten ==
    ASSUME Ledgers!TypeOK, NEW t \in Threads, Ledgers!Unwritten(t)
    PROVE  /\ session \in {"off", "failed"} => todo[t] = <<>>
           /\ session = "header" /\ t # Main => todo[t] = <<>>
<1>1. PICK r \in 0..recorded :
        todo[t] # <<>> => /\ r = 0 => t = Main /\ session = "header"
                          /\ r # 0 => session = "open"
  BY DEF Ledgers!Unwritten
<1> QED BY <1>1

(* The constructor puts a header into an empty file. *)
LEMMA OpenKeeps == Ledgers!IInv /\ Ledgers!Open => Ledgers!IInv'
<1> SUFFICES ASSUME Ledgers!IInv, Ledgers!Open PROVE Ledgers!IInv' OBVIOUS
<1>t. /\ file \in Seq(Ledgers!Units) /\ todo \in [Threads -> Seq(Ledgers!Units)]
      /\ recorded \in Nat /\ Main \in Threads /\ sessions \in Nat
  BY LedgerConstants DEF Ledgers!IInv, Ledgers!TypeOK
<1>a. /\ session = "off" /\ sessions' = sessions + 1
      /\ kind' = kind /\ file' = file /\ recorded' = recorded /\ harmed' = harmed
      /\ \/ session' = "failed" /\ todo' = todo
         \/ session' = "header"
            /\ todo' = IF file = <<>> THEN [todo EXCEPT ![Main] = Ledgers!Header] ELSE todo
  BY DEF Ledgers!Open, Ledgers!NeedsHeader
<1>e. \A t \in Threads : todo[t] = <<>>
  BY <1>a, NothingUnwritten DEF Ledgers!IInv, Ledgers!InOrder
<1>h. /\ Ledgers!Header \in Seq(Ledgers!Units) /\ Len(Ledgers!Header) = 2
      /\ Ledgers!Header[1] = Ledgers!Unit(0, Main, 1)
      /\ Ledgers!Header[2] = Ledgers!Unit(0, Main, 2)
      /\ \A p \in {1, 2} : Ledgers!Unit(0, Main, p).part = p
  BY <1>t, RowFacts DEF Ledgers!Header
<1>1. Ledgers!TypeOK' BY <1>a, <1>h, <1>t DEF Ledgers!IInv, Ledgers!TypeOK
<1>2. CASE todo' = todo
  <2>1. ASSUME session' = "header" PROVE file # <<>>
    <3> SUFFICES ASSUME file = <<>> PROVE FALSE OBVIOUS
    <3>1. todo[Main] = Ledgers!Header BY <1>2, <1>a, <1>t, <2>1
    <3> QED BY SMTT(40), <3>1, <1>e, <1>h, <1>t, EmptySeq
  <2>2. Ledgers!InOrder'
    <3>1. \A t \in Threads : Ledgers!Unwritten(t)'
      <4>1. 0 \in 0..recorded' BY <1>a, <1>t
      <4> QED BY <4>1, <1>2, <1>e DEF Ledgers!Unwritten
    <3> QED BY <3>1, <1>2, <1>a DEF Ledgers!IInv, Ledgers!InOrder, Ledgers!Before
  <2>3. Ledgers!HeaderOnTop'
    <3>1. DOMAIN todo'[Main] = {} BY <1>2, <1>e, <1>t
    <3> QED BY <3>1, <1>a DEF Ledgers!IInv, Ledgers!HeaderOnTop
  <2>4. Ledgers!Unharmed'
    BY <2>1, <1>2, <1>a DEF Ledgers!IInv, Ledgers!Unharmed, Ledgers!Whole, Ledgers!Unit
  <2> QED BY <1>1, <1>2, <2>2, <2>3, <2>4, <1>a DEF Ledgers!IInv
<1>3. CASE todo' # todo
  <2>1. /\ session' = "header" /\ file = <<>> /\ file' = <<>>
        /\ todo' = [todo EXCEPT ![Main] = Ledgers!Header]
    BY <1>3, <1>a
  <2>2. /\ todo'[Main] = Ledgers!Header /\ \A t \in Threads \ {Main} : todo'[t] = <<>>
    BY <2>1, <1>e, <1>t
  <2>3. DOMAIN file = {} BY <2>1
  <2>4. Ledgers!InOrder'
    <3>1. ASSUME NEW t \in Threads PROVE Ledgers!Unwritten(t)'
      <4>1. 0 \in 0..recorded' BY <1>a, <1>t
      <4>2. todo'[t] \in {<<>>, Ledgers!Row(0, t), <<Ledgers!Unit(0, t, 2)>>}
            /\ (todo'[t] # <<>> => t = Main)
        BY <2>2 DEF Ledgers!Header
      <4> QED BY <4>1, <4>2, <2>1 DEF Ledgers!Unwritten, Ledgers!Row, Ledgers!Unit
    <3> QED BY <3>1, <2>3, <2>1 DEF Ledgers!InOrder
  <2>5. Ledgers!HeaderOnTop'
    <3>1. Len(file') = 0 /\ DOMAIN todo'[Main] = 1..2 BY <2>1, <2>2, <1>h
    <3>2. \A i \in 1..2 : i = 1 \/ i = 2 OBVIOUS
    <3>3. \A i \in 1..2 : todo'[Main][i].part = i BY <3>2, <2>2, <1>h
    <3>4. \A i \in 1..2 : i = 0 + i OBVIOUS
    <3> QED BY <3>1, <3>3, <3>4, <2>1, <2>3 DEF Ledgers!HeaderOnTop
  <2>6. Ledgers!Unharmed'
    <3>1. Ledgers!Whole(file \o Ledgers!Row(0, Main))
      <4>1. <<>> \in Seq(Ledgers!Units) /\ DOMAIN <<>> = {} /\ Len(<<>>) % 2 = 0 OBVIOUS
      <4>2. Ledgers!Whole(<<>>) BY <4>1 DEF Ledgers!Whole
      <4> QED BY <4>1, <4>2, <2>1, <1>t, WholeThenRow
    <3>2. Ledgers!Whole(file' \o todo'[Main]) BY <3>1, <2>1, <2>2 DEF Ledgers!Header
    <3>3. todo'[Main] # <<>> BY <2>2, <1>h, EmptySeq
    <3>4. Len(file') % 2 = 0 BY <2>1
    <3>5. \A t \in Threads : Len(todo'[t]) # 1
      <4>1. \A t \in Threads : Len(todo'[t]) = 2 \/ Len(todo'[t]) = 0 BY <2>2, <1>h
      <4> QED BY <4>1
    <3> QED BY <3>2, <3>3, <3>4, <3>5, <2>1 DEF Ledgers!Unharmed, Ledgers!Whole, Ledgers!Unit
  <2> QED BY <1>1, <2>2, <2>4, <2>5, <2>6 DEF Ledgers!IInv
<1> QED BY <1>2, <1>3

(* record(): the row is numbered on, so it comes after all in the file. *)
LEMMA RecordKeeps ==
    ASSUME Ledgers!IInv, NEW t \in Threads, Ledgers!Record(t) PROVE Ledgers!IInv'
<1> DEFINE r == recorded + 1
           row == Ledgers!Row(r, t)
<1>t. /\ file \in Seq(Ledgers!Units) /\ todo \in [Threads -> Seq(Ledgers!Units)]
      /\ recorded \in Nat /\ Main \in Threads
  BY LedgerConstants DEF Ledgers!IInv, Ledgers!TypeOK
<1>a. /\ session = "open" /\ session' = session /\ todo[t] = <<>>
      /\ (kind = "usage" => t = Main)
      /\ recorded' = r /\ todo' = [todo EXCEPT ![t] = row]
      /\ kind' = kind /\ file' = file /\ sessions' = sessions /\ harmed' = harmed
  BY DEF Ledgers!Record
<1>r. r \in Nat /\ r # 0 /\ r \in 0..recorded' /\ recorded < r BY <1>a, <1>t
<1>h. /\ row \in Seq(Ledgers!Units) /\ Len(row) = 2
      /\ row[1] = Ledgers!Unit(r, t, 1) /\ row[2] = Ledgers!Unit(r, t, 2)
      /\ \A p \in {1, 2} : Ledgers!Unit(r, t, p).row = r
  <2> HIDE DEF r
  <2> QED BY <1>r, RowFacts
<1>w. /\ todo'[t] = row /\ \A s \in Threads \ {t} : todo'[s] = todo[s]
  BY <1>a, <1>t
<1> HIDE DEF r
<1>1. Ledgers!TypeOK' BY <1>a, <1>h, <1>t, <1>r DEF Ledgers!IInv, Ledgers!TypeOK
<1>2. Ledgers!InOrder'
  <2>0. Ledgers!InOrder BY DEF Ledgers!IInv
  <2>1. ASSUME NEW s \in Threads PROVE Ledgers!Unwritten(s)'
    <3>1. CASE s = t
      BY <3>1, <1>r, <1>w, <1>a DEF Ledgers!Unwritten, Ledgers!Row, Ledgers!Unit
    <3>2. CASE s # t
      <4>1. PICK q \in 0..recorded :
              /\ todo[s] \in {<<>>, Ledgers!Row(q, s), <<Ledgers!Unit(q, s, 2)>>}
              /\ todo[s] # <<>> => /\ q = 0 => s = Main /\ session = "header"
                                   /\ q # 0 => session = "open"
        BY <2>0 DEF Ledgers!InOrder, Ledgers!Unwritten
      <4>2. q \in 0..recorded'
        <5>1. recorded' = recorded + 1 BY <1>a DEF r
        <5> QED BY <5>1, <1>t
      <4>3. todo'[s] = todo[s] /\ session' = session BY <3>2, <1>w, <1>a
      <4> QED BY <4>1, <4>2, <4>3 DEF Ledgers!Unwritten, Ledgers!Row, Ledgers!Unit
    <3> QED BY <3>1, <3>2
  <2>2. \A i \in DOMAIN file' : file'[i].row <= recorded'
    <3>1. ASSUME NEW i \in DOMAIN file PROVE file[i].row <= recorded'
      <4>1. file[i].row <= recorded BY <2>0 DEF Ledgers!InOrder
      <4>2. file[i].row \in Nat
        <5>1. file[i] \in Ledgers!Units BY <1>t
        <5> QED BY <5>1 DEF Ledgers!Units
      <4>3. recorded' \in Nat /\ recorded < recorded' BY <1>a, <1>r
      <4> QED BY ONLY <4>1, <4>2, <4>3, <1>t
    <3> QED BY <3>1, <1>a
  <2>3. \A i, j \in DOMAIN file' :
           i < j /\ file'[i].by = file'[j].by => Ledgers!Before(file'[i], file'[j])
    BY <2>0, <1>a DEF Ledgers!InOrder
  <2>4. ASSUME NEW s \in Threads, NEW i \in DOMAIN file', NEW j \in DOMAIN todo'[s],
               file'[i].by = s
        PROVE  Ledgers!Before(file'[i], todo'[s][j])
    <3>1. CASE s = t
      <4>1. j \in 1..2 BY <3>1, <1>w, <1>h
      <4>2. todo'[s][j].row = r BY <4>1, <3>1, <1>w, <1>h
      <4>3. file[i].row <= recorded /\ file[i].row \in Nat
        <5>1. file[i] \in Ledgers!Units BY <1>a, <1>t
        <5> QED BY <5>1, <2>0, <1>a DEF Ledgers!InOrder, Ledgers!Units
      <4>4. file[i].row < r BY ONLY <4>3, <1>r, <1>t
      <4> QED BY <4>2, <4>4, <1>a DEF Ledgers!Before
    <3>2. CASE s # t
      <4>1. todo'[s] = todo[s] BY <3>2, <1>w
      <4> QED BY <4>1, <2>0, <2>4, <1>a DEF Ledgers!InOrder
    <3> QED BY <3>1, <3>2
  <2> QED BY <2>1, <2>2, <2>3, <2>4 DEF Ledgers!InOrder, Ledgers!Before
<1>3. Ledgers!HeaderOnTop'
  BY <1>a DEF Ledgers!IInv, Ledgers!HeaderOnTop
<1>4. Ledgers!Unharmed'
  <2> SUFFICES ASSUME ~ harmed' PROVE Ledgers!Unharmed' BY DEF Ledgers!Unharmed
  <2>0. /\ Ledgers!Whole(file \o todo[Main]) /\ file # <<>>
        /\ kind = "timing" =>
             /\ Len(file) % 2 = 0
             /\ \A s \in Threads : Len(todo[s]) # 1
    BY <1>a DEF Ledgers!IInv, Ledgers!Unharmed
  <2>1. Ledgers!Whole(file \o todo'[Main])
    <3>1. CASE t = Main
      <4>1. file \o todo[Main] = file BY <3>1, <1>a, <1>t
      <4>2. Ledgers!Whole(file \o Ledgers!Row(r, t))
        BY <4>1, <2>0, <1>r, <1>t, WholeThenRow
      <4> QED BY <4>2, <3>1, <1>w
    <3>2. CASE t # Main BY <3>2, <2>0, <1>w, <1>t
    <3> QED BY <3>1, <3>2
  <2>2. \A s \in Threads : Len(todo[s]) # 1 => Len(todo'[s]) # 1
    <3>1. Len(todo'[t]) # 1 BY <1>w, <1>h
    <3> QED BY <3>1, <1>w
  <2> QED BY <2>0, <2>1, <2>2, <1>a DEF Ledgers!Unharmed, Ledgers!Whole, Ledgers!Unit
<1>5. kind' = "usage" => \A s \in Threads \ {Main} : todo'[s] = <<>>
  BY <1>a, <1>w DEF Ledgers!IInv
<1> QED BY <1>1, <1>2, <1>3, <1>4, <1>5 DEF Ledgers!IInv

(* write(): the units taken are the next ones of the thread's row, at the    *)
(* end of the file, whatever other threads have begun.                     *)
LEMMA WriteOrder ==
    ASSUME Ledgers!IInv, NEW t \in Threads, NEW n \in 1..Len(todo[t]),
           file' = file \o SubSeq(todo[t], 1, n),
           todo' = [todo EXCEPT ![t] = SubSeq(todo[t], n + 1, Len(todo[t]))],
           kind' = kind, session' = session, recorded' = recorded
    PROVE  /\ file' \in Seq(Ledgers!Units) /\ todo' \in [Threads -> Seq(Ledgers!Units)]
           /\ Ledgers!InOrder' /\ Ledgers!HeaderOnTop'
<1> DEFINE p == SubSeq(todo[t], 1, n)
           q == SubSeq(todo[t], n + 1, Len(todo[t]))
<1>t. /\ file \in Seq(Ledgers!Units) /\ todo \in [Threads -> Seq(Ledgers!Units)]
      /\ recorded \in Nat /\ Main \in Threads /\ todo[t] \in Seq(Ledgers!Units)
  BY LedgerConstants DEF Ledgers!IInv, Ledgers!TypeOK
<1>o. Ledgers!InOrder /\ Ledgers!HeaderOnTop /\ Ledgers!TypeOK BY DEF Ledgers!IInv
<1>n. n \in Nat /\ Len(todo[t]) \in Nat /\ n <= Len(todo[t]) /\ Len(file) \in Nat /\ 1 <= n
      /\ n \in 0..Len(todo[t]) /\ DOMAIN file = 1..Len(file)
      /\ DOMAIN todo[t] = 1..Len(todo[t])
  BY <1>t
<1>u. PICK r \in 0..recorded :
        /\ \A i \in 1..Len(todo[t]) : todo[t][i].row = r /\ todo[t][i].by = t
        /\ \A i, j \in 1..Len(todo[t]) :
             i < j => Ledgers!Before(todo[t][i], todo[t][j])
        /\ Len(todo[t]) \in 0..2
        /\ Len(todo[t]) = 1 => todo[t] = <<Ledgers!Unit(r, t, 2)>>
        /\ Len(todo[t]) = 2 => todo[t] = Ledgers!Row(r, t)
        /\ todo[t] # <<>> => /\ r = 0 => t = Main /\ session = "header"
                             /\ r # 0 => session = "open"
  <2>1. Ledgers!Unwritten(t) BY <1>o DEF Ledgers!InOrder
  <2> QED BY <2>1, <1>o, UnwrittenFacts
<1>p. p \in Seq(Ledgers!Units) /\ Len(p) = n /\ \A i \in 1..n : p[i] = todo[t][i]
  BY SMTT(40), <1>t, <1>n, PrefixFacts
<1>q. /\ q \in Seq(Ledgers!Units) /\ Len(q) = Len(todo[t]) - n
      /\ \A i \in 1..(Len(todo[t]) - n) : q[i] = todo[t][n + i]
  BY <1>t, <1>n, SuffixFacts
<1>a. file' = file \o p /\ todo' = [todo EXCEPT ![t] = q] OBVIOUS
<1> HIDE DEF p, q
<1>f. /\ file' \in Seq(Ledgers!Units) /\ Len(file') = Len(file) + n
      /\ \A i \in 1..Len(file) : file'[i] = file[i]
      /\ \A i \in 1..n : file'[Len(file) + i] = todo[t][i]
  <2>1. file \in Seq(Ledgers!Units) /\ p \in Seq(Ledgers!Units) BY <1>t, <1>p
  <2>2. /\ file \o p \in Seq(Ledgers!Units) /\ Len(file \o p) = Len(file) + Len(p)
        /\ \A i \in 1..Len(file) : (file \o p)[i] = file[i]
        /\ \A i \in 1..Len(p) : (file \o p)[Len(file) + i] = p[i]
    BY ONLY <2>1, ConcatFacts
  <2> QED BY <2>2, <1>p, <1>a
<1>w. /\ todo' \in [Threads -> Seq(Ledgers!Units)]
      /\ todo'[t] = q /\ \A s \in Threads \ {t} : todo'[s] = todo[s]
  BY <1>a, <1>q, <1>t
<1>d. DOMAIN file' = 1..(Len(file) + n) /\ DOMAIN q = 1..(Len(todo[t]) - n)
  BY <1>f, <1>q
<1>x. \A i \in DOMAIN file' :
         \/ i \in 1..Len(file) /\ file'[i] = file[i]
         \/ \E k \in 1..n : i = Len(file) + k /\ file'[i] = todo[t][k]
  <2>1. TAKE i \in DOMAIN file'
  <2>2. CASE i <= Len(file)
    <3>1. i \in 1..Len(file) BY <2>2, <1>d, <1>n
    <3> QED BY <3>1, <1>f
  <2>3. CASE i > Len(file)
    <3>1. i - Len(file) \in 1..n /\ i = Len(file) + (i - Len(file)) BY <2>3, <1>d, <1>n
    <3> QED BY <3>1, <1>f
  <2> QED BY SMTT(40), <2>2, <2>3, <1>d, <1>n
<1>y. \A k \in 1..n : k \in 1..Len(todo[t]) /\ todo[t][k].row = r /\ todo[t][k].by = t
  <2>1. \A k \in 1..n : k \in 1..Len(todo[t]) BY ONLY <1>n
  <2> QED BY <2>1, <1>u
<1>z. \A j \in 1..(Len(todo[t]) - n) : n + j \in 1..Len(todo[t]) /\ n < n + j
  BY ONLY <1>n
<1>ne. todo[t] # <<>> BY <1>n, EmptySeq
<1>1. Ledgers!InOrder'
  <2>1. ASSUME NEW s \in Threads PROVE Ledgers!Unwritten(s)'
    <3>1. CASE s = t
      <4>1. CASE Len(q) = 0
        <5>1. todo'[s] = <<>> BY <4>1, <3>1, <1>w, <1>q, EmptySeq
        <5>2. 0 \in 0..recorded' BY <1>t
        <5> QED BY <5>1, <5>2 DEF Ledgers!Unwritten
      <4>2. CASE Len(q) # 0
        <5>1. Len(todo[t]) = 2 /\ n = 1 /\ Len(q) = 1
          <6>1. Len(q) = Len(todo[t]) - n BY <1>q
          <6>2. Len(todo[t]) \in 0..2 BY <1>u
          <6>3. n \in Nat /\ Len(todo[t]) \in Nat /\ n <= Len(todo[t]) /\ 1 <= n BY <1>n
          <6>4. Len(todo[t]) <= 2
            <7>1. \A l \in 0..2 : l <= 2 OBVIOUS
            <7> QED BY ONLY <7>1, <6>2, Zenon
          <6>5. \A l, m \in Nat : 1 <= m /\ m <= l /\ l <= 2 /\ l - m # 0
                                => l = 2 /\ m = 1 /\ l - m = 1
            OBVIOUS
          <6> QED BY ONLY <6>1, <6>3, <6>4, <6>5, <4>2
        <5>2. q[1] = todo[t][2] BY <5>1, <1>q
        <5>3. todo[t][2] = Ledgers!Unit(r, t, 2)
          <6>1. r \in Nat BY <1>t
          <6> QED BY <6>1, <5>1, <1>u, RowFacts
        <5>4. q = <<Ledgers!Unit(r, t, 2)>>
          <6>1. q = <<q[1]>> BY <5>1, <1>q
          <6> QED BY <6>1, <5>2, <5>3
        <5> QED BY <5>4, <3>1, <1>w, <1>u, <1>ne
                DEF Ledgers!Unwritten, Ledgers!Row, Ledgers!Unit
      <4> QED BY <4>1, <4>2
    <3>2. CASE s # t
      <4>1. Ledgers!Unwritten(s) BY <1>o DEF Ledgers!InOrder
      <4>2. todo'[s] = todo[s] BY <3>2, <1>w
      <4> QED BY <4>1, <4>2 DEF Ledgers!Unwritten, Ledgers!Row, Ledgers!Unit
    <3> QED BY <3>1, <3>2
  <2>2. ASSUME NEW i \in DOMAIN file' PROVE file'[i].row <= recorded'
    <3>1. r <= recorded BY <1>t
    <3>2. CASE i \in 1..Len(file) /\ file'[i] = file[i]
      BY <3>2, <1>o, <1>n DEF Ledgers!InOrder
    <3>3. CASE \E k \in 1..n : i = Len(file) + k /\ file'[i] = todo[t][k]
      BY <3>1, <3>3, <1>y
    <3> QED BY <3>2, <3>3, <1>x
  <2>3. ASSUME NEW i \in DOMAIN file', NEW j \in DOMAIN file', i < j,
               file'[i].by = file'[j].by
        PROVE  Ledgers!Before(file'[i], file'[j])
    <3>1. CASE j \in 1..Len(file) /\ file'[j] = file[j]
      <4>1. i \in 1..Len(file) BY <2>3, <3>1, <1>d, <1>n
      <4>2. file'[i] = file[i] BY <4>1, <1>f
      <4> QED BY <4>1, <4>2, <3>1, <2>3, <1>o, <1>n DEF Ledgers!InOrder
    <3>2. CASE \E k \in 1..n : j = Len(file) + k /\ file'[j] = todo[t][k]
      <4>1. PICK k \in 1..n : j = Len(file) + k /\ file'[j] = todo[t][k] BY <3>2
      <4>2. file'[j].by = t /\ k \in DOMAIN todo[t] BY <4>1, <1>y, <1>n
      <4>3. CASE i \in 1..Len(file) /\ file'[i] = file[i]
        <5>1. i \in DOMAIN file /\ file[i].by = t BY <4>2, <4>3, <2>3, <1>n
        <5>2. Ledgers!Before(file[i], todo[t][k])
          BY <5>1, <4>2, <1>o DEF Ledgers!InOrder
        <5> QED BY <5>2, <4>1, <4>3
      <4>4. CASE \E l \in 1..n : i = Len(file) + l /\ file'[i] = todo[t][l]
        <5>1. PICK l \in 1..n : i = Len(file) + l /\ file'[i] = todo[t][l] BY <4>4
        <5>2. l < k BY <5>1, <4>1, <2>3, <1>n
        <5>3. l \in 1..Len(todo[t]) /\ k \in 1..Len(todo[t]) BY <1>y
        <5> QED BY <5>1, <5>2, <5>3, <4>1, <1>u
      <4> QED BY <4>3, <4>4, <1>x
    <3> QED BY <3>1, <3>2, <1>x
  <2>4. ASSUME NEW s \in Threads, NEW i \in DOMAIN file', NEW j \in DOMAIN todo'[s],
               file'[i].by = s
        PROVE  Ledgers!Before(file'[i], todo'[s][j])
    <3>1. CASE s = t
      <4>1. j \in 1..(Len(todo[t]) - n) /\ todo'[s][j] = todo[t][n + j]
        BY <3>1, <1>w, <1>d, <1>q
      <4>2. n + j \in 1..Len(todo[t]) /\ n < n + j BY <4>1, <1>z
      <4>3. CASE i \in 1..Len(file) /\ file'[i] = file[i]
        <5>1. i \in DOMAIN file /\ n + j \in DOMAIN todo[t] /\ file[i].by = t
          BY <4>2, <4>3, <3>1, <2>4, <1>n
        <5>2. Ledgers!Before(file[i], todo[t][n + j]) BY <5>1, <1>o DEF Ledgers!InOrder
        <5> QED BY <5>2, <4>1, <4>3
      <4>4. CASE \E k \in 1..n : i = Len(file) + k /\ file'[i] = todo[t][k]
        <5>1. PICK k \in 1..n : i = Len(file) + k /\ file'[i] = todo[t][k] BY <4>4
        <5>2. k < n + j BY <4>2, <1>n
        <5>3. k \in 1..Len(todo[t]) BY <1>y
        <5> QED BY <5>1, <5>2, <5>3, <4>1, <4>2, <1>u
      <4> QED BY <4>3, <4>4, <1>x
    <3>2. CASE s # t
      <4>1. todo'[s] = todo[s] BY <3>2, <1>w
      <4>2. i \in 1..Len(file) /\ file'[i] = file[i]
        <5> SUFFICES ASSUME \E k \in 1..n : i = Len(file) + k /\ file'[i] = todo[t][k]
                     PROVE  FALSE
          BY <1>x
        <5> QED BY <1>y, <2>4, <3>2
      <4> QED BY <4>1, <4>2, <2>4, <1>o, <1>n DEF Ledgers!InOrder
    <3> QED BY <3>1, <3>2
  <2> QED BY ONLY <2>1, <2>2, <2>3, <2>4 DEF Ledgers!InOrder, Ledgers!Before
<1>2. Ledgers!HeaderOnTop'
  <2>1. session = "header" => t = Main BY <1>u, <1>ne
  <2>2. session = "header" => \A k \in 1..Len(todo[t]) : todo[t][k].part = Len(file) + k
    BY <2>1, <1>o, <1>n DEF Ledgers!HeaderOnTop
  <2>3. ASSUME NEW i \in DOMAIN file', file'[i].row = 0 PROVE i = file'[i].part
    <3>1. CASE i \in 1..Len(file) /\ file'[i] = file[i]
      BY <3>1, <2>3, <1>o, <1>n DEF Ledgers!HeaderOnTop
    <3>2. CASE \E k \in 1..n : i = Len(file) + k /\ file'[i] = todo[t][k]
      <4>1. PICK k \in 1..n : i = Len(file) + k /\ file'[i] = todo[t][k] BY <3>2
      <4>2. k \in 1..Len(todo[t]) /\ r = 0 BY <4>1, <2>3, <1>y
      <4>3. session = "header" BY <4>2, <1>u, <1>ne
      <4> QED BY <4>1, <4>2, <4>3, <2>2
    <3> QED BY <3>1, <3>2, <1>x
  <2>4. ASSUME session' = "header", NEW i \in DOMAIN todo'[Main]
        PROVE  todo'[Main][i].part = Len(file') + i
    <3>1. t = Main /\ session = "header" BY <2>1, <2>4
    <3>2. i \in 1..(Len(todo[t]) - n) /\ todo'[Main][i] = todo[t][n + i]
      BY <3>1, <1>w, <1>d, <1>q
    <3>3. n + i \in 1..Len(todo[t]) BY <3>2, <1>z
    <3>4. todo[t][n + i].part = Len(file) + (n + i) BY <3>1, <3>3, <2>2
    <3>5. Len(file) + (n + i) = Len(file') + i BY <3>2, <1>f, <1>n
    <3> QED BY <3>2, <3>4, <3>5
  <2> QED BY <2>3, <2>4 DEF Ledgers!HeaderOnTop
<1> QED BY <1>1, <1>2, <1>f, <1>w

LEMMA WriteUnharmed ==
    ASSUME Ledgers!IInv, NEW t \in Threads, NEW n \in 1..Len(todo[t]),
           file' = file \o SubSeq(todo[t], 1, n),
           todo' = [todo EXCEPT ![t] = SubSeq(todo[t], n + 1, Len(todo[t]))],
           kind' = kind, session' = session,
           harmed' = (harmed \/ (kind = "timing" /\ n < Len(todo[t])))
    PROVE  /\ Ledgers!Unharmed'
           /\ kind' = "usage" => \A s \in Threads \ {Main} : todo'[s] = <<>>
<1> DEFINE p == SubSeq(todo[t], 1, n)
           q == SubSeq(todo[t], n + 1, Len(todo[t]))
<1>t. /\ file \in Seq(Ledgers!Units) /\ todo \in [Threads -> Seq(Ledgers!Units)]
      /\ recorded \in Nat /\ Main \in Threads /\ todo[t] \in Seq(Ledgers!Units)
      /\ todo[Main] \in Seq(Ledgers!Units)
  BY LedgerConstants DEF Ledgers!IInv, Ledgers!TypeOK
<1>o. /\ Ledgers!InOrder /\ Ledgers!HeaderOnTop /\ Ledgers!TypeOK
      /\ kind = "usage" => \A s \in Threads \ {Main} : todo[s] = <<>>
  BY DEF Ledgers!IInv
<1>n. n \in Nat /\ Len(todo[t]) \in Nat /\ n <= Len(todo[t]) /\ Len(file) \in Nat /\ 1 <= n
      /\ n \in 0..Len(todo[t])
  BY <1>t
<1>ne. todo[t] # <<>> BY <1>n, EmptySeq
<1>u. \A s \in Threads : \E r \in 0..recorded :
        /\ Len(todo[s]) \in 0..2
        /\ Len(todo[s]) = 2 => todo[s] = Ledgers!Row(r, s)
        /\ todo[s] # <<>> => /\ r = 0 => s = Main /\ session = "header"
                             /\ r # 0 => session = "open"
  <2>1. TAKE s \in Threads
  <2>2. Ledgers!Unwritten(s) BY <1>o DEF Ledgers!InOrder
  <2> QED BY <2>2, <1>o, UnwrittenFacts
<1>p. p \in Seq(Ledgers!Units) /\ q \in Seq(Ledgers!Units) /\ p \o q = todo[t]
      /\ Len(p) = n /\ Len(q) = Len(todo[t]) - n
  BY <1>t, <1>n, PrefixFacts, SuffixFacts
<1>a. file' = file \o p /\ todo' = [todo EXCEPT ![t] = q] OBVIOUS
<1> HIDE DEF p, q
<1>w. todo'[t] = q /\ \A s \in Threads \ {t} : todo'[s] = todo[s] BY <1>a, <1>t
<1>1. Ledgers!Unharmed'
  <2> SUFFICES ASSUME ~ harmed' PROVE Ledgers!Unharmed' BY DEF Ledgers!Unharmed
  <2>0. /\ ~ harmed /\ Ledgers!Whole(file \o todo[Main])
        /\ session = "header" => file # <<>> \/ todo[Main] # <<>>
        /\ session = "open" => file # <<>>
        /\ kind = "timing" =>
             /\ Len(file) % 2 = 0
             /\ \A s \in Threads : Len(todo[s]) # 1
    BY DEF Ledgers!IInv, Ledgers!Unharmed
  <2>h. kind = "timing" => n = Len(todo[t])
    <3>1. kind = "timing" => ~ (n < Len(todo[t])) BY Zenon
    <3> QED BY ONLY <3>1, <1>n
  <2>1. file' # <<>>
    <3>1. Len(file \o p) = Len(file) + n
      <4>1. file \in Seq(Ledgers!Units) /\ p \in Seq(Ledgers!Units) /\ Len(p) = n BY <1>t, <1>p
      <4> QED BY ONLY <4>1, ConcatProperties
    <3>2. Len(file') # 0 BY SMTT(40), <3>1, <1>a, <1>n
    <3> QED BY <3>2
  <2>2. CASE t = Main
    <3>1. file' \o todo'[Main] = file \o todo[Main]
      <4>1. file \in Seq(Ledgers!Units) /\ p \in Seq(Ledgers!Units) /\ q \in Seq(Ledgers!Units)
        BY <1>t, <1>p
      <4>2. (file \o p) \o q = file \o (p \o q) BY ONLY SMTT(40), <4>1, ConcatThree
      <4> QED BY <4>2, <2>2, <1>p, <1>a, <1>w
    <3>2. ASSUME kind = "timing"
          PROVE  Len(file') % 2 = 0 /\ \A s \in Threads : Len(todo'[s]) # 1
      <4>1. n = Len(todo[t]) BY <3>2, <2>h
      <4>2. Len(todo[t]) = 2
        <5>1. Len(todo[t]) \in 0..2 /\ Len(todo[t]) # 1 BY <1>u, <2>0, <3>2
        <5> QED BY ONLY <5>1, <1>n
      <4>3. Len(file') = Len(file) + 2 /\ Len(q) = 0
        <5>1. file \in Seq(Ledgers!Units) /\ p \in Seq(Ledgers!Units) /\ Len(p) = n
          BY <1>t, <1>p
        <5>2. Len(file \o p) = Len(file) + n BY ONLY <5>1, ConcatProperties
        <5> QED BY <5>2, <4>1, <4>2, <1>p, <1>a
      <4>4. Len(file') % 2 = 0
        <5>1. Len(file) % 2 = 0 BY <3>2, <2>0
        <5>2. \A k \in Nat : k % 2 = 0 => (k + 2) % 2 = 0 OBVIOUS
        <5> QED BY ONLY <5>1, <5>2, <4>3, <1>n
      <4>5. \A s \in Threads : Len(todo'[s]) # 1
        <5>0. todo'[t] = q BY <1>w
        <5>1. Len(todo'[t]) # 1 BY ONLY <5>0, <4>3
        <5>2. \A s \in Threads \ {t} : Len(todo'[s]) # 1 BY SMTT(40), <3>2, <2>0, <1>w
        <5> QED BY <5>1, <5>2
      <4> QED BY <4>4, <4>5
    <3> QED BY <3>1, <3>2, <2>0, <2>1 DEF Ledgers!Unharmed, Ledgers!Whole, Ledgers!Unit
  <2>3. CASE t # Main
    <3>1. kind = "timing" BY <2>3, <1>o, <1>ne DEF Ledgers!TypeOK
    <3>2. n = Len(todo[t]) /\ Len(todo[t]) = 2
      <4>1. Len(todo[t]) \in 0..2 /\ Len(todo[t]) # 1 BY <1>u, <2>0, <3>1
      <4>2. n = Len(todo[t]) BY <3>1, <2>h
      <4> QED BY ONLY <4>1, <4>2, <1>n
    <3>3. PICK r \in 0..recorded : todo[t] = Ledgers!Row(r, t) /\ session = "open"
      BY <3>2, <2>3, <1>u, <1>ne
    <3>4. p = Ledgers!Row(r, t)
      <4>1. Len(q) = 0 BY <3>2, <1>p
      <4>2. q = <<>> BY <4>1, <1>p, EmptySeq
      <4>3. p \o <<>> = p BY <1>p
      <4> QED BY <4>2, <4>3, <1>p, <3>3
    <3>5. Ledgers!Whole(file)
      BY <3>1, <2>0, <1>t, WholePrefix
    <3>6. r \in Nat BY <1>t
    <3>7. /\ Ledgers!Whole(file') /\ file' \in Seq(Ledgers!Units)
          /\ file' # <<>> /\ Len(file') % 2 = 0
      <4>1. file # <<>> BY <3>3, <2>0
      <4>2. LET v == file \o Ledgers!Row(r, t)
            IN  /\ Ledgers!Whole(v) /\ v \in Seq(Ledgers!Units)
                /\ v # <<>> /\ Len(v) % 2 = 0
        BY <4>1, <3>5, <3>6, <1>t, WholeThenRow
      <4>3. file' = file \o Ledgers!Row(r, t) BY <3>4, <1>a
      <4> QED BY <4>2, <4>3
    <3>8. todo'[Main] = todo[Main] BY <2>3, <1>w, <1>t
    <3>9. Ledgers!Whole(file' \o todo'[Main])
      <4>1. Len(todo[Main]) \in 0..2 /\ Len(todo[Main]) # 1 BY <1>u, <1>t, <2>0, <3>1
      <4>2. CASE Len(todo[Main]) = 0
        <5>1. todo[Main] = <<>> BY <4>2, <1>t, EmptySeq
        <5>2. file' \o <<>> = file' BY <3>7
        <5> QED BY <5>1, <5>2, <3>7, <3>8
      <4>3. CASE Len(todo[Main]) = 2
        <5>1. PICK m \in 0..recorded : todo[Main] = Ledgers!Row(m, Main)
          BY <4>3, <1>u, <1>t
        <5>2. m \in Nat BY <1>t
        <5>3. Ledgers!Whole(file' \o Ledgers!Row(m, Main))
          <6> DEFINE f == file'
          <6>1. f \in Seq(Ledgers!Units) /\ Ledgers!Whole(f) /\ f # <<>> BY <3>7
          <6> HIDE DEF f
          <6>2. Ledgers!Whole(f \o Ledgers!Row(m, Main)) BY <6>1, <5>2, <1>t, WholeThenRow
          <6> QED BY <6>2 DEF f
        <5> QED BY <5>1, <5>3, <3>8
      <4> QED BY ONLY <4>1, <4>2, <4>3
    <3>10. \A s \in Threads : Len(todo'[s]) # 1
      <4>1. Len(q) = 0 BY <3>2, <1>p
      <4>0. todo'[t] = q BY <1>w
      <4>2. Len(todo'[t]) # 1 BY ONLY <4>0, <4>1
      <4>3. \A s \in Threads \ {t} : Len(todo'[s]) # 1 BY <3>1, <2>0, <1>w
      <4> QED BY <4>2, <4>3
    <3> QED BY <3>7, <3>9, <3>10 DEF Ledgers!Unharmed, Ledgers!Whole, Ledgers!Unit
  <2> QED BY <2>2, <2>3
<1>2. kind' = "usage" => \A s \in Threads \ {Main} : todo'[s] = <<>>
  <2> SUFFICES ASSUME kind = "usage" PROVE \A s \in Threads \ {Main} : todo'[s] = <<>>
    OBVIOUS
  <2>1. t = Main BY <1>o, <1>ne
  <2> QED BY <2>1, <1>o, <1>w
<1> QED BY <1>1, <1>2

LEMMA WriteKeeps ==
    ASSUME Ledgers!IInv, NEW t \in Threads, Ledgers!Write(t) PROVE Ledgers!IInv'
<1>1. PICK n \in 1..Len(todo[t]) :
        /\ file' = file \o SubSeq(todo[t], 1, n)
        /\ todo' = [todo EXCEPT ![t] = SubSeq(todo[t], n + 1, Len(todo[t]))]
        /\ harmed' = (harmed \/ (kind = "timing" /\ n < Len(todo[t])))
  BY DEF Ledgers!Write, Ledgers!Remaining
<1>2. kind' = kind /\ session' = session /\ sessions' = sessions /\ recorded' = recorded
  BY DEF Ledgers!Write
<1>3. /\ file' \in Seq(Ledgers!Units) /\ todo' \in [Threads -> Seq(Ledgers!Units)]
      /\ Ledgers!InOrder' /\ Ledgers!HeaderOnTop'
  BY <1>1, <1>2, WriteOrder
<1>4. /\ Ledgers!Unharmed'
      /\ kind' = "usage" => \A s \in Threads \ {Main} : todo'[s] = <<>>
  BY <1>1, <1>2, WriteUnharmed
<1>5. Ledgers!TypeOK'
  <2>1. harmed' \in BOOLEAN BY <1>1
  <2> QED BY <2>1, <1>2, <1>3 DEF Ledgers!IInv, Ledgers!TypeOK
<1> QED BY <1>3, <1>4, <1>5 DEF Ledgers!IInv

LEMMA LedgerNextIInv ==
    Ledgers!IInv /\ (Ledgers!Next \/ UNCHANGED ledgerVars) => Ledgers!IInv'
<1> SUFFICES ASSUME Ledgers!IInv, Ledgers!Next \/ UNCHANGED ledgerVars PROVE Ledgers!IInv'
  OBVIOUS
<1>t. /\ kind \in {"timing", "usage"} /\ file \in Seq(Ledgers!Units)
      /\ todo \in [Threads -> Seq(Ledgers!Units)]
      /\ session \in {"off", "header", "open", "failed"}
      /\ sessions \in Nat /\ recorded \in Nat /\ harmed \in BOOLEAN
      /\ Main \in Threads /\ <<>> \in Seq(Ledgers!Units)
  BY LedgerConstants DEF Ledgers!IInv, Ledgers!TypeOK
<1>1. CASE Ledgers!Open BY <1>1, OpenKeeps
<1>2. CASE Ledgers!Opened
  <2>1. /\ session = "header" /\ todo[Main] = <<>> /\ session' = "open"
        /\ kind' = kind /\ file' = file /\ todo' = todo /\ sessions' = sessions
        /\ recorded' = recorded /\ harmed' = harmed
    BY <1>2 DEF Ledgers!Opened
  <2>2. Ledgers!TypeOK' BY <2>1, <1>t DEF Ledgers!TypeOK
  <2>3. \A t \in Threads : todo[t] = <<>>
    BY <2>1, NothingUnwritten DEF Ledgers!IInv, Ledgers!InOrder
  <2>4. harmed' \/ file # <<>> BY <2>1 DEF Ledgers!IInv, Ledgers!Unharmed
  <2> QED BY <2>1, <2>2, <2>3, <2>4, LedgerStays
<1>3. CASE Ledgers!Stop
  <2>1. /\ session' = "off" /\ todo' = [t \in Threads |-> <<>>]
        /\ harmed' = (harmed \/ \E t \in Threads : todo[t] # <<>>)
        /\ kind' = kind /\ file' = file /\ sessions' = sessions /\ recorded' = recorded
    BY <1>3 DEF Ledgers!Stop
  <2>2. Ledgers!TypeOK' BY <2>1, <1>t DEF Ledgers!TypeOK
  <2>3. \A t \in Threads : todo'[t] = <<>> BY <2>1
  <2> QED BY <2>1, <2>2, <2>3, LedgerStays
<1>4. ASSUME NEW t \in Threads, Ledgers!Record(t) PROVE Ledgers!IInv'
  BY <1>4, RecordKeeps
<1>5. ASSUME NEW t \in Threads, Ledgers!Write(t) PROVE Ledgers!IInv'
  BY <1>5, WriteKeeps
<1>6. ASSUME NEW t \in Threads, Ledgers!WriteFails(t) PROVE Ledgers!IInv'
  <2>1. /\ todo' = [todo EXCEPT ![t] = <<>>] /\ harmed' = TRUE
        /\ kind' = kind /\ file' = file /\ session' = session /\ sessions' = sessions
        /\ recorded' = recorded
    BY <1>6 DEF Ledgers!WriteFails
  <2>2. Ledgers!TypeOK' BY <2>1, <1>t DEF Ledgers!TypeOK
  <2>3. \A s \in Threads : todo'[s] \in {todo[s], <<>>} BY <2>1, <1>t
  <2> QED BY <2>1, <2>2, <2>3, LedgerStays
<1>7. CASE UNCHANGED ledgerVars
  <2>1. /\ kind' = kind /\ file' = file /\ todo' = todo /\ session' = session
        /\ sessions' = sessions /\ recorded' = recorded /\ harmed' = harmed
    BY <1>7 DEF ledgerVars
  <2>2. Ledgers!TypeOK' BY <2>1, <1>t DEF Ledgers!TypeOK
  <2> QED BY <2>1, <2>2, LedgerStays
<1> QED BY <1>1, <1>2, <1>3, <1>4, <1>5, <1>6, <1>7 DEF Ledgers!Next

LEMMA LedgerInvariance == MCSpec => []Ledgers!IInv
<1>1. MCInit => Ledgers!Init BY DEF MCInit, LedgersIdle
<1>2. [MCNext]_MCvars => Ledgers!Next \/ UNCHANGED ledgerVars BY DEF MCNext, MCvars
<1> QED BY <1>1, <1>2, MCSteps, LedgerInitIInv, LedgerNextIInv, PTL

(* Two elements next to each other, as a sequence. *)
LEMMA PairAt ==
    ASSUME NEW S, NEW w \in Seq(S), NEW i \in 1..Len(w), i + 1 \in 1..Len(w)
    PROVE  SubSeq(w, i, i + 1) = <<w[i], w[i + 1]>>
<1> DEFINE v == SubSeq(w, i, i + 1)
           u == <<w[i], w[i + 1]>>
<1>1. i \in Nat /\ Len(w) \in Nat /\ 1 <= i /\ i + 1 <= Len(w) OBVIOUS
<1>2. v \in Seq(S) /\ Len(v) = 2 BY <1>1
<1>3. \A k \in 1..2 : v[k] = w[i + k - 1] BY <1>1
<1>4. v[1] = w[i] /\ v[2] = w[i + 1]
  <2>1. i + 1 - 1 = i /\ i + 2 - 1 = i + 1 BY <1>1
  <2>2. 1 \in 1..2 /\ 2 \in 1..2 OBVIOUS
  <2> HIDE DEF v
  <2> QED BY <2>1, <2>2, <1>3
<1>5. u \in Seq(S) /\ Len(u) = 2 /\ u[1] = w[i] /\ u[2] = w[i + 1]
  <2>1. w[i] \in S /\ w[i + 1] \in S OBVIOUS
  <2> QED BY <2>1
<1> HIDE DEF u, v
<1>6. \A k \in 1..2 : v[k] = u[k]
  <2>1. \A k \in 1..2 : k = 1 \/ k = 2 OBVIOUS
  <2> QED BY ONLY <2>1, <1>4, <1>5
<1>7. v = u BY <1>2, <1>5, <1>6, SeqEqual
<1> QED BY <1>7 DEF u, v

(* However many threads and sessions append to a ledger, no part of a row is *)
(* written twice or out of order, the header is on top, and as long as no    *)
(* row was cut short the file is a header followed by whole rows.           *)
THEOREM LedgerStaysReadable == MCSpec => []LedgerReadable
<1>1. Ledgers!IInv => LedgerReadable
  <2> SUFFICES ASSUME Ledgers!IInv PROVE LedgerReadable OBVIOUS
  <2> DEFINE w == file \o todo[Main]
  <2>t. file \in Seq(Ledgers!Units) /\ todo[Main] \in Seq(Ledgers!Units)
    BY LedgerConstants DEF Ledgers!IInv, Ledgers!TypeOK
  <2>1. \A i, j \in DOMAIN file : i < j /\ file[i].by = file[j].by =>
           \/ file[i].row < file[j].row
           \/ file[i].row = file[j].row /\ file[i].part < file[j].part
    BY DEF Ledgers!IInv, Ledgers!InOrder, Ledgers!Before
  <2>2. \A i \in DOMAIN file : file[i].row = 0 => i = file[i].part
    BY DEF Ledgers!IInv, Ledgers!HeaderOnTop
  <2>3. ASSUME ~ harmed
        PROVE  /\ w # <<>> => SubSeq(w, 1, 2) = Ledgers!Header
               /\ \A i \in DOMAIN w :
                    i % 2 = 1 => SubSeq(w, i, i + 1) = Ledgers!Row(w[i].row, w[i].by)
    <3>1. w \in Seq(Ledgers!Units) BY <2>t
    <3>2. Ledgers!Whole(w) BY <2>3 DEF Ledgers!IInv, Ledgers!Unharmed
    <3> HIDE DEF w
    <3>3. Len(w) \in Nat /\ DOMAIN w = 1..Len(w) BY <3>1
    <3>4. ASSUME NEW i \in DOMAIN w, i % 2 = 1
          PROVE  SubSeq(w, i, i + 1) = Ledgers!Row(w[i].row, w[i].by)
      <4>1. w[i].part = 1 /\ w[i + 1] = Ledgers!Unit(w[i].row, w[i].by, 2)
        BY <3>2, <3>4 DEF Ledgers!Whole
      <4>2. Len(w) % 2 = 0 BY <3>2 DEF Ledgers!Whole
      <4>3. i \in 1..Len(w) /\ i + 1 \in 1..Len(w) BY ONLY <4>2, <3>3, <3>4
      <4>4. w[i] \in Ledgers!Units BY <4>3, <3>1
      <4>5. w[i] = Ledgers!Unit(w[i].row, w[i].by, 1)
        BY <4>1, <4>4 DEF Ledgers!Unit, Ledgers!Units
      <4>6. SubSeq(w, i, i + 1) = <<w[i], w[i + 1]>> BY <4>3, <3>1, PairAt
      <4> QED BY <4>1, <4>5, <4>6 DEF Ledgers!Row
    <3>5. ASSUME w # <<>> PROVE SubSeq(w, 1, 2) = Ledgers!Header
      <4>1. 1 \in DOMAIN w /\ 1 % 2 = 1
        <5>1. Len(w) # 0 BY <3>1, <3>5, EmptySeq
        <5> QED BY <5>1, <3>3
      <4>2. SubSeq(w, 1, 1 + 1) = Ledgers!Row(w[1].row, w[1].by) BY <4>1, <3>4
      <4>3. w[1] = Ledgers!Unit(0, Main, 1) BY <3>2, <3>5 DEF Ledgers!Whole
      <4>4. w[1].row = 0 /\ w[1].by = Main BY <4>3 DEF Ledgers!Unit
      <4>5. 1 + 1 = 2 OBVIOUS
      <4> QED BY <4>2, <4>4, <4>5 DEF Ledgers!Header
    <3> QED BY <3>4, <3>5
  <2> QED BY <2>1, <2>2, <2>3 DEF LedgerReadable, Ledgers!LedgerReadable, w
<1> QED BY <1>1, LedgerInvariance, PTL

-----------------------------------------------------------------------------
(* KeySetup                                                                *)

LEMMA KeyConstants ==
    /\ Typed \subseteq STRING /\ ~ ("" \in Typed)
    /\ \A key \in Typed : Unquoted[key] \in STRING
    /\ Numbers \subseteq STRING /\ ~ ("" \in Numbers)
    /\ Words \subseteq STRING
    /\ FirstFiles \subseteq Seq(EnvLine) /\ UserLines \subseteq EnvLine
    /\ MaxLines \in Nat
BY KeyAssumption

LEMMA Literals ==
    /\ "" \in STRING /\ "other" \in STRING /\ "part" \in STRING /\ "glued" \in STRING
    /\ "default" \in STRING /\ "e1" \in STRING /\ "cli" \in STRING
    /\ \A n \in Names : n \in STRING
    /\ "GROQ_API_KEY" \in Names /\ "OPENAI_API_KEY" \in Names
    /\ "MODEL_NAME" \in Names /\ "MAX_L1_TOKENS" \in Names
<1>1. /\ "" \in Words /\ "other" \in Words /\ "part" \in Words /\ "glued" \in Words
      /\ "default" \in Words /\ "e1" \in Words /\ "cli" \in Words
      /\ Names \subseteq Words
  BY DEF Words
<1>2. /\ "GROQ_API_KEY" \in Names /\ "OPENAI_API_KEY" \in Names
      /\ "MODEL_NAME" \in Names /\ "MAX_L1_TOKENS" \in Names
  BY DEF Names, KeyNames
<1> QED BY <1>1, <1>2, KeyConstants

LEMMA FromEnvFacts ==
    ASSUME NEW e \in [Names -> STRING]
    PROVE  /\ FromEnv(e) \in Config
           /\ FromEnv(e).key = "" <=> (\A n \in KeyNames : e[n] = "")
           /\ FromEnv(e).key = discover_api_key(e)[2]
           /\ FromEnv(e).source = discover_api_key(e)[1]
           /\ FromEnv(e).model = IF e["MODEL_NAME"] # "" THEN e["MODEL_NAME"] ELSE "default"
           /\ FromEnv(e).tokens = parse_size_t(e["MAX_L1_TOKENS"], "default")
<1>1. \A n \in Names : e[n] \in STRING OBVIOUS
<1>2. /\ "GROQ_API_KEY" \in Names /\ "OPENAI_API_KEY" \in Names
      /\ "MODEL_NAME" \in Names /\ "MAX_L1_TOKENS" \in Names
  BY DEF Names, KeyNames
<1>3. Numbers \subseteq STRING BY KeyConstants
<1>4. /\ discover_api_key(e)[1] \in STRING /\ discover_api_key(e)[2] \in STRING
      /\ discover_api_key(e)[2] = "" <=> e["GROQ_API_KEY"] = "" /\ e["OPENAI_API_KEY"] = ""
  <2> DEFINE d == discover_api_key(e)
  <2>1. "GROQ_API_KEY" \in STRING /\ "OPENAI_API_KEY" \in STRING /\ "" \in STRING
    BY Literals
  <2>2. e["GROQ_API_KEY"] \in STRING /\ e["OPENAI_API_KEY"] \in STRING BY <1>1, <1>2
  <2>3. d = IF e["GROQ_API_KEY"] # "" THEN <<"GROQ_API_KEY", e["GROQ_API_KEY"]>>
            ELSE IF e["OPENAI_API_KEY"] # "" THEN <<"OPENAI_API_KEY", e["OPENAI_API_KEY"]>>
            ELSE <<"", "">>
    BY DEF discover_api_key
  <2> HIDE DEF d
  <2>4. CASE e["GROQ_API_KEY"] # ""
    <3>1. d = <<"GROQ_API_KEY", e["GROQ_API_KEY"]>> BY <2>3, <2>4
    <3>2. d[1] = "GROQ_API_KEY" /\ d[2] = e["GROQ_API_KEY"] BY <3>1
    <3> QED BY <3>2, <2>1, <2>2, <2>4 DEF d
  <2>5. CASE e["GROQ_API_KEY"] = "" /\ e["OPENAI_API_KEY"] # ""
    <3>1. d = <<"OPENAI_API_KEY", e["OPENAI_API_KEY"]>> BY <2>3, <2>5
    <3>2. d[1] = "OPENAI_API_KEY" /\ d[2] = e["OPENAI_API_KEY"] BY <3>1
    <3> QED BY <3>2, <2>1, <2>2, <2>5 DEF d
  <2>6. CASE e["GROQ_API_KEY"] = "" /\ e["OPENAI_API_KEY"] = ""
    <3>1. d = <<"", "">> BY <2>3, <2>6
    <3>2. d[1] = "" /\ d[2] = "" BY <3>1
    <3> QED BY <3>2, <2>1, <2>6 DEF d
  <2> QED BY <2>4, <2>5, <2>6
<1>5. parse_size_t(e["MAX_L1_TOKENS"], "default") \in STRING
  <2>1. e["MAX_L1_TOKENS"] \in STRING /\ "default" \in STRING BY <1>1, <1>2, Literals
  <2> QED BY <2>1 DEF parse_size_t
<1>6. /\ FromEnv(e).key = discover_api_key(e)[2]
      /\ FromEnv(e).source = discover_api_key(e)[1]
      /\ FromEnv(e).model = IF e["MODEL_NAME"] # "" THEN e["MODEL_NAME"] ELSE "default"
      /\ FromEnv(e).tokens = parse_size_t(e["MAX_L1_TOKENS"], "default")
  BY DEF FromEnv, Default
<1>7. FromEnv(e) \in Config
  <2> DEFINE m == IF e["MODEL_NAME"] # "" THEN e["MODEL_NAME"] ELSE "default"
             k == parse_size_t(e["MAX_L1_TOKENS"], "default")
             d == discover_api_key(e)
  <2>1. m \in STRING
    <3>1. e["MODEL_NAME"] \in STRING /\ "default" \in STRING BY <1>1, <1>2, Literals
    <3> QED BY <3>1
  <2>2. FromEnv(e) = [key |-> d[2], source |-> d[1], model |-> m, tokens |-> k]
    BY DEF FromEnv, Default
  <2> HIDE DEF m, k, d
  <2>3. k \in STRING /\ d[1] \in STRING /\ d[2] \in STRING BY <1>4, <1>5 DEF k, d
  <2> QED BY <2>1, <2>2, <2>3 DEF Config
<1>8. (\A n \in KeyNames : e[n] = "") <=> e["GROQ_API_KEY"] = "" /\ e["OPENAI_API_KEY"] = ""
  BY DEF KeyNames
<1> QED BY <1>4, <1>6, <1>7, <1>8

(* What one line does to each setting. *)
LEMMA ReadLineFacts ==
    ASSUME NEW e \in [Names -> STRING], NEW c \in Config, NEW l \in EnvLine
    PROVE  /\ ReadLine(e, c, l) \in Config
           /\ ReadLine(e, c, l).key = IF GivesKey(l) /\ c.key = "" THEN l.value ELSE c.key
           /\ ReadLine(e, c, l).source =
                IF GivesKey(l) /\ c.key = "" THEN l.name ELSE c.source
           /\ ReadLine(e, c, l).model =
                IF l.name = "MODEL_NAME" /\ l.value # "" /\ e["MODEL_NAME"] = ""
                THEN l.value ELSE c.model
           /\ ReadLine(e, c, l).tokens =
                IF l.name = "MAX_L1_TOKENS" /\ l.value \in Numbers /\ e["MAX_L1_TOKENS"] = ""
                THEN l.value ELSE c.tokens
<1> DEFINE d == ReadLine(e, c, l)
<1>1. /\ l.name \in STRING /\ l.value \in STRING /\ c.key \in STRING /\ c.source \in STRING
      /\ c.model \in STRING /\ c.tokens \in STRING
      /\ c = [key |-> c.key, source |-> c.source, model |-> c.model, tokens |-> c.tokens]
  BY DEF EnvLine, Config
<1>2. ~ ("" \in Numbers) /\ Numbers \subseteq STRING BY KeyConstants
<1>3. ~ ("MODEL_NAME" \in KeyNames) /\ ~ ("MAX_L1_TOKENS" \in KeyNames) BY DEF KeyNames
<1>4. CASE l.value = ""
  <2>1. d = c BY <1>4 DEF ReadLine
  <2> HIDE DEF d
  <2> QED BY <2>1, <1>2, <1>4 DEF GivesKey, d
<1>5. CASE l.value # "" /\ l.name \in KeyNames /\ c.key = ""
  <2>1. d = [c EXCEPT !.key = l.value, !.source = l.name] BY <1>3, <1>5 DEF ReadLine
  <2>2. d = [key |-> l.value, source |-> l.name, model |-> c.model, tokens |-> c.tokens]
    BY <2>1, <1>1
  <2> HIDE DEF d
  <2>3. d \in Config BY <2>2, <1>1 DEF Config
  <2>4. /\ d.key = l.value /\ d.source = l.name /\ d.model = c.model
        /\ d.tokens = c.tokens
    BY <2>2
  <2>5. GivesKey(l) /\ c.key = "" /\ l.name # "MODEL_NAME" /\ l.name # "MAX_L1_TOKENS"
    BY <1>3, <1>5 DEF GivesKey
  <2> QED BY <2>3, <2>4, <2>5, <1>5 DEF d
<1>6. CASE l.value # "" /\ l.name = "MODEL_NAME" /\ e["MODEL_NAME"] = ""
  <2>1. d = [c EXCEPT !.model = l.value] BY <1>3, <1>6 DEF ReadLine
  <2>2. d = [key |-> c.key, source |-> c.source, model |-> l.value, tokens |-> c.tokens]
    BY <2>1, <1>1
  <2> HIDE DEF d
  <2>3. d \in Config BY <2>2, <1>1 DEF Config
  <2>4. /\ d.key = c.key /\ d.source = c.source /\ d.model = l.value
        /\ d.tokens = c.tokens
    BY <2>2
  <2>5. ~ GivesKey(l) /\ l.name = "MODEL_NAME" /\ l.name # "MAX_L1_TOKENS"
    BY <1>3, <1>6 DEF GivesKey
  <2> QED BY <2>3, <2>4, <2>5, <1>6 DEF d
<1>7. CASE l.value # "" /\ l.name = "MAX_L1_TOKENS" /\ e["MAX_L1_TOKENS"] = ""
  <2>0. parse_size_t(l.value, c.tokens) = IF l.value \in Numbers THEN l.value ELSE c.tokens
    BY DEF parse_size_t
  <2>1. d = [c EXCEPT !.tokens = parse_size_t(l.value, c.tokens)]
    BY <1>3, <1>7 DEF ReadLine
  <2>2. d = [key |-> c.key, source |-> c.source, model |-> c.model,
             tokens |-> IF l.value \in Numbers THEN l.value ELSE c.tokens]
    BY <2>0, <2>1, <1>1
  <2> HIDE DEF d
  <2>3. d \in Config BY <2>2, <1>1 DEF Config
  <2>4. /\ d.key = c.key /\ d.source = c.source /\ d.model = c.model
        /\ d.tokens = IF l.value \in Numbers THEN l.value ELSE c.tokens
    BY <2>2
  <2>5. ~ GivesKey(l) /\ l.name = "MAX_L1_TOKENS" /\ l.name # "MODEL_NAME"
    BY <1>3, <1>7 DEF GivesKey
  <2> QED BY <2>3, <2>4, <2>5, <1>7 DEF d
<1>8. CASE /\ l.value # "" /\ ~ (l.name \in KeyNames /\ c.key = "")
           /\ ~ (l.name = "MODEL_NAME" /\ e["MODEL_NAME"] = "")
           /\ ~ (l.name = "MAX_L1_TOKENS" /\ e["MAX_L1_TOKENS"] = "")
  <2>1. d = c BY <1>8 DEF ReadLine
  <2> HIDE DEF d
  <2> QED BY <2>1, <1>8 DEF GivesKey, d
<1> QED BY <1>4, <1>5, <1>6, <1>7, <1>8

(* f holds the configuration after each line of the file. *)
ReadUpTo(f, e, w) ==
    /\ f[0] = FromEnv(e)
    /\ \A n \in 1..Len(w) : f[n] = ReadLine(e, f[n - 1], w[n])

LEMMA LoadSteps ==
    ASSUME NEW e \in [Names -> STRING], NEW w \in Seq(EnvLine)
    PROVE  \E f \in [0..Len(w) -> Config] :
              ReadUpTo(f, e, w) /\ load_from_env(e, w) = f[Len(w)]
<1> DEFINE Good(n) == \E f \in [0..n -> Config] :
                         f[0] = FromEnv(e)
                         /\ \A i \in 1..n : f[i] = ReadLine(e, f[i - 1], w[i])
           Bad == {n \in 0..Len(w) : ~ Good(n)}
<1>1. Len(w) \in Nat /\ FromEnv(e) \in Config
  <2>1. FromEnv(e) \in Config BY FromEnvFacts
  <2> QED BY <2>1
<1>2. Bad = {}
  <2> SUFFICES ASSUME Bad # {} PROVE FALSE OBVIOUS
  <2>1. PICK m \in Bad : \A k \in Bad : m <= k
    <3> HIDE DEF Good
    <3>1. Bad \subseteq Nat BY <1>1
    <3> QED BY <3>1, NatLeast
  <2>2. CASE m = 0
    <3>1. [i \in 0..0 |-> FromEnv(e)] \in [0..0 -> Config] BY <1>1
    <3>2. Good(0)
      <4> WITNESS [i \in 0..0 |-> FromEnv(e)] \in [0..0 -> Config]
      <4> QED OBVIOUS
    <3> QED BY <2>2, <3>2
  <2>3. CASE m # 0
    <3>1. m \in 1..Len(w) /\ m - 1 \in 0..Len(w) /\ m - 1 \in Nat /\ m \in Nat
      BY <2>3, <1>1
    <3>2. Good(m - 1)
      <4> HIDE DEF Good
      <4> QED BY <3>1, <2>1
    <3>3. PICK f \in [0..(m - 1) -> Config] :
             f[0] = FromEnv(e) /\ \A i \in 1..(m - 1) : f[i] = ReadLine(e, f[i - 1], w[i])
      BY <3>2
    <3>4. ReadLine(e, f[m - 1], w[m]) \in Config
      <4>1. w[m] \in EnvLine /\ f[m - 1] \in Config BY <3>1
      <4> QED BY <4>1, ReadLineFacts
    <3> DEFINE g == [i \in 0..m |-> IF i = m THEN ReadLine(e, f[m - 1], w[m]) ELSE f[i]]
    <3>5. g \in [0..m -> Config] BY <3>1, <3>3, <3>4
    <3>6. g[0] = FromEnv(e) /\ \A i \in 1..m : g[i] = ReadLine(e, g[i - 1], w[i])
      <4>1. g[0] = FromEnv(e) BY <3>1, <3>3
      <4>2. ASSUME NEW i \in 1..m PROVE g[i] = ReadLine(e, g[i - 1], w[i])
        <5>1. CASE i = m
          <6>1. g[m] = ReadLine(e, f[m - 1], w[m]) /\ g[m - 1] = f[m - 1] BY <3>1
          <6> QED BY <6>1, <5>1
        <5>2. CASE i # m
          <6>1. i \in 1..(m - 1) /\ g[i] = f[i] /\ g[i - 1] = f[i - 1] BY <5>2, <3>1
          <6> QED BY <6>1, <3>3
        <5> QED BY <5>1, <5>2
      <4> QED BY <4>1, <4>2
    <3>7. Good(m)
      <4> WITNESS g \in [0..m -> Config]
      <4> QED BY <3>6
    <3> QED BY <3>7
  <2> QED BY <2>2, <2>3
<1>3. Good(Len(w))
  <2> HIDE DEF Good
  <2> QED BY <1>1, <1>2
<1>4. PICK f \in [0..Len(w) -> Config] : ReadUpTo(f, e, w) BY <1>3 DEF ReadUpTo
<1> DEFINE Rec(h) == h = [n \in 0..Len(w) |->
                            IF n = 0 THEN FromEnv(e) ELSE ReadLine(e, h[n - 1], w[n])]
           g == CHOOSE h : Rec(h)
           Diff == {n \in 0..Len(w) : f[n] # g[n]}
<1>5. load_from_env(e, w) = g[Len(w)] BY DEF load_from_env
<1>6. Rec(f)
  <2> DEFINE r == [n \in 0..Len(w) |->
                     IF n = 0 THEN FromEnv(e) ELSE ReadLine(e, f[n - 1], w[n])]
  <2>1. \A n \in 0..Len(w) : f[n] = r[n] BY <1>1, <1>4 DEF ReadUpTo
  <2> QED BY <2>1
<1>7. Rec(g)
  <2> HIDE DEF Rec
  <2> QED BY <1>6
<1>8. g[0] = FromEnv(e) /\ \A n \in 1..Len(w) : g[n] = ReadLine(e, g[n - 1], w[n])
  <2> HIDE DEF g
  <2>1. \A n \in 0..Len(w) : g[n] = IF n = 0 THEN FromEnv(e) ELSE ReadLine(e, g[n - 1], w[n])
    BY <1>7
  <2> QED BY <2>1, <1>1
<1>9. Diff = {}
  <2> SUFFICES ASSUME Diff # {} PROVE FALSE OBVIOUS
  <2> HIDE DEF g
  <2>1. PICK m \in Diff : \A k \in Diff : m <= k
    <3>1. Diff \subseteq Nat BY <1>1
    <3> QED BY <3>1, NatLeast
  <2>2. m # 0 BY <1>4, <1>8 DEF ReadUpTo
  <2>3. m \in 1..Len(w) /\ m - 1 \in 0..Len(w) /\ ~ (m <= m - 1) BY <2>2, <1>1
  <2>4. f[m - 1] = g[m - 1] BY <2>1, <2>3
  <2> QED BY <2>3, <2>4, <1>4, <1>8 DEF ReadUpTo
<1> HIDE DEF g
<1> QED BY <1>1, <1>4, <1>5, <1>9

(* h takes the value of a line of S where it has none so far, g its name.    *)
TakesFirst(last, S, none, v, u, h, g) ==
    /\ \A n \in S : v[n] # none
    /\ \A n \in 1..last : h[n] = IF n \in S /\ h[n - 1] = none THEN v[n] ELSE h[n - 1]
    /\ \A n \in 1..last : g[n] = IF n \in S /\ h[n - 1] = none THEN u[n] ELSE g[n - 1]

(* At the end they have what they began with, or those of the first line.    *)
FirstTaken(last, S, none, v, u, h, g) ==
    \/ h[0] # none /\ h[last] = h[0] /\ g[last] = g[0]
    \/ h[0] = none /\ S = {} /\ h[last] = none /\ g[last] = g[0]
    \/ /\ h[0] = none
       /\ \E i \in S : (\A j \in S : i <= j) /\ h[last] = v[i] /\ g[last] = u[i]

LEMMA FirstCounts ==
    ASSUME NEW last \in Nat, NEW S, S \subseteq 1..last, NEW none, NEW v, NEW u, NEW h, NEW g,
           TakesFirst(last, S, none, v, u, h, g)
    PROVE  FirstTaken(last, S, none, v, u, h, g)
<1>t. /\ \A n \in S : v[n] # none
      /\ \A n \in 1..last : h[n] = IF n \in S /\ h[n - 1] = none THEN v[n] ELSE h[n - 1]
      /\ \A n \in 1..last : g[n] = IF n \in S /\ h[n - 1] = none THEN u[n] ELSE g[n - 1]
  BY DEF TakesFirst
<1> DEFINE Given(n) == h[0] # none /\ h[n] = h[0] /\ g[n] = g[0]
           None(n)  == h[0] = none /\ (\A i \in S : ~ (i <= n)) /\ h[n] = none /\ g[n] = g[0]
           First(n) == /\ h[0] = none
                       /\ \E i \in S : /\ i <= n /\ \A j \in S : i <= j
                                      /\ h[n] = v[i] /\ g[n] = u[i]
           Good(n)  == Given(n) \/ None(n) \/ First(n)
           Bad == {n \in 0..last : ~ Good(n)}
<1>0. last \in Nat /\ S \subseteq 1..last OBVIOUS
<1>1. Bad = {}
  <2> SUFFICES ASSUME Bad # {} PROVE FALSE OBVIOUS
  <2>1. PICK m \in Bad : \A k \in Bad : m <= k
    <3> HIDE DEF Good
    <3>1. Bad \subseteq Nat BY <1>0
    <3> QED BY <3>1, NatLeast
  <2>2. CASE m = 0
    <3>1. \A i \in S : ~ (i <= 0) BY ONLY <1>0
    <3>2. Given(0) \/ None(0) BY <3>1
    <3> QED BY <2>2, <3>2
  <2>3. CASE m # 0
    <3>1. m \in 1..last /\ m - 1 \in 0..last /\ ~ (m <= m - 1) /\ m \in Nat
      BY <2>3, <1>0
    <3>2. Good(m - 1)
      <4> HIDE DEF Good
      <4> QED BY <3>1, <2>1
    <3>3. /\ h[m] = IF m \in S /\ h[m - 1] = none THEN v[m] ELSE h[m - 1]
          /\ g[m] = IF m \in S /\ h[m - 1] = none THEN u[m] ELSE g[m - 1]
      BY <3>1, <1>t
    <3>4. \A i \in S : (i <= m - 1 => i <= m) /\ (i <= m => i <= m - 1 \/ i = m)
                      /\ (~ (i <= m - 1) => m <= i)
      <4>1. \A i \in 1..last : (i <= m - 1 => i <= m) /\ (i <= m => i <= m - 1 \/ i = m)
                               /\ (~ (i <= m - 1) => m <= i)
        BY ONLY <3>1, <1>0
      <4> QED BY <4>1, <1>0
    <3>5. CASE Given(m - 1)
      <4>1. Given(m) BY <3>3, <3>5
      <4> QED BY <4>1
    <3>6. CASE None(m - 1) /\ m \in S
      <4>1. h[m] = v[m] /\ g[m] = u[m] BY <3>3, <3>6
      <4>2. m <= m /\ \A j \in S : m <= j BY <3>1, <3>4, <3>6
      <4>3. First(m) BY <3>6, <4>1, <4>2
      <4> QED BY <4>3
    <3>7. CASE None(m - 1) /\ ~ (m \in S)
      <4>1. h[m] = none /\ g[m] = g[0] BY <3>3, <3>7
      <4>2. \A i \in S : ~ (i <= m) BY <3>4, <3>7
      <4>3. None(m) BY <3>7, <4>1, <4>2
      <4> QED BY <4>3
    <3>8. CASE First(m - 1)
      <4>1. PICK i \in S : /\ i <= m - 1 /\ \A j \in S : i <= j
                           /\ h[m - 1] = v[i] /\ g[m - 1] = u[i]
        BY <3>8
      <4>2. h[m - 1] # none BY <4>1, <1>t
      <4>3. h[m] = v[i] /\ g[m] = u[i] BY <3>3, <4>1, <4>2
      <4>4. i <= m BY <3>4, <4>1
      <4>5. First(m) BY <3>8, <4>1, <4>3, <4>4
      <4> QED BY <4>5
    <3> QED BY <3>2, <3>5, <3>6, <3>7, <3>8
  <2> QED BY <2>2, <2>3
<1>2. Good(last)
  <2> HIDE DEF Good
  <2>1. last \in 0..last BY <1>0
  <2> QED BY <2>1, <1>1
<1>3. \A i \in S : i <= last BY <1>0
<1>4. None(last) => S = {} BY <1>3
<1> QED BY <1>2, <1>4 DEF FirstTaken

KeyLines(w) == {i \in DOMAIN w : GivesKey(w[i])}

(* The key of a start and its source: the environment's, else the first      *)
(* line's that gives one.                                                  *)
LEMMA LoadSource ==
    ASSUME NEW e \in [Names -> STRING], NEW w \in Seq(EnvLine)
    PROVE  /\ load_from_env(e, w) \in Config
           /\ FromEnv(e).key # "" => /\ load_from_env(e, w).key = FromEnv(e).key
                                     /\ load_from_env(e, w).source = FromEnv(e).source
           /\ FromEnv(e).key = "" =>
                \/ /\ KeyLines(w) = {} /\ load_from_env(e, w).key = ""
                   /\ load_from_env(e, w).source = FromEnv(e).source
                \/ \E i \in KeyLines(w) : /\ \A j \in KeyLines(w) : i <= j
                                          /\ load_from_env(e, w).key = w[i].value
                                          /\ load_from_env(e, w).source = w[i].name
<1>1. PICK f \in [0..Len(w) -> Config] :
        ReadUpTo(f, e, w) /\ load_from_env(e, w) = f[Len(w)]
  BY LoadSteps
<1>0. Len(w) \in Nat /\ DOMAIN w = 1..Len(w) OBVIOUS
<1>2. ASSUME NEW n \in 1..Len(w)
      PROVE  /\ f[n].key = IF n \in KeyLines(w) /\ f[n - 1].key = ""
                           THEN w[n].value ELSE f[n - 1].key
             /\ f[n].source = IF n \in KeyLines(w) /\ f[n - 1].key = ""
                              THEN w[n].name ELSE f[n - 1].source
  <2>1. n - 1 \in 0..Len(w) /\ w[n] \in EnvLine BY <1>0
  <2>2. f[n - 1] \in Config /\ f[n] = ReadLine(e, f[n - 1], w[n])
    BY <2>1, <1>1 DEF ReadUpTo
  <2>3. n \in KeyLines(w) <=> GivesKey(w[n]) BY <1>0 DEF KeyLines
  <2>4. /\ ReadLine(e, f[n - 1], w[n]).key =
             IF GivesKey(w[n]) /\ f[n - 1].key = "" THEN w[n].value ELSE f[n - 1].key
        /\ ReadLine(e, f[n - 1], w[n]).source =
             IF GivesKey(w[n]) /\ f[n - 1].key = "" THEN w[n].name ELSE f[n - 1].source
    BY <2>1, <2>2, ReadLineFacts
  <2> QED BY ONLY <2>2, <2>3, <2>4
<1>3. f[0] = FromEnv(e) BY <1>1 DEF ReadUpTo
<1> DEFINE h == [n \in 0..Len(w) |-> f[n].key]
           g == [n \in 0..Len(w) |-> f[n].source]
<1>4. KeyLines(w) \in SUBSET (1..Len(w)) /\ \A n \in KeyLines(w) : w[n].value # ""
  BY <1>0 DEF KeyLines, GivesKey
<1>5. /\ h[0] = FromEnv(e).key /\ g[0] = FromEnv(e).source
      /\ h[Len(w)] = load_from_env(e, w).key /\ g[Len(w)] = load_from_env(e, w).source
  BY <1>0, <1>1, <1>3
<1>6. \A n \in 1..Len(w) : n \in 0..Len(w) /\ n - 1 \in 0..Len(w) BY <1>0
<1>7. \A n \in 1..Len(w) : h[n] = IF n \in KeyLines(w) /\ h[n - 1] = ""
                                   THEN w[n].value ELSE h[n - 1]
  BY <1>2, <1>6
<1>8. \A n \in 1..Len(w) : g[n] = IF n \in KeyLines(w) /\ h[n - 1] = ""
                                   THEN w[n].name ELSE g[n - 1]
  BY <1>2, <1>6
<1> HIDE DEF h, g
<1>9. \/ h[0] # "" /\ h[Len(w)] = h[0] /\ g[Len(w)] = g[0]
      \/ h[0] = "" /\ KeyLines(w) = {} /\ h[Len(w)] = "" /\ g[Len(w)] = g[0]
      \/ /\ h[0] = ""
         /\ \E i \in KeyLines(w) : /\ \A j \in KeyLines(w) : i <= j
                                   /\ h[Len(w)] = w[i].value /\ g[Len(w)] = w[i].name
  <2> DEFINE v == [n \in 1..Len(w) |-> w[n].value]
             u == [n \in 1..Len(w) |-> w[n].name]
  <2>1. \A n \in 1..Len(w) : v[n] = w[n].value /\ u[n] = w[n].name OBVIOUS
  <2>2. PICK empty : empty = "" OBVIOUS
  <2> HIDE DEF v, u
  <2>3. PICK S : S = KeyLines(w) BY Zenon
  <2>4. PICK last \in Nat : last = Len(w) BY <1>0
  <2>5. last \in Nat /\ S \subseteq 1..last
    BY <1>4, <2>3, <2>4
  <2>6. \A n \in S : v[n] # empty
    <3>1. \A n \in S : n \in 1..Len(w) /\ w[n].value # "" BY <1>4, <2>3
    <3> QED BY ONLY <3>1, <2>1, <2>2
  <2>7. \A n \in 1..last : h[n] = IF n \in S /\ h[n - 1] = empty THEN v[n] ELSE h[n - 1]
    BY <1>7, <2>1, <2>2, <2>3, <2>4
  <2>8. \A n \in 1..last : g[n] = IF n \in S /\ h[n - 1] = empty THEN u[n] ELSE g[n - 1]
    BY <1>8, <2>1, <2>2, <2>3, <2>4
  <2>9. TakesFirst(last, S, empty, v, u, h, g) BY ONLY <2>6, <2>7, <2>8 DEF TakesFirst
  <2>10. FirstTaken(last, S, empty, v, u, h, g) BY ONLY <2>5, <2>9, FirstCounts
  <2> QED BY <2>1, <2>2, <2>3, <2>4, <2>5, <2>10 DEF FirstTaken
<1>10. load_from_env(e, w) \in Config
  <2>1. Len(w) \in 0..Len(w) BY <1>0
  <2> QED BY <2>1, <1>1
<1> QED BY ONLY <1>5, <1>9, <1>10

(* A start finds no key only where there is none, and without one in the     *)
(* environment takes that of the first line that has one.                  *)
LEMMA LoadKey ==
    ASSUME NEW e \in [Names -> STRING], NEW w \in Seq(EnvLine)
    PROVE  /\ load_from_env(e, w) \in Config
           /\ load_from_env(e, w).key = "" =>
                /\ \A n \in KeyNames : e[n] = ""
                /\ \A i \in 1..Len(w) : ~ GivesKey(w[i])
           /\ \A p \in 1..Len(w) :
                /\ \A n \in KeyNames : e[n] = ""
                /\ GivesKey(w[p])
                /\ \A i \in 1..(p - 1) : ~ GivesKey(w[i])
                => load_from_env(e, w).key = w[p].value
<1>0. Len(w) \in Nat /\ DOMAIN w = 1..Len(w) OBVIOUS
<1>1. FromEnv(e).key = "" <=> (\A n \in KeyNames : e[n] = "") BY FromEnvFacts
<1>2. PICK c : c = load_from_env(e, w) OBVIOUS
<1>3. /\ c \in Config
      /\ FromEnv(e).key # "" => c.key = FromEnv(e).key
      /\ FromEnv(e).key = "" =>
           \/ KeyLines(w) = {} /\ c.key = ""
           \/ \E i \in KeyLines(w) : /\ \A j \in KeyLines(w) : i <= j
                                     /\ c.key = w[i].value
  BY <1>2, LoadSource
<1>4. \A i \in 1..Len(w) : i \in KeyLines(w) <=> GivesKey(w[i]) BY <1>0 DEF KeyLines
<1>5. KeyLines(w) \subseteq 1..Len(w) /\ \A i \in KeyLines(w) : w[i].value # ""
  BY <1>0 DEF KeyLines, GivesKey
<1>6. c.key = "" => /\ \A n \in KeyNames : e[n] = ""
                    /\ \A i \in 1..Len(w) : ~ GivesKey(w[i])
  <2> SUFFICES ASSUME c.key = ""
      PROVE  (\A n \in KeyNames : e[n] = "") /\ \A i \in 1..Len(w) : ~ GivesKey(w[i])
    OBVIOUS
  <2>1. FromEnv(e).key = "" BY <1>3
  <2>2. KeyLines(w) = {} BY <2>1, <1>3, <1>5
  <2> QED BY <2>1, <2>2, <1>1, <1>4
<1>7. ASSUME NEW p \in 1..Len(w), \A n \in KeyNames : e[n] = "", GivesKey(w[p]),
             \A i \in 1..(p - 1) : ~ GivesKey(w[i])
      PROVE  c.key = w[p].value
  <2>1. FromEnv(e).key = "" BY <1>1, <1>7
  <2>2. p \in KeyLines(w) BY <1>4, <1>7
  <2>3. PICK i \in KeyLines(w) : (\A j \in KeyLines(w) : i <= j) /\ c.key = w[i].value
    BY <2>1, <2>2, <1>3
  <2>4. i \in 1..Len(w) /\ GivesKey(w[i]) /\ i <= p BY <2>2, <2>3, <1>4, <1>5
  <2>5. i = p
    <3>1. ~ (i \in 1..(p - 1)) BY <2>4, <1>7
    <3>2. p \in 1..Len(w) OBVIOUS
    <3> QED BY ONLY <3>1, <3>2, <2>4, <1>0
  <2> QED BY <2>3, <2>5
<1> QED BY <1>2, <1>3, <1>6, <1>7

(* A setting that each line of S replaces has, in the end, the value of the   *)
(* last of them.                                                           *)
LEMMA LastCounts ==
    ASSUME NEW w \in Seq(EnvLine), NEW S \in SUBSET (1..Len(w)), NEW d, NEW h,
           h[0] = d,
           \A n \in 1..Len(w) : h[n] = IF n \in S THEN w[n].value ELSE h[n - 1]
    PROVE  \/ S = {} /\ h[Len(w)] = d
           \/ \E i \in S : (\A j \in S : j <= i) /\ h[Len(w)] = w[i].value
<1> DEFINE Good(n) == \/ (\A i \in S : ~ (i <= n)) /\ h[n] = d
                      \/ \E i \in S : /\ i <= n /\ \A j \in S : j <= n => j <= i
                                      /\ h[n] = w[i].value
           Bad == {n \in 0..Len(w) : ~ Good(n)}
<1>0. Len(w) \in Nat /\ S \subseteq 1..Len(w) OBVIOUS
<1>1. Bad = {}
  <2> SUFFICES ASSUME Bad # {} PROVE FALSE OBVIOUS
  <2>1. PICK m \in Bad : \A k \in Bad : m <= k
    <3> HIDE DEF Good
    <3>1. Bad \subseteq Nat BY <1>0
    <3> QED BY <3>1, NatLeast
  <2>2. CASE m = 0
    <3>1. \A i \in S : ~ (i <= 0) BY <1>0
    <3>2. Good(0) BY <3>1
    <3> QED BY <2>2, <3>2
  <2>3. CASE m # 0
    <3>1. m \in 1..Len(w) /\ m - 1 \in 0..Len(w) /\ ~ (m <= m - 1) /\ m \in Nat
      BY <2>3, <1>0
    <3>2. Good(m - 1)
      <4> HIDE DEF Good
      <4> QED BY <3>1, <2>1
    <3>3. \A i \in S : i <= m <=> i <= m - 1 \/ i = m
      <4>1. \A i \in 1..Len(w) : i <= m <=> i <= m - 1 \/ i = m BY ONLY <3>1, <1>0
      <4> QED BY <4>1, <1>0
    <3>4. CASE m \in S
      <4>1. h[m] = w[m].value BY <3>1, <3>4
      <4>2. m <= m /\ \A j \in S : j <= m => j <= m BY <3>1
      <4>3. Good(m) BY <3>4, <4>1, <4>2
      <4> QED BY <4>3
    <3>5. CASE ~ (m \in S)
      <4>1. h[m] = h[m - 1] BY <3>1, <3>5
      <4>2. \A i \in S : i <= m <=> i <= m - 1 BY <3>3, <3>5
      <4>3. Good(m) BY <3>2, <4>1, <4>2
      <4> QED BY <4>3
    <3> QED BY <3>4, <3>5
  <2> QED BY <2>2, <2>3
<1>2. Good(Len(w))
  <2> HIDE DEF Good
  <2>1. Len(w) \in 0..Len(w) BY <1>0
  <2> QED BY <2>1, <1>1
<1>3. \A i \in S : i <= Len(w) BY <1>0
<1> QED BY <1>2, <1>3

ModelLines(w) == {i \in DOMAIN w : w[i].name = "MODEL_NAME" /\ w[i].value # ""}
TokenLines(w) == {i \in DOMAIN w : w[i].name = "MAX_L1_TOKENS" /\ w[i].value \in Numbers}

(* The model and the limit of a start: the environment's, else the last      *)
(* usable line's.                                                          *)
LEMMA LoadSettings ==
    ASSUME NEW e \in [Names -> STRING], NEW w \in Seq(EnvLine)
    PROVE  /\ e["MODEL_NAME"] # "" => load_from_env(e, w).model = e["MODEL_NAME"]
           /\ e["MODEL_NAME"] = "" =>
                \/ ModelLines(w) = {} /\ load_from_env(e, w).model = "default"
                \/ \E i \in ModelLines(w) : /\ \A j \in ModelLines(w) : j <= i
                                            /\ load_from_env(e, w).model = w[i].value
           /\ e["MAX_L1_TOKENS"] # "" =>
                load_from_env(e, w).tokens = parse_size_t(e["MAX_L1_TOKENS"], "default")
           /\ e["MAX_L1_TOKENS"] = "" =>
                \/ TokenLines(w) = {} /\ load_from_env(e, w).tokens = "default"
                \/ \E i \in TokenLines(w) : /\ \A j \in TokenLines(w) : j <= i
                                            /\ load_from_env(e, w).tokens = w[i].value
<1>1. PICK f \in [0..Len(w) -> Config] :
        ReadUpTo(f, e, w) /\ load_from_env(e, w) = f[Len(w)]
  BY LoadSteps
<1>0. Len(w) \in Nat /\ DOMAIN w = 1..Len(w) OBVIOUS
<1>2. ASSUME NEW n \in 1..Len(w)
      PROVE  /\ f[n].model = IF n \in ModelLines(w) /\ e["MODEL_NAME"] = ""
                             THEN w[n].value ELSE f[n - 1].model
             /\ f[n].tokens = IF n \in TokenLines(w) /\ e["MAX_L1_TOKENS"] = ""
                              THEN w[n].value ELSE f[n - 1].tokens
  <2>1. n - 1 \in 0..Len(w) /\ w[n] \in EnvLine BY <1>0
  <2>2. f[n - 1] \in Config /\ f[n] = ReadLine(e, f[n - 1], w[n])
    BY <2>1, <1>1 DEF ReadUpTo
  <2>3. /\ n \in ModelLines(w) <=> w[n].name = "MODEL_NAME" /\ w[n].value # ""
        /\ n \in TokenLines(w) <=> w[n].name = "MAX_L1_TOKENS" /\ w[n].value \in Numbers
    BY <1>0 DEF ModelLines, TokenLines
  <2>4. /\ ReadLine(e, f[n - 1], w[n]).model =
             IF w[n].name = "MODEL_NAME" /\ w[n].value # "" /\ e["MODEL_NAME"] = ""
             THEN w[n].value ELSE f[n - 1].model
        /\ ReadLine(e, f[n - 1], w[n]).tokens =
             IF w[n].name = "MAX_L1_TOKENS" /\ w[n].value \in Numbers
                /\ e["MAX_L1_TOKENS"] = ""
             THEN w[n].value ELSE f[n - 1].tokens
    BY <2>1, <2>2, ReadLineFacts
  <2> QED BY ONLY <2>2, <2>3, <2>4
<1>3. /\ f[0].model = IF e["MODEL_NAME"] # "" THEN e["MODEL_NAME"] ELSE "default"
      /\ f[0].tokens = parse_size_t(e["MAX_L1_TOKENS"], "default")
  <2>1. f[0] = FromEnv(e) BY <1>1 DEF ReadUpTo
  <2>2. /\ FromEnv(e).model = IF e["MODEL_NAME"] # "" THEN e["MODEL_NAME"] ELSE "default"
        /\ FromEnv(e).tokens = parse_size_t(e["MAX_L1_TOKENS"], "default")
    BY FromEnvFacts
  <2> QED BY ONLY <2>1, <2>2
<1> DEFINE a == [n \in 0..Len(w) |-> f[n].model]
           b == [n \in 0..Len(w) |-> f[n].tokens]
           A == IF e["MODEL_NAME"] = "" THEN ModelLines(w) ELSE {}
           B == IF e["MAX_L1_TOKENS"] = "" THEN TokenLines(w) ELSE {}
<1>4. A \in SUBSET (1..Len(w)) /\ B \in SUBSET (1..Len(w))
  BY <1>0 DEF ModelLines, TokenLines
<1>5. a[0] = f[0].model /\ b[0] = f[0].tokens /\ a[Len(w)] = f[Len(w)].model
      /\ b[Len(w)] = f[Len(w)].tokens
  BY <1>0
<1>6. \A n \in 1..Len(w) : n \in 0..Len(w) /\ n - 1 \in 0..Len(w) BY <1>0
<1>7. \A n \in 1..Len(w) : a[n] = IF n \in A THEN w[n].value ELSE a[n - 1]
  BY <1>2, <1>6
<1>8. \A n \in 1..Len(w) : b[n] = IF n \in B THEN w[n].value ELSE b[n - 1]
  BY <1>2, <1>6
<1> HIDE DEF a, b, A, B
<1>9. \/ A = {} /\ a[Len(w)] = f[0].model
      \/ \E i \in A : (\A j \in A : j <= i) /\ a[Len(w)] = w[i].value
  BY SMTT(40), <1>4, <1>5, <1>7, LastCounts
<1>10. \/ B = {} /\ b[Len(w)] = f[0].tokens
       \/ \E i \in B : (\A j \in B : j <= i) /\ b[Len(w)] = w[i].value
  <2>1. B \in SUBSET (1..Len(w)) /\ b[0] = f[0].tokens /\ w \in Seq(EnvLine)
    BY <1>4, <1>5
  <2> QED BY ONLY <2>1, <1>8, LastCounts
<1>11. e["MODEL_NAME"] # "" => load_from_env(e, w).model = e["MODEL_NAME"]
  <2> SUFFICES ASSUME e["MODEL_NAME"] # ""
      PROVE load_from_env(e, w).model = e["MODEL_NAME"]
    OBVIOUS
  <2>1. A = {} BY DEF A
  <2> QED BY <2>1, <1>1, <1>3, <1>5, <1>9
<1>12. e["MODEL_NAME"] = "" =>
         \/ ModelLines(w) = {} /\ load_from_env(e, w).model = "default"
         \/ \E i \in ModelLines(w) : /\ \A j \in ModelLines(w) : j <= i
                                     /\ load_from_env(e, w).model = w[i].value
  BY <1>1, <1>3, <1>5, <1>9 DEF A
<1>13. e["MAX_L1_TOKENS"] # "" =>
         load_from_env(e, w).tokens = parse_size_t(e["MAX_L1_TOKENS"], "default")
  <2> SUFFICES ASSUME e["MAX_L1_TOKENS"] # ""
      PROVE load_from_env(e, w).tokens = parse_size_t(e["MAX_L1_TOKENS"], "default")
    OBVIOUS
  <2>1. B = {} BY DEF B
  <2> QED BY <2>1, <1>1, <1>3, <1>5, <1>10
<1>14. e["MAX_L1_TOKENS"] = "" =>
         \/ TokenLines(w) = {} /\ load_from_env(e, w).tokens = "default"
         \/ \E i \in TokenLines(w) : /\ \A j \in TokenLines(w) : j <= i
                                     /\ load_from_env(e, w).tokens = w[i].value
  <2> SUFFICES ASSUME e["MAX_L1_TOKENS"] = ""
      PROVE \/ TokenLines(w) = {} /\ load_from_env(e, w).tokens = "default"
            \/ \E i \in TokenLines(w) : /\ \A j \in TokenLines(w) : j <= i
                                        /\ load_from_env(e, w).tokens = w[i].value
    OBVIOUS
  <2>1. B = TokenLines(w) BY DEF B
  <2>2. parse_size_t("", "default") = "default" BY KeyConstants DEF parse_size_t
  <2> QED BY <2>1, <2>2, <1>1, <1>3, <1>5, <1>10
<1> QED BY <1>11, <1>12, <1>13, <1>14

(* What appending a line leaves of the file. *)
LEMMA AppendLineFacts ==
    ASSUME TypeOK, lines = <<>> => ended, NEW l \in EnvLine, NEW newline \in BOOLEAN,
           AppendLine(l, newline)
    PROVE  /\ lines' \in Seq(EnvLine) /\ ended' = newline
           /\ Len(lines') \in Nat /\ Len(lines') # 0
           /\ Len(lines') = IF ended THEN Len(lines) + 1 ELSE Len(lines)
           /\ ended => lines'[Len(lines) + 1] = l
           /\ \A i \in 1..Len(lines) : ended \/ i < Len(lines) => lines'[i] = lines[i]
<1>t. lines \in Seq(EnvLine) /\ ended \in BOOLEAN BY DEF TypeOK
<1>0. Len(lines) \in Nat BY <1>t
<1>1. /\ ended' = newline
      /\ lines' = IF ended THEN Append(lines, l)
                  ELSE Append(Front(lines), Continued(Last(lines), l))
  BY DEF AppendLine
<1>2. CASE ended
  <2>1. lines' = Append(lines, l) BY <1>1, <1>2
  <2>2. /\ Append(lines, l) \in Seq(EnvLine) /\ Len(Append(lines, l)) = Len(lines) + 1
        /\ Append(lines, l)[Len(lines) + 1] = l
        /\ \A i \in 1..Len(lines) : Append(lines, l)[i] = lines[i]
    BY <1>t
  <2> QED BY <2>1, <2>2, <1>0, <1>1, <1>2
<1>3. CASE ~ ended
  <2> DEFINE n == Len(lines)
             c == Continued(Last(lines), l)
             front == Front(lines)
  <2>1. n \in Nat \ {0} BY <1>t, <1>3, EmptySeq
  <2>2. Last(lines) = lines[n] /\ lines[n] \in EnvLine BY <2>1, <1>t DEF Last
  <2>3. c \in EnvLine
    <3>1. lines[n].name \in STRING /\ "glued" \in STRING BY <2>2, Literals DEF EnvLine
    <3>2. Line(lines[n].name, "glued") \in EnvLine BY <3>1 DEF Line, EnvLine
    <3>3. c = lines[n] \/ c = Line(lines[n].name, "glued") BY <2>2 DEF Continued
    <3> QED BY ONLY <2>2, <3>2, <3>3
  <2>4. front = SubSeq(lines, 1, n - 1) BY DEF Front
  <2>5. /\ SubSeq(lines, 1, n - 1) \in Seq(EnvLine) /\ Len(SubSeq(lines, 1, n - 1)) = n - 1
        /\ \A i \in 1..(n - 1) : SubSeq(lines, 1, n - 1)[i] = lines[i]
    <3>1. 1 \in Int /\ n - 1 \in Int /\ n - 1 <= n /\ 1 <= n - 1 + 1 /\ n = Len(lines)
      BY <2>1
    <3> HIDE DEF n
    <3> QED BY ONLY <3>1, <2>1, <1>t
  <2>6. lines' = Append(front, c) BY <1>1, <1>3
  <2> HIDE DEF front, c
  <2>7. /\ Append(front, c) \in Seq(EnvLine) /\ Len(Append(front, c)) = n - 1 + 1
        /\ \A i \in 1..(n - 1) : Append(front, c)[i] = front[i]
    BY ONLY <2>1, <2>3, <2>4, <2>5
  <2>8. \A i \in 1..n : i < n => i \in 1..(n - 1) BY <2>1
  <2>9. \A i \in 1..n : i < n => lines'[i] = lines[i]
    BY <2>4, <2>5, <2>6, <2>7, <2>8
  <2>10. n - 1 + 1 = n BY <2>1
  <2> QED BY <2>1, <2>6, <2>7, <2>9, <2>10, <1>1, <1>3
<1> QED BY <1>2, <1>3, <1>t

(* Whatever is appended, the saved key stays the first and whole. *)
LEMMA AppendKeepsKey ==
    ASSUME TypeOK, lines = <<>> => ended, SavedKeyFirst,
           NEW l \in EnvLine, NEW newline \in BOOLEAN, AppendLine(l, newline),
           saved' = saved, clean' = clean
    PROVE  SavedKeyFirst'
<1> DEFINE KeyIsKept(key) ==
             \E p \in DOMAIN lines' :
                /\ lines'[p] = KeyLine(key)
                /\ \A i \in 1..(p - 1) : ~ GivesKey(lines'[i])
                /\ p = Len(lines') => ended'
<1>a. clean => saved \in Typed BY DEF SavedKeyFirst
<1>b. SavedKeyFirst' <=>
         (clean' => saved' \in Typed /\ (Unquoted[saved'] # "" => KeyIsKept(saved')))
  BY DEF SavedKeyFirst, GivesKey, KeyLine, Line
<1> SUFFICES ASSUME clean, Unquoted[saved] # "" PROVE KeyIsKept(saved)
  <2> HIDE DEF KeyIsKept
  <2> QED BY <1>a, <1>b
<1> HIDE DEF KeyIsKept
<1>t. lines \in Seq(EnvLine) /\ ended \in BOOLEAN BY DEF TypeOK
<1>1. PICK p \in DOMAIN lines :
        /\ lines[p] = KeyLine(saved)
        /\ \A i \in 1..(p - 1) : ~ GivesKey(lines[i])
        /\ p = Len(lines) => ended
  BY DEF SavedKeyFirst
<1>2. /\ lines' \in Seq(EnvLine) /\ Len(lines') \in Nat
      /\ Len(lines') = IF ended THEN Len(lines) + 1 ELSE Len(lines)
      /\ \A i \in 1..Len(lines) : ended \/ i < Len(lines) => lines'[i] = lines[i]
  BY AppendLineFacts
<1>3. DOMAIN lines = 1..Len(lines) /\ DOMAIN lines' = 1..Len(lines') /\ Len(lines) \in Nat
  BY ONLY <1>2, <1>t
<1>4. p \in 1..Len(lines) BY <1>3
<1>5. ended \/ p # Len(lines) BY <1>1
<1>6. p \in 1..Len(lines') /\ p # Len(lines') BY ONLY <1>2, <1>3, <1>4, <1>5
<1>7. \A i \in 1..p : i \in 1..Len(lines) /\ (ended \/ i < Len(lines))
  BY ONLY <1>3, <1>4, <1>5
<1>8. p \in 1..p /\ \A i \in 1..(p - 1) : i \in 1..p BY ONLY <1>3, <1>4
<1>9. \A i \in 1..p : lines'[i] = lines[i] BY ONLY <1>2, <1>7
<1> QED BY <1>1, <1>3, <1>6, <1>8, <1>9 DEF KeyIsKept

LEMMA KeyInitIInv == Init => IInv
<1> SUFFICES ASSUME Init PROVE IInv OBVIOUS
<1>1. /\ lines \in FirstFiles /\ ended \in BOOLEAN /\ (lines = <<>> => ended)
      /\ env = NoEnv /\ model_override = <<>> /\ cfg = Default /\ stage = "off"
      /\ saved = "" /\ clean = FALSE
  BY DEF Init
<1>2. lines \in Seq(EnvLine) BY <1>1, KeyConstants
<1>3. NoEnv \in [Names -> STRING] BY Literals DEF NoEnv
<1>4. Default \in Config BY Literals DEF Default, Config
<1>5. TypeOK BY <1>1, <1>2, <1>3, <1>4, Literals, EmptySeq DEF TypeOK
<1> QED BY <1>1, <1>5 DEF IInv, SavedKeyFirst, NoKeyToBeFound, WizardAsksOnce

LEMMA Single == ASSUME NEW S, NEW x \in S PROVE <<x>> \in Seq(S) /\ <<x>>[1] = x
OBVIOUS

(* What a start without a key in the environment takes from the file, and    *)
(* the types of what it sets.                                              *)
LEMMA StartFacts ==
    ASSUME TypeOK, Start
    PROVE  /\ lines' = lines /\ ended' = ended /\ saved' = saved /\ clean' = clean
           /\ env' \in [Names -> STRING] /\ model_override' \in Seq(STRING)
           /\ cfg' \in Config
           /\ cfg'.key = load_from_env(env', lines).key
           /\ cfg'.source = load_from_env(env', lines).source
           /\ cfg'.tokens = load_from_env(env', lines).tokens
           /\ cfg'.model = IF model_override' = <<>> THEN load_from_env(env', lines).model
                           ELSE model_override'[1]
           /\ stage' = IF load_from_env(env', lines).key = "" THEN "wizard" ELSE "ready"
<1>1. PICK e \in [Names -> {"", "e1"}], t \in {"", "e1"} \cup Numbers :
        env' = [e EXCEPT !["MAX_L1_TOKENS"] = t]
  BY DEF Start
<1>2. env' \in [Names -> STRING]
  <2>1. /\ \A n \in Names : e[n] \in STRING
        /\ t \in STRING /\ DOMAIN e = Names /\ e = [n \in Names |-> e[n]]
    BY Literals, KeyConstants
  <2> QED BY <2>1, <1>1
<1>3. model_override' \in Seq(STRING) /\ (model_override' # <<>> => model_override'[1] \in STRING)
  <2>1. /\ "" \in STRING /\ "cli" \in STRING BY Literals
  <2>2. \A x \in STRING : <<x>> \in Seq(STRING) /\ <<x>>[1] = x
    BY Zenon, Single
  <2>3. model_override' = <<>> \/ model_override' = <<"">> \/ model_override' = <<"cli">>
    BY DEF Start
  <2> QED BY <2>1, <2>2, <2>3, EmptySeq
<1>4. PICK c : c = load_from_env(env', lines) OBVIOUS
<1>5. c \in Config
  <2>1. lines \in Seq(EnvLine) BY DEF TypeOK
  <2> QED BY <2>1, <1>2, <1>4, LoadKey
<1>6. /\ cfg' = IF model_override' = <<>> THEN c ELSE [c EXCEPT !.model = model_override'[1]]
      /\ stage' = IF c.key = "" THEN "wizard" ELSE "ready"
  BY <1>4 DEF Start
<1>7. cfg' \in Config /\ cfg'.key = c.key /\ cfg'.source = c.source /\ cfg'.tokens = c.tokens
      /\ cfg'.model = IF model_override' = <<>> THEN c.model ELSE model_override'[1]
  <2>1. c = [key |-> c.key, source |-> c.source, model |-> c.model, tokens |-> c.tokens]
        /\ c.key \in STRING /\ c.source \in STRING /\ c.model \in STRING
        /\ c.tokens \in STRING
    BY <1>5 DEF Config
  <2>2. CASE model_override' = <<>> BY <2>2, <1>5, <1>6
  <2>3. CASE model_override' # <<>>
    <3>1. cfg' = [key |-> c.key, source |-> c.source, model |-> model_override'[1],
                  tokens |-> c.tokens]
      BY <2>1, <2>3, <1>6
    <3> QED BY <3>1, <2>1, <2>3, <1>3 DEF Config
  <2> QED BY <2>2, <2>3
<1>8. lines' = lines /\ ended' = ended /\ saved' = saved /\ clean' = clean BY DEF Start
<1> QED BY <1>2, <1>3, <1>4, <1>6, <1>7, <1>8

LEMMA KeyNextIInv == IInv /\ (Next \/ UNCHANGED vars) => IInv'
<1> SUFFICES ASSUME IInv, Next \/ UNCHANGED vars PROVE IInv' OBVIOUS
<1>t. /\ TypeOK /\ (lines = <<>> => ended)
      /\ SavedKeyFirst /\ NoKeyToBeFound /\ WizardAsksOnce
  BY DEF IInv
<1>l. lines \in Seq(EnvLine) /\ ended \in BOOLEAN BY <1>t DEF TypeOK
<1>1. CASE UserAppends
  <2>1. PICK l \in UserLines, newline \in BOOLEAN : AppendLine(l, newline)
    BY <1>1 DEF UserAppends
  <2>2. l \in EnvLine BY KeyConstants
  <2>3. /\ env' = env /\ model_override' = model_override /\ cfg' = cfg /\ stage' = stage
        /\ saved' = saved /\ clean' = clean /\ stage = "off"
    BY <1>1 DEF UserAppends
  <2>4. lines' \in Seq(EnvLine) /\ ended' = newline /\ Len(lines') # 0
    BY <2>1, <2>2, <1>t, AppendLineFacts
  <2>5. lines' # <<>> BY <2>4
  <2>6. SavedKeyFirst' BY <2>1, <2>2, <2>3, <1>t, AppendKeepsKey
  <2>7. TypeOK' BY <2>3, <2>4, <1>t DEF TypeOK
  <2>8. NoKeyToBeFound' /\ WizardAsksOnce' BY <2>3 DEF NoKeyToBeFound, WizardAsksOnce
  <2> QED BY <2>5, <2>6, <2>7, <2>8 DEF IInv
<1>2. CASE Start
  <2>1. /\ lines' = lines /\ ended' = ended /\ saved' = saved /\ clean' = clean
        /\ env' \in [Names -> STRING] /\ model_override' \in Seq(STRING) /\ cfg' \in Config
        /\ cfg'.key = load_from_env(env', lines).key
        /\ stage' = IF load_from_env(env', lines).key = "" THEN "wizard" ELSE "ready"
    BY <1>2, <1>t, StartFacts
  <2>2. PICK c : c = load_from_env(env', lines) OBVIOUS
  <2>3. PICK v : v = env' OBVIOUS
  <2>4. /\ c.key = "" => /\ \A n \in KeyNames : v[n] = ""
                         /\ \A i \in 1..Len(lines) : ~ GivesKey(lines[i])
        /\ \A p \in 1..Len(lines) :
             /\ \A n \in KeyNames : v[n] = ""
             /\ GivesKey(lines[p])
             /\ \A i \in 1..(p - 1) : ~ GivesKey(lines[i])
             => c.key = lines[p].value
    <3>1. v \in [Names -> STRING] /\ c = load_from_env(v, lines) BY <2>1, <2>2, <2>3
    <3> QED BY <3>1, <1>l, LoadKey
  <2>5. cfg'.key = c.key /\ (stage' = "wizard" <=> c.key = "") BY <2>1, <2>2
  <2>6. DOMAIN lines = 1..Len(lines) BY <1>l
  <2>7. TypeOK'
    <3>1. stage' \in {"off", "wizard", "saved", "ready"} BY <2>1
    <3> QED BY <3>1, <2>1, <1>t DEF TypeOK
  <2>8. SavedKeyFirst' BY <2>1, <1>t DEF SavedKeyFirst, GivesKey, KeyLine, Line
  <2>9. NoKeyToBeFound'
    <3>1. stage' = "wizard" => (\A n \in KeyNames : v[n] = "")
                               /\ \A i \in DOMAIN lines : ~ GivesKey(lines[i])
      BY <2>4, <2>5, <2>6
    <3> QED BY <3>1, <2>1, <2>3 DEF NoKeyToBeFound, NoKeyInEnv, GivesKey
  <2>10. WizardAsksOnce'
    <3> DEFINE key == Unquoted[saved]
    <3> SUFFICES ASSUME clean, key # ""
        PROVE stage' # "wizard" /\ ((\A n \in KeyNames : v[n] = "") => cfg'.key = key)
      BY <2>1, <2>3 DEF WizardAsksOnce, NoKeyInEnv
    <3>1. PICK p \in DOMAIN lines :
            /\ lines[p] = Line("GROQ_API_KEY", key)
            /\ \A i \in 1..(p - 1) : ~ GivesKey(lines[i])
      BY <1>t DEF SavedKeyFirst, KeyLine
    <3> HIDE DEF key
    <3>3. lines[p].value = key /\ GivesKey(lines[p])
      <4>1. lines[p] = [name |-> "GROQ_API_KEY", value |-> key] BY <3>1 DEF Line
      <4>2. lines[p].name = "GROQ_API_KEY" /\ lines[p].value = key BY ONLY <4>1
      <4> QED BY <4>2 DEF GivesKey, KeyNames
    <3>4. p \in 1..Len(lines) BY <2>6
    <3>5. c.key # "" BY <2>4, <3>3, <3>4
    <3>6. (\A n \in KeyNames : v[n] = "") => c.key = key BY <2>4, <3>1, <3>3, <3>4
    <3> QED BY <2>5, <3>5, <3>6
  <2>11. lines' = <<>> => ended' BY <2>1, <1>t
  <2> QED BY <2>7, <2>8, <2>9, <2>10, <2>11 DEF IInv
<1>3. CASE Wizard
  <2>0. stage = "wizard" /\ (clean => Unquoted[saved] = "")
        /\ \A i \in DOMAIN lines : ~ GivesKey(lines[i])
    BY <1>3, <1>t DEF Wizard, WizardAsksOnce, NoKeyToBeFound
  <2>1. ASSUME ProcessEnds, saved' = saved, clean' = clean, lines' \in Seq(EnvLine),
               ended' \in BOOLEAN, lines' = <<>> => ended'
        PROVE  IInv'
    <3>1. stage' = "off" /\ cfg' = Default /\ env' = NoEnv /\ model_override' = <<>>
      BY <2>1 DEF ProcessEnds
    <3>2. Default \in Config /\ NoEnv \in [Names -> STRING] /\ <<>> \in Seq(STRING)
      BY Literals, EmptySeq DEF Default, Config, NoEnv
    <3>3. TypeOK' BY <3>1, <3>2, <2>1, <1>t DEF TypeOK
    <3>4. (clean' => Unquoted[saved'] = "") /\ stage' = "off" BY <3>1, <2>0, <2>1
    <3>5. clean' => saved' \in Typed BY <2>1, <1>t DEF SavedKeyFirst
    <3> QED BY <3>3, <3>4, <3>5, <2>1 DEF IInv, SavedKeyFirst, NoKeyToBeFound, WizardAsksOnce
  <2>2. CASE ProcessEnds /\ UNCHANGED <<fileVars, saved, clean>>
    BY <2>2, <2>1, <1>t, <1>l DEF fileVars
  <2>3. ASSUME NEW key \in Typed, WriteEnvFile(key, FALSE), ProcessEnds,
               UNCHANGED <<saved, clean>>
        PROVE  IInv'
    <3>1. CASE UNCHANGED fileVars BY <3>1, <2>1, <2>3, <1>t, <1>l DEF fileVars
    <3>2. CASE \E l \in Written(key) : AppendLine(l, FALSE)
      <4>1. PICK l \in Written(key) : AppendLine(l, FALSE) BY <3>2
      <4>2. l \in EnvLine
        <5>1. Unquoted[key] \in STRING /\ "GROQ_API_KEY" \in STRING BY KeyConstants, Literals
        <5>2. \A n, u \in STRING : Line(n, u) \in EnvLine BY DEF Line, EnvLine
        <5>3. \/ l = Line("other", "") \/ l = Line("GROQ_API_KEY", "")
              \/ l = Line("GROQ_API_KEY", "part") \/ l = Line("GROQ_API_KEY", Unquoted[key])
          BY <4>1 DEF Written, KeyLine
        <5> QED BY <5>1, <5>2, <5>3, Literals
      <4>3. lines' \in Seq(EnvLine) /\ ended' = FALSE /\ Len(lines') # 0
        BY <4>1, <4>2, <1>t, AppendLineFacts
      <4>4. lines' # <<>> BY <4>3
      <4> QED BY <4>3, <4>4, <2>1, <2>3
    <3> QED BY <3>1, <3>2, <2>3 DEF WriteEnvFile
  <2>4. ASSUME NEW key \in Typed, WriteEnvFile(key, TRUE),
               cfg' = [cfg EXCEPT !.key = key, !.source = "GROQ_API_KEY"],
               stage' = "saved", saved' = key, clean' = ended,
               UNCHANGED <<env, model_override>>
        PROVE  IInv'
    <3> DEFINE l == KeyLine(key)
    <3>1. AppendLine(l, TRUE) BY <2>4 DEF WriteEnvFile, PartialResult
    <3>2. key \in STRING /\ Unquoted[key] \in STRING /\ "GROQ_API_KEY" \in STRING
      BY KeyConstants, Literals
    <3>3. l \in EnvLine BY <3>2 DEF KeyLine, Line, EnvLine
    <3> HIDE DEF l
    <3>4. /\ lines' \in Seq(EnvLine) /\ ended' = TRUE /\ Len(lines') \in Nat
          /\ Len(lines') # 0
          /\ ended => Len(lines') = Len(lines) + 1 /\ lines'[Len(lines) + 1] = l
          /\ \A i \in 1..Len(lines) : ended => lines'[i] = lines[i]
      BY <3>1, <3>3, <1>t, AppendLineFacts
    <3>5. lines' # <<>> BY <3>4
    <3>6. cfg' \in Config /\ cfg'.key = key
      <4>1. cfg \in Config BY <1>t DEF TypeOK
      <4>2. cfg' = [key |-> key, source |-> "GROQ_API_KEY", model |-> cfg.model,
                    tokens |-> cfg.tokens]
        BY <4>1, <2>4 DEF Config
      <4>3. cfg.model \in STRING /\ cfg.tokens \in STRING BY <4>1 DEF Config
      <4> QED BY <4>2, <4>3, <3>2 DEF Config
    <3>7. TypeOK'
      <4>1. env' = env /\ model_override' = model_override BY <2>4
      <4> QED BY <4>1, <3>2, <3>4, <3>6, <2>4, <1>t DEF TypeOK
    <3>8. SavedKeyFirst'
      <4> SUFFICES ASSUME ended
          PROVE  /\ key \in Typed
                 /\ \E p \in DOMAIN lines' :
                      /\ lines'[p] = KeyLine(key)
                      /\ \A i \in 1..(p - 1) : ~ GivesKey(lines'[i])
                      /\ p = Len(lines') => ended'
        BY <2>4 DEF SavedKeyFirst, GivesKey, KeyLine, Line
      <4> DEFINE p == Len(lines) + 1
      <4>1. Len(lines) \in Nat /\ DOMAIN lines = 1..Len(lines) /\ DOMAIN lines' = 1..Len(lines')
        BY <1>l, <3>4
      <4>2. p \in DOMAIN lines' BY <4>1, <3>4
      <4>3. p - 1 = Len(lines) BY <4>1
      <4>4. lines'[p] = KeyLine(key) BY <3>4 DEF l
      <4> HIDE DEF p
      <4>5. \A i \in 1..(p - 1) : ~ GivesKey(lines'[i])
        BY <4>1, <4>3, <3>4, <2>0
      <4> QED BY <4>2, <4>4, <4>5, <3>4
    <3>9. NoKeyToBeFound' /\ WizardAsksOnce'
      BY <2>4, <3>6 DEF NoKeyToBeFound, WizardAsksOnce
    <3> QED BY <3>5, <3>7, <3>8, <3>9 DEF IInv
  <2>5. CASE \E key \in Typed, ok \in BOOLEAN :
               /\ WriteEnvFile(key, ok)
               /\ IF ok
                  THEN /\ cfg' = [cfg EXCEPT !.key = key, !.source = "GROQ_API_KEY"]
                       /\ stage' = "saved" /\ saved' = key /\ clean' = ended
                       /\ UNCHANGED <<env, model_override>>
                  ELSE ProcessEnds /\ UNCHANGED <<saved, clean>>
    BY <2>5, <2>3, <2>4
  <2> QED BY <2>2, <2>5, <1>3 DEF Wizard
<1>4. CASE End
  <2>1. /\ stage' = "off" /\ cfg' = Default /\ env' = NoEnv /\ model_override' = <<>>
        /\ lines' = lines /\ ended' = ended /\ saved' = saved /\ clean' = clean
    BY <1>4 DEF End, ProcessEnds, fileVars
  <2>2. Default \in Config /\ NoEnv \in [Names -> STRING] /\ <<>> \in Seq(STRING)
    BY Literals, EmptySeq DEF Default, Config, NoEnv
  <2>3. TypeOK' BY <2>1, <2>2, <1>t DEF TypeOK
  <2>4. SavedKeyFirst' BY <2>1, <1>t DEF SavedKeyFirst, GivesKey, KeyLine, Line
  <2> QED BY <2>1, <2>3, <2>4, <1>t DEF IInv, NoKeyToBeFound, WizardAsksOnce
<1>5. CASE UNCHANGED vars
  <2>1. /\ lines' = lines /\ ended' = ended /\ env' = env
        /\ model_override' = model_override /\ cfg' = cfg /\ stage' = stage
        /\ saved' = saved /\ clean' = clean
    BY <1>5 DEF vars
  <2> QED BY <2>1, <1>t
       DEF IInv, TypeOK, SavedKeyFirst, NoKeyToBeFound, WizardAsksOnce, NoKeyInEnv,
           GivesKey, KeyLine, Line
<1> QED BY <1>1, <1>2, <1>3, <1>4, <1>5 DEF Next

LEMMA KeyInvariance == MCSpec => []IInv
<1>1. MCInit => Init BY DEF MCInit, KeysIdle
<1>2. [MCNext]_MCvars => Next \/ UNCHANGED vars BY DEF MCNext, MCvars
<1> QED BY <1>1, <1>2, MCSteps, KeyInitIInv, KeyNextIInv, PTL

(* After the wizard has saved a key behind a complete line, whatever earlier *)
(* wizards left in the file and the user adds to it, no later start asks     *)
(* again, and each one without a key in the environment uses the saved key  *)
(* without the quotes around it; of a key that is nothing but two quotes    *)
(* nothing is said.                                                        *)
THEOREM SavedKeyIsUsed == MCSpec => []WizardAsksOnce
<1>1. IInv => WizardAsksOnce BY DEF IInv
<1> QED BY <1>1, KeyInvariance, PTL

LEMMA MaxOf ==
    ASSUME NEW S \in SUBSET Nat, NEW i \in S, \A j \in S : j <= i
    PROVE  Max(S) = i
<1> DEFINE m == CHOOSE x \in S : \A y \in S : x >= y
<1>1. \E x \in S : \A y \in S : x >= y
  <2>1. \A y \in S : i >= y OBVIOUS
  <2> QED BY <2>1
<1>2. m \in S /\ \A y \in S : m >= y BY <1>1
<1> HIDE DEF m
<1>3. m = i BY <1>2
<1> QED BY <1>3 DEF Max, m

LEMMA MinOf ==
    ASSUME NEW S \in SUBSET Nat, NEW i \in S, \A j \in S : i <= j
    PROVE  Min(S) = i
<1> DEFINE m == CHOOSE x \in S : \A y \in S : x <= y
<1>1. \E x \in S : \A y \in S : x <= y OBVIOUS
<1>2. m \in S /\ \A y \in S : m <= y BY <1>1
<1> HIDE DEF m
<1>3. m = i BY <1>2
<1> QED BY <1>3 DEF Min, m

(* Every start takes each setting from the strongest source that has it: the *)
(* key from the environment or the first line of the file that gives one;   *)
(* model and limit from the option, the environment, the last usable line.  *)
THEOREM StartTakesTheStrongest == MCSpec => SettingsFollowSources
<1>1. ASSUME IInv, Next \/ UNCHANGED vars, stage = "off", stage' # "off"
      PROVE  SettingsMatch'
  <2>0. TypeOK BY <1>1 DEF IInv
  <2>l. lines \in Seq(EnvLine) BY <2>0 DEF TypeOK
  <2>1. Start
    BY <1>1 DEF Next, UserAppends, Wizard, End, vars
  <2>2. /\ lines' = lines /\ env' \in [Names -> STRING]
        /\ cfg'.key = load_from_env(env', lines).key
        /\ cfg'.source = load_from_env(env', lines).source
        /\ cfg'.tokens = load_from_env(env', lines).tokens
        /\ cfg'.model = IF model_override' = <<>> THEN load_from_env(env', lines).model
                        ELSE model_override'[1]
    BY <2>0, <2>1, StartFacts
  <2>3. PICK c : c = load_from_env(env', lines) OBVIOUS
  <2>4. PICK v : v = env' OBVIOUS
  <2>5. /\ v["MODEL_NAME"] # "" => c.model = v["MODEL_NAME"]
        /\ v["MODEL_NAME"] = "" =>
             \/ ModelLines(lines) = {} /\ c.model = "default"
             \/ \E i \in ModelLines(lines) : /\ \A j \in ModelLines(lines) : j <= i
                                             /\ c.model = lines[i].value
        /\ v["MAX_L1_TOKENS"] # "" =>
             c.tokens = parse_size_t(v["MAX_L1_TOKENS"], "default")
        /\ v["MAX_L1_TOKENS"] = "" =>
             \/ TokenLines(lines) = {} /\ c.tokens = "default"
             \/ \E i \in TokenLines(lines) : /\ \A j \in TokenLines(lines) : j <= i
                                             /\ c.tokens = lines[i].value
    <3>1. v \in [Names -> STRING] /\ c = load_from_env(v, lines) BY <2>2, <2>3, <2>4
    <3> QED BY <3>1, <2>l, LoadSettings
  <2>6. ModelLines(lines) \in SUBSET Nat /\ TokenLines(lines) \in SUBSET Nat
    <3>1. DOMAIN lines \subseteq Nat BY <2>l
    <3> QED BY <3>1 DEF ModelLines, TokenLines
  <2>7. v["MODEL_NAME"] = "" => c.model = LastOf(ModelLines(lines), "default")
    BY <2>5, <2>6, MaxOf DEF LastOf
  <2>8. v["MAX_L1_TOKENS"] = "" => c.tokens = LastOf(TokenLines(lines), "default")
    BY <2>5, <2>6, MaxOf DEF LastOf
  <2>9. cfg'.model = IF model_override' # <<>> THEN model_override'[1]
                     ELSE IF v["MODEL_NAME"] # "" THEN v["MODEL_NAME"]
                     ELSE LastOf(ModelLines(lines), "default")
    BY <2>2, <2>3, <2>5, <2>7
  <2>10. cfg'.tokens = IF v["MAX_L1_TOKENS"] # "" THEN parse_size_t(v["MAX_L1_TOKENS"], "default")
                       ELSE LastOf(TokenLines(lines), "default")
    BY <2>2, <2>3, <2>5, <2>8
  <2>11. KeyLines(lines) \in SUBSET Nat
    <3>1. DOMAIN lines \subseteq Nat BY <2>l
    <3> QED BY <3>1 DEF KeyLines
  <2>12. /\ FromEnv(v).key # "" => c.key = FromEnv(v).key /\ c.source = FromEnv(v).source
         /\ FromEnv(v).key = "" =>
              \/ KeyLines(lines) = {} /\ c.key = "" /\ c.source = FromEnv(v).source
              \/ \E i \in KeyLines(lines) : /\ \A j \in KeyLines(lines) : i <= j
                                            /\ c.key = lines[i].value
                                            /\ c.source = lines[i].name
    <3>1. v \in [Names -> STRING] /\ c = load_from_env(v, lines) BY <2>2, <2>3, <2>4
    <3> QED BY <3>1, <2>l, LoadSource
  <2>13. <<c.source, c.key>> =
           IF v["GROQ_API_KEY"] # "" THEN <<"GROQ_API_KEY", v["GROQ_API_KEY"]>>
           ELSE IF v["OPENAI_API_KEY"] # "" THEN <<"OPENAI_API_KEY", v["OPENAI_API_KEY"]>>
           ELSE IF KeyLines(lines) = {} THEN <<"", "">>
           ELSE <<lines[Min(KeyLines(lines))].name, lines[Min(KeyLines(lines))].value>>
    <3>0. FromEnv(v).key = discover_api_key(v)[2] /\ FromEnv(v).source = discover_api_key(v)[1]
      BY <2>2, <2>4, FromEnvFacts
    <3>1. CASE v["GROQ_API_KEY"] # ""
      <4>1. discover_api_key(v) = <<"GROQ_API_KEY", v["GROQ_API_KEY"]>>
        BY <3>1 DEF discover_api_key
      <4>2. FromEnv(v).key = v["GROQ_API_KEY"] /\ FromEnv(v).source = "GROQ_API_KEY"
        BY ONLY <3>0, <4>1
      <4> QED BY ONLY <2>12, <3>1, <4>2
    <3>2. CASE v["GROQ_API_KEY"] = "" /\ v["OPENAI_API_KEY"] # ""
      <4>1. discover_api_key(v) = <<"OPENAI_API_KEY", v["OPENAI_API_KEY"]>>
        BY <3>2 DEF discover_api_key
      <4>2. FromEnv(v).key = v["OPENAI_API_KEY"] /\ FromEnv(v).source = "OPENAI_API_KEY"
        BY ONLY <3>0, <4>1
      <4> QED BY ONLY <2>12, <3>2, <4>2
    <3>3. CASE v["GROQ_API_KEY"] = "" /\ v["OPENAI_API_KEY"] = ""
      <4>1. discover_api_key(v) = <<"", "">> BY <3>3 DEF discover_api_key
      <4>2. PICK d : d = discover_api_key(v) OBVIOUS
      <4>3. d = <<"", "">> BY <4>1, <4>2
      <4>4. d[1] = "" /\ d[2] = "" BY ONLY <4>3
      <4>5. FromEnv(v).key = "" /\ FromEnv(v).source = "" BY <3>0, <4>2, <4>4
      <4>6. CASE KeyLines(lines) = {} BY ONLY <2>12, <3>3, <4>5, <4>6
      <4>7. CASE KeyLines(lines) # {}
        <5>1. PICK i \in KeyLines(lines) : /\ \A j \in KeyLines(lines) : i <= j
                                           /\ c.key = lines[i].value
                                           /\ c.source = lines[i].name
          BY <2>12, <4>5, <4>7
        <5>2. Min(KeyLines(lines)) = i BY <2>11, <5>1, MinOf
        <5> QED BY ONLY <3>3, <4>7, <5>1, <5>2
      <4> QED BY <4>6, <4>7
    <3> QED BY <3>1, <3>2, <3>3
  <2>14. KeyMatches'
    <3>1. /\ cfg'.key = c.key /\ cfg'.source = c.source /\ v = env' /\ lines' = lines
      BY <2>2, <2>3, <2>4
    <3>2. KeyGivers' = KeyLines(lines) BY <3>1 DEF KeyGivers, KeyLines, GivesKey
    <3> QED BY ONLY <2>13, <3>1, <3>2 DEF KeyMatches
  <2> QED BY <2>2, <2>4, <2>9, <2>10, <2>14
       DEF SettingsMatch, LastOf, ModelLines, TokenLines, parse_size_t
<1>2. IInv /\ (Next \/ UNCHANGED vars)
        => [stage = "off" /\ stage' # "off" => SettingsMatch']_vars
  BY <1>1
<1>3. [MCNext]_MCvars => Next \/ UNCHANGED vars BY DEF MCNext, MCvars
<1> QED BY <1>2, <1>3, MCSteps, KeyInvariance, PTL DEF SettingsFollowSources

-----------------------------------------------------------------------------
(* TextKernels                                                             *)

LEMMA TextConstants ==
    /\ W512 \in Nat \ {0} /\ W256 \in Nat \ {0} /\ W128 \in Nat \ {0} /\ Chunk \in Nat \ {0}
    /\ W256 <= W512
    /\ \A input \in Inputs :
         /\ input.text \in Seq(STRING) /\ input.level \in Text!Levels
         /\ input.junk \in Seq(STRING) /\ Len(input.junk) = W512
BY ComponentsAssumption
   DEF Text!MatcherAssumption, Text!SanitizerAssumption, Text!TextAssumption

LEMMA TextCardinality == \A S : Text!Cardinality(S) = Cardinality(S)
BY DEF Text!Cardinality, Cardinality

LEMMA TextMin ==
    ASSUME NEW S \in SUBSET Nat, S # {}
    PROVE  Text!Min(S) \in S /\ \A x \in S : Text!Min(S) <= x
<1>1. PICK m \in S : \A x \in S : m <= x BY NatLeast
<1> DEFINE n == CHOOSE x \in S : \A y \in S : x <= y
<1>2. n \in S /\ \A y \in S : n <= y BY <1>1
<1> HIDE DEF n
<1> QED BY <1>2 DEF Text!Min, n

(* r is the offset of the first byte of set from off on. *)
IsFirst(p, off, set, r) ==
    /\ r \in off..Len(p)
    /\ \A i \in off..(r - 1) : p[i + 1] \notin set
    /\ r < Len(p) => p[r + 1] \in set

LEMMA FirstFromIs ==
    ASSUME NEW p \in Seq(STRING), NEW off \in 0..Len(p), NEW set
    PROVE  IsFirst(p, off, set, Text!FirstFrom(p, off, set))
<1> DEFINE found == {i \in off..(Len(p) - 1) : p[i + 1] \in set}
<1>0. Len(p) \in Nat /\ off \in Nat OBVIOUS
<1>1. CASE found = {}
  <2>1. Text!FirstFrom(p, off, set) = Len(p) BY <1>1 DEF Text!FirstFrom
  <2>2. Len(p) \in off..Len(p) /\ ~ (Len(p) < Len(p)) BY <1>0
  <2>3. \A i \in off..(Len(p) - 1) : p[i + 1] \notin set BY <1>1
  <2> QED BY <2>1, <2>2, <2>3 DEF IsFirst
<1>2. CASE found # {}
  <2>1. Text!FirstFrom(p, off, set) = Text!Min(found) BY <1>2 DEF Text!FirstFrom
  <2>2. found \in SUBSET Nat BY <1>0
  <2>3. PICK r : r = Text!Min(found) OBVIOUS
  <2>4. r \in found /\ \A x \in found : r <= x
    <3> HIDE DEF found
    <3> QED BY <2>2, <2>3, <1>2, TextMin
  <2>5. \A i \in off..(r - 1) : i \in off..(Len(p) - 1) /\ ~ (r <= i) BY <2>4, <1>0
  <2>6. \A i \in off..(r - 1) : p[i + 1] \notin set BY <2>4, <2>5
  <2> QED BY <1>0, <2>1, <2>3, <2>4, <2>6 DEF IsFirst
<1> QED BY <1>1, <1>2

LEMMA FirstIsOne ==
    ASSUME NEW p \in Seq(STRING), NEW off \in 0..Len(p), NEW set, NEW r, NEW s,
           IsFirst(p, off, set, r), IsFirst(p, off, set, s)
    PROVE  r = s
<1>0. Len(p) \in Nat /\ off \in Nat OBVIOUS
<1>1. r \in Nat /\ s \in Nat /\ off <= r /\ off <= s /\ r <= Len(p) /\ s <= Len(p)
  BY <1>0 DEF IsFirst
<1>2. ASSUME r < s PROVE FALSE
  <2>1. r \in off..(s - 1) /\ r < Len(p) BY <1>1, <1>2, <1>0
  <2> QED BY <2>1 DEF IsFirst
<1>3. ASSUME s < r PROVE FALSE
  <2>1. s \in off..(r - 1) /\ s < Len(p) BY <1>1, <1>3, <1>0
  <2> QED BY <2>1 DEF IsFirst
<1> QED BY <1>1, <1>2, <1>3

(* The lanes with a byte of set among the w bytes at off, as far as there are *)
(* that many: what lies behind the text plays no part.                     *)
LanesOf(p, off, set, w) == {k \in 0..(w - 1) : off + k < Len(p) /\ p[off + k + 1] \in set}

LEMMA BlockLanes ==
    ASSUME NEW p \in Seq(STRING), NEW w \in Nat \ {0}, NEW off \in Nat,
           off + w <= Len(p), NEW set
    PROVE  Text!Lanes(Text!Block(p, off, w), set) = LanesOf(p, off, set, w)
<1> DEFINE b == SubSeq(p, off + 1, off + w)
<1>0. Len(p) \in Nat OBVIOUS
<1>1. b \in Seq(STRING) /\ Len(b) = w /\ \A k \in 1..w : b[k] = p[off + k]
  <2>1. off + 1 \in Nat /\ off + w \in Nat /\ 1 <= off + 1 /\ off + w <= Len(p)
        /\ off + 1 <= off + w + 1
    BY <1>0
  <2>2. Len(b) = w BY <2>1
  <2>3. \A k \in 1..w : b[k] = p[off + k]
    <3>1. TAKE k \in 1..w
    <3>2. k \in 1..(off + w - (off + 1) + 1) /\ k + (off + 1) - 1 = off + k
      BY ONLY <3>1, <2>1
    <3>3. b[k] = p[k + (off + 1) - 1] BY <3>2, <2>1
    <3> QED BY <3>2, <3>3
  <2>4. b \in Seq(STRING) BY <2>1
  <2> QED BY <2>2, <2>3, <2>4
<1>2. \A k \in 0..(w - 1) : k + 1 \in 1..w /\ off + k < Len(p) /\ off + (k + 1) = off + k + 1
  BY <1>0
<1> HIDE DEF b
<1>3. \A k \in 0..(w - 1) : b[k + 1] = p[off + k + 1] BY <1>1, <1>2
<1>4. Text!Lanes(b, set) = {k \in 0..(w - 1) : b[k + 1] \in set} BY <1>1 DEF Text!Lanes
<1> QED BY <1>2, <1>3, <1>4 DEF Text!Block, LanesOf, b

LEMMA MatchesAre ==
    ASSUME Text!TypeOK, NEW p \in Seq(STRING), NEW w \in Nat \ {0}, w <= W512,
           NEW off \in Nat, off < Len(p), NEW set
    PROVE  Text!Matches(p, off, set, w) = LanesOf(p, off, set, w)
<1>0. Len(p) \in Nat /\ junk \in Seq(STRING) /\ Len(junk) = W512 /\ W512 \in Nat
  BY TextConstants DEF Text!TypeOK
<1>1. CASE off + w <= Len(p)
  <2>1. Text!Matches(p, off, set, w) = Text!Lanes(Text!Block(p, off, w), set)
    BY <1>1 DEF Text!Matches
  <2> QED BY <2>1, <1>1, BlockLanes
<1>2. CASE ~ (off + w <= Len(p))
  <2> DEFINE tail == Len(p) - off
             a == SubSeq(p, off + 1, Len(p))
             z == SubSeq(junk, tail + 1, w)
             b == a \o z
  <2>1. tail \in Nat /\ 1 <= tail /\ tail < w BY <1>0, <1>2
  <2>2. a \in Seq(STRING) /\ Len(a) = tail /\ \A k \in 1..tail : a[k] = p[off + k]
    BY <1>0, SuffixFacts
  <2>3. z \in Seq(STRING) /\ Len(z) = w - tail
    <3>1. tail + 1 \in Nat /\ w \in Nat /\ 1 <= tail + 1 /\ w <= Len(junk) /\ tail + 1 <= w + 1
      BY <1>0, <2>1
    <3> HIDE DEF tail
    <3> QED BY ONLY <3>1, <1>0, <2>1
  <2> HIDE DEF a, z, tail
  <2>4. Len(b) = w /\ \A k \in 1..tail : b[k] = p[off + k]
    <3>1. Len(b) = Len(a) + Len(z) /\ \A k \in 1..Len(a) : b[k] = a[k] BY <2>2, <2>3
    <3> HIDE DEF b
    <3>2. Len(b) = w BY ONLY <3>1, <2>1, <2>2, <2>3
    <3> QED BY <3>1, <3>2, <2>2
  <2> HIDE DEF b
  <2>5. Text!Matches(p, off, set, w) =
          {k \in 0..(w - 1) : b[k + 1] \in set} \cap (0..(tail - 1))
    BY <1>2, <2>4 DEF Text!Matches, Text!TailBlock, Text!TailMask, Text!Lanes, a, z, tail, b
  <2>6. \A k \in 0..(w - 1) : off + k < Len(p) <=> k \in 0..(tail - 1)
    BY <1>0, <2>1 DEF tail
  <2>7. \A k \in 0..(tail - 1) : b[k + 1] = p[off + k + 1] /\ k \in 0..(w - 1)
    <3>1. TAKE k \in 0..(tail - 1)
    <3>2. k + 1 \in 1..tail /\ k \in 0..(w - 1) /\ off + (k + 1) = off + k + 1 BY <2>1
    <3> QED BY <3>2, <2>4
  <2> QED BY <2>5, <2>6, <2>7 DEF LanesOf
<1> QED BY <1>1, <1>2

(* A search may go on block by block. *)
LEMMA FirstFromBlocks ==
    ASSUME NEW p \in Seq(STRING), NEW w \in Nat \ {0}, NEW off \in Nat, off < Len(p), NEW set
    PROVE  Text!FirstFrom(p, off, set) =
             IF LanesOf(p, off, set, w) # {} THEN off + Text!Min(LanesOf(p, off, set, w))
             ELSE Text!FirstFrom(p, off + w, set)
<1> DEFINE M == LanesOf(p, off, set, w)
<1>0. Len(p) \in Nat /\ off \in 0..Len(p) OBVIOUS
<1>1. PICK f : f = Text!FirstFrom(p, off, set) OBVIOUS
<1>2. IsFirst(p, off, set, f) BY <1>0, <1>1, FirstFromIs
<1>3. \A k \in 0..(w - 1) : off + k < Len(p) => (k \in M <=> p[off + k + 1] \in set)
  BY DEF LanesOf
<1>4. M \in SUBSET Nat /\ M \subseteq 0..(w - 1) /\ \A k \in M : off + k < Len(p) /\ p[off + k + 1] \in set
  BY DEF LanesOf
<1> HIDE DEF M
<1>5. CASE M # {}
  <2>1. PICK m : m = Text!Min(M) OBVIOUS
  <2>2. m \in M /\ \A x \in M : m <= x BY <1>4, <1>5, <2>1, TextMin
  <2>3. m \in Nat /\ off + m < Len(p) /\ m <= w - 1 /\ p[off + m + 1] \in set
    BY <2>2, <1>4
  <2>4. \A i \in off..(off + m - 1) : p[i + 1] \notin set
    <3>1. TAKE i \in off..(off + m - 1)
    <3>2. PICK k \in Int : k = i - off BY <1>0, <2>3
    <3>3. k \in 0..(w - 1) /\ off + k < Len(p) /\ ~ (m <= k) /\ off + k + 1 = i + 1
      BY ONLY <3>1, <3>2, <1>0, <2>3
    <3>4. k \notin M BY <2>2, <3>3
    <3>5. p[off + k + 1] \notin set BY <1>3, <3>3, <3>4
    <3> QED BY <3>3, <3>5
  <2>5. off + m \in off..Len(p) BY <1>0, <2>3
  <2>6. IsFirst(p, off, set, off + m) BY <2>3, <2>4, <2>5 DEF IsFirst
  <2>7. f = off + m BY <1>0, <1>2, <2>6, FirstIsOne
  <2> QED BY <1>1, <1>5, <2>1, <2>7 DEF M
<1>6. CASE M = {}
  <2>1. \A i \in off..(Len(p) - 1) : i < off + w => p[i + 1] \notin set
    <3>1. TAKE i \in off..(Len(p) - 1)
    <3>2. HAVE i < off + w
    <3>3. PICK k \in Int : k = i - off BY <1>0
    <3>4. k \in 0..(w - 1) /\ off + k < Len(p) /\ off + k + 1 = i + 1
      BY ONLY <3>1, <3>2, <3>3, <1>0
    <3>5. p[off + k + 1] \notin set BY <1>3, <1>6, <3>4
    <3> QED BY <3>4, <3>5
  <2>2. PICK q : q = Text!FirstFrom(p, off + w, set) OBVIOUS
  <2>3. CASE off + w <= Len(p)
    <3>1. off + w \in 0..Len(p) BY <2>3, <1>0
    <3>2. IsFirst(p, off + w, set, q) BY <2>2, <3>1, FirstFromIs
    <3>3. q \in (off + w)..Len(p) /\ (q < Len(p) => p[q + 1] \in set)
          /\ \A i \in (off + w)..(q - 1) : p[i + 1] \notin set
      BY <3>2 DEF IsFirst
    <3>4. \A i \in off..(q - 1) : p[i + 1] \notin set
      <4>1. TAKE i \in off..(q - 1)
      <4>2. q \in Int /\ off + w \in Int /\ q <= Len(p) BY <3>1, <3>3
      <4>3. i \in off..(Len(p) - 1) /\ (i < off + w \/ i \in (off + w)..(q - 1))
        BY ONLY <4>1, <4>2, <1>0
      <4> QED BY <4>3, <2>1, <3>3
    <3>5. q \in off..Len(p) BY <3>1, <3>3, <1>0
    <3>6. IsFirst(p, off, set, q) BY <3>3, <3>4, <3>5 DEF IsFirst
    <3>7. f = q BY <1>0, <1>2, <3>6, FirstIsOne
    <3> QED BY <1>1, <1>6, <2>2, <3>7 DEF M
  <2>4. CASE ~ (off + w <= Len(p))
    <3>1. (off + w)..(Len(p) - 1) = {} BY <2>4, <1>0
    <3>2. q = Len(p) BY <2>2, <3>1 DEF Text!FirstFrom
    <3>3. \A i \in off..(Len(p) - 1) : i < off + w BY <2>4, <1>0
    <3>4. Len(p) \in off..Len(p) /\ ~ (Len(p) < Len(p)) BY <1>0
    <3>5. \A i \in off..(Len(p) - 1) : p[i + 1] \notin set BY <2>1, <3>3
    <3>6. IsFirst(p, off, set, Len(p)) BY <3>4, <3>5 DEF IsFirst
    <3>7. f = q BY <1>0, <1>2, <3>2, <3>6, FirstIsOne
    <3> QED BY <1>1, <1>6, <2>2, <3>7 DEF M
  <2> QED BY <2>3, <2>4
<1> QED BY <1>5, <1>6

LEMMA FirstAtEnd ==
    ASSUME NEW p \in Seq(STRING), NEW off \in Nat, ~ (off < Len(p)), NEW set
    PROVE  Text!FirstFrom(p, off, set) = Len(p)
<1>1. off..(Len(p) - 1) = {} BY Len(p) \in Nat
<1> QED BY <1>1 DEF Text!FirstFrom

LEMMA MaskedFindIs ==
    ASSUME Text!TypeOK, NEW p \in Seq(STRING), NEW w \in Nat \ {0}, w <= W512, NEW set
    PROVE  Text!MaskedFind(p, set, w) = Text!FirstFrom(p, 0, set)
<1> DEFINE n == Len(p)
           Step(f, off) == IF off >= n THEN n
                           ELSE IF Text!Matches(p, off, set, w) # {}
                                THEN off + Text!Min(Text!Matches(p, off, set, w))
                                ELSE f[off + w]
           Rec(f) == f = [off \in 0..(n + w) |-> Step(f, off)]
           first == [off \in 0..(n + w) |-> Text!FirstFrom(p, off, set)]
           g == CHOOSE f : Rec(f)
           D == n..(n + w)
<1>0. n \in Nat OBVIOUS
<1>1. Text!MaskedFind(p, set, w) = g[0] BY DEF Text!MaskedFind
<1>2. \A off \in 0..(n + w) : off \in D \/ off + w \in 0..(n + w) BY <1>0
<1>3. \A off \in 0..(n + w) : off \in D <=> off >= n BY <1>0
<1>4. \A off \in 0..(n + w) : first[off] = Step(first, off)
  <2>1. TAKE off \in 0..(n + w)
  <2>2. CASE off >= n
    <3>1. off \in Nat /\ ~ (off < n) BY <1>0, <2>1, <2>2
    <3> QED BY <3>1, <2>1, <2>2, FirstAtEnd
  <2>3. CASE ~ (off >= n)
    <3>1. off \in Nat /\ off < n BY <1>0, <2>1, <2>3
    <3>2. Text!Matches(p, off, set, w) = LanesOf(p, off, set, w) BY <3>1, MatchesAre
    <3>3. Text!FirstFrom(p, off, set) =
             IF LanesOf(p, off, set, w) # {} THEN off + Text!Min(LanesOf(p, off, set, w))
             ELSE Text!FirstFrom(p, off + w, set)
      BY <3>1, FirstFromBlocks
    <3>4. off + w \in 0..(n + w) BY <3>1, <1>0
    <3> QED BY <2>1, <2>3, <3>2, <3>3, <3>4
  <2> QED BY <2>2, <2>3
<1>5. Rec(first)
  <2> DEFINE r == [off \in 0..(n + w) |-> Step(first, off)]
  <2>1. \A off \in 0..(n + w) : r[off] = first[off] BY <1>4
  <2> HIDE DEF Step
  <2> QED BY <2>1
<1>6. Rec(g)
  <2> HIDE DEF Rec, first
  <2> QED BY <1>5
<1> HIDE DEF g, first
<1>7. \A off \in 0..(n + w) : g[off] = Step(g, off) BY <1>6
<1>8. \A off \in 0..(n + w) : off \in D => g[off] = first[off] BY <1>3, <1>4, <1>7
<1>9. \A off \in 0..(n + w) :
        off \notin D /\ g[off + w] = first[off + w] => g[off] = first[off]
  BY <1>4, <1>7
<1> HIDE DEF D, Step
<1>10. \A off \in 0..(n + w) : g[off] = first[off]
  <2> DEFINE Diff == {off \in 0..(n + w) : g[off] # first[off]}
  <2>1. \A off \in Diff : off + w \in Diff /\ off < off + w
    <3>1. TAKE off \in Diff
    <3>2. off \in 0..(n + w) /\ g[off] # first[off] OBVIOUS
    <3>3. off \notin D BY <3>2, <1>8
    <3>4. off + w \in 0..(n + w) BY <3>2, <3>3, <1>2
    <3>5. g[off + w] # first[off + w] BY <3>2, <3>3, <1>9
    <3>6. off < off + w BY <3>2, <1>0
    <3> QED BY <3>4, <3>5, <3>6
  <2>2. Diff \in SUBSET (0..(n + w)) /\ n + w \in Nat BY <1>0
  <2> HIDE DEF Diff, n
  <2>3. Diff = {} BY ONLY <2>1, <2>2, NoneFurtherOn
  <2> QED BY <2>3 DEF Diff
<1>11. 0 \in 0..(n + w) BY <1>0
<1>12. first[0] = Text!FirstFrom(p, 0, set) BY <1>11 DEF first
<1> QED BY <1>1, <1>10, <1>11, <1>12

-----------------------------------------------------------------------------
(* The bytes c of p from off on, and their number.                          *)
At(p, c, off) == {i \in off..(Len(p) - 1) : p[i + 1] = c}
CountFrom(p, c, off) == Cardinality(At(p, c, off))

LEMMA AtFinite ==
    ASSUME NEW p \in Seq(STRING), NEW c, NEW off \in Nat
    PROVE  IsFiniteSet(At(p, c, off)) /\ CountFrom(p, c, off) \in Nat
<1>1. IsFiniteSet(off..(Len(p) - 1)) BY FS_Interval, off \in Int, Len(p) - 1 \in Int
<1>2. At(p, c, off) \in SUBSET (off..(Len(p) - 1)) BY DEF At
<1>3. IsFiniteSet(At(p, c, off)) BY <1>1, <1>2, FS_Subset
<1> QED BY <1>3, FS_CardinalityType DEF CountFrom

LEMMA LanesCounted ==
    ASSUME NEW p \in Seq(STRING), NEW w \in Nat \ {0}, NEW off \in Nat, NEW c
    PROVE  /\ IsFiniteSet(LanesOf(p, off, {c}, w))
           /\ Cardinality(LanesOf(p, off, {c}, w)) = Cardinality(At(p, c, off) \ At(p, c, off + w))
<1> DEFINE L == LanesOf(p, off, {c}, w)
           A == At(p, c, off) \ At(p, c, off + w)
           f == [k \in L |-> off + k]
<1>0. Len(p) \in Nat OBVIOUS
<1>1. IsFiniteSet(L)
  <2>1. IsFiniteSet(0..(w - 1)) BY FS_Interval, w - 1 \in Int
  <2>2. L \in SUBSET (0..(w - 1)) BY DEF LanesOf
  <2> HIDE DEF L
  <2> QED BY <2>1, <2>2, FS_Subset
<1>2. \A k \in L : k \in Nat /\ off + k \in A
  <2>1. TAKE k \in L
  <2>2. k \in 0..(w - 1) /\ off + k < Len(p) /\ p[off + k + 1] = c BY DEF LanesOf
  <2>3. off + k \in off..(Len(p) - 1) /\ off + k \notin (off + w)..(Len(p) - 1) BY <2>2, <1>0
  <2> QED BY <2>2, <2>3 DEF At
<1>3. \A i \in A : i - off \in L /\ off + (i - off) = i
  <2>1. TAKE i \in A
  <2>2. i \in off..(Len(p) - 1) /\ p[i + 1] = c /\ i \notin (off + w)..(Len(p) - 1) BY DEF At
  <2>3. PICK k \in Int : k = i - off BY <2>2
  <2>4. k \in 0..(w - 1) /\ off + k < Len(p) /\ off + k + 1 = i + 1 /\ off + k = i
    BY ONLY <2>2, <2>3, <1>0, off \in Nat, w \in Nat \ {0}
  <2>5. p[off + k + 1] = c BY <2>2, <2>4
  <2> QED BY <2>3, <2>4, <2>5 DEF LanesOf
<1> HIDE DEF L, A
<1>4. f \in Bijection(L, A)
  <2>1. f \in [L -> A] BY <1>2
  <2>2. \A x, y \in L : f[x] = f[y] => x = y BY <1>2
  <2>3. \A i \in A : \E k \in L : f[k] = i BY <1>3
  <2> HIDE DEF f
  <2> QED BY ONLY <2>1, <2>2, <2>3 DEF Bijection, Injection, Surjection, IsInjective
<1>5. ExistsBijection(L, A) BY <1>4 DEF ExistsBijection
<1>6. Cardinality(A) = Cardinality(L) BY <1>1, <1>5, FS_Bijection
<1> QED BY <1>1, <1>6 DEF L, A

(* A count may go on block by block. *)
LEMMA CountFromBlocks ==
    ASSUME NEW p \in Seq(STRING), NEW w \in Nat \ {0}, NEW off \in Nat, NEW c
    PROVE  CountFrom(p, c, off) =
             Cardinality(LanesOf(p, off, {c}, w)) + CountFrom(p, c, off + w)
<1> DEFINE A == At(p, c, off)
           B == At(p, c, off + w)
<1>0. Len(p) \in Nat /\ off + w \in Nat OBVIOUS
<1>1. IsFiniteSet(A) /\ Cardinality(A) \in Nat BY AtFinite DEF CountFrom
<1>2. Cardinality(B) \in Nat BY <1>0, AtFinite DEF CountFrom
<1>3. A \cap B = B
  <2>1. (off + w)..(Len(p) - 1) \subseteq off..(Len(p) - 1) BY <1>0
  <2> QED BY <2>1 DEF At
<1>4. Cardinality(LanesOf(p, off, {c}, w)) = Cardinality(A \ B) BY LanesCounted
<1> HIDE DEF A, B
<1>5. Cardinality(A \ B) = Cardinality(A) - Cardinality(A \cap B) BY <1>1, FS_Difference
<1>6. Cardinality(A) = Cardinality(A \ B) + Cardinality(B)
  <2>1. Cardinality(A \cap B) = Cardinality(B) BY <1>3
  <2>2. PICK x : x = Cardinality(A \ B) OBVIOUS
  <2>3. PICK a \in Nat : a = Cardinality(A) BY <1>1
  <2>4. PICK b \in Nat : b = Cardinality(B) BY <1>2
  <2>5. x = a - b BY <1>5, <2>1, <2>2, <2>3, <2>4
  <2>6. a = x + b BY ONLY <2>5
  <2> QED BY <2>2, <2>3, <2>4, <2>6
<1> QED BY <1>4, <1>6 DEF CountFrom, A, B

LEMMA CountAtEnd ==
    ASSUME NEW p \in Seq(STRING), NEW off \in Nat, ~ (off < Len(p)), NEW c
    PROVE  CountFrom(p, c, off) = 0
<1>1. off..(Len(p) - 1) = {} BY Len(p) \in Nat
<1>2. At(p, c, off) = {} BY <1>1 DEF At
<1> QED BY <1>2, FS_EmptySet DEF CountFrom

(* The scalar count. *)
LEMMA ScalarCount ==
    ASSUME NEW p \in Seq(STRING), NEW c
    PROVE  Text!count_byte_scalar(p, c) = CountFrom(p, c, 0)
<1>0. 0 + 0 = 0 /\ Len(p) \in Nat OBVIOUS
<1>1. Text!Lanes(p, {c}) = At(p, c, 0) BY DEF Text!Lanes, At
<1> QED BY <1>1, TextCardinality DEF Text!count_byte_scalar, CountFrom

LEMMA MaskedCountIs ==
    ASSUME Text!TypeOK, NEW p \in Seq(STRING), NEW w \in Nat \ {0}, w <= W512, NEW c
    PROVE  Text!MaskedCount(p, c, w) = CountFrom(p, c, 0)
<1> DEFINE n == Len(p)
           Step(f, off) == IF off >= n THEN 0
                           ELSE Cardinality(LanesOf(p, off, {c}, w)) + f[off + w]
           Of(f, off) == IF off >= n THEN 0
                         ELSE Text!Cardinality(Text!Matches(p, off, {c}, w)) + f[off + w]
           Rec(f) == f = [off \in 0..(n + w) |-> Of(f, off)]
           count == [off \in 0..(n + w) |-> CountFrom(p, c, off)]
           g == CHOOSE f : Rec(f)
<1>0. n \in Nat OBVIOUS
<1>1. Text!MaskedCount(p, c, w) = g[0] BY DEF Text!MaskedCount
<1>2. \A off \in 0..(n + w) : ~ (off >= n) =>
        Text!Cardinality(Text!Matches(p, off, {c}, w)) = Cardinality(LanesOf(p, off, {c}, w))
  <2>1. TAKE off \in 0..(n + w)
  <2>2. HAVE ~ (off >= n)
  <2>3. off \in Nat /\ off < n BY <1>0, <2>1, <2>2
  <2>4. Text!Matches(p, off, {c}, w) = LanesOf(p, off, {c}, w) BY <2>3, MatchesAre
  <2> QED BY <2>4, TextCardinality
<1>3. \A off \in 0..(n + w) : count[off] = Step(count, off)
  <2>1. TAKE off \in 0..(n + w)
  <2>2. CASE off >= n
    <3>1. off \in Nat /\ ~ (off < n) BY <1>0, <2>1, <2>2
    <3> QED BY <3>1, <2>1, <2>2, CountAtEnd
  <2>3. CASE ~ (off >= n)
    <3>1. off \in Nat /\ off + w \in 0..(n + w) BY <1>0, <2>1, <2>3
    <3>2. CountFrom(p, c, off) =
             Cardinality(LanesOf(p, off, {c}, w)) + CountFrom(p, c, off + w)
      BY <3>1, CountFromBlocks
    <3> QED BY <2>1, <2>3, <3>1, <3>2
  <2> QED BY <2>2, <2>3
<1>4. \A f : \A off \in 0..(n + w) : Of(f, off) = Step(f, off) BY <1>2
<1>5. Rec(count)
  <2> DEFINE r == [off \in 0..(n + w) |-> Of(count, off)]
  <2>1. \A off \in 0..(n + w) : r[off] = count[off]
    <3> HIDE DEF Step
    <3>1. TAKE off \in 0..(n + w)
    <3>2. r[off] = Of(count, off) OBVIOUS
    <3> HIDE DEF r, Of, count
    <3> QED BY <3>2, <1>3, <1>4
  <2> HIDE DEF Of
  <2> QED BY <2>1
<1>6. Rec(g)
  <2> HIDE DEF Rec, count
  <2> QED BY <1>5
<1> HIDE DEF g, count
<1>7. \A off \in 0..(n + w) : g[off] = Step(g, off)
  <2>1. \A off \in 0..(n + w) : g[off] = Of(g, off) BY <1>6
  <2> HIDE DEF Of, Step
  <2> QED BY <2>1, <1>4
<1>8. \A off \in 0..(n + w) : off >= n => g[off] = count[off] BY <1>3, <1>7
<1>9. \A off \in 0..(n + w) : ~ (off >= n) /\ g[off + w] = count[off + w] => g[off] = count[off]
  BY <1>3, <1>7
<1> HIDE DEF Step, n, Rec, Of
<1>10. \A off \in 0..(n + w) : g[off] = count[off]
  <2> DEFINE Diff == {off \in 0..(n + w) : g[off] # count[off]}
  <2>1. \A off \in Diff : off + w \in Diff /\ off < off + w
    <3>1. TAKE off \in Diff
    <3>2. off \in 0..(n + w) /\ g[off] # count[off] OBVIOUS
    <3>3. ~ (off >= n) BY <3>2, <1>8
    <3>4. off + w \in 0..(n + w) /\ off < off + w BY <3>2, <3>3, <1>0
    <3>5. g[off + w] # count[off + w] BY <3>2, <3>3, <1>9
    <3> QED BY <3>4, <3>5
  <2>2. Diff \in SUBSET (0..(n + w)) /\ n + w \in Nat BY <1>0
  <2> HIDE DEF Diff
  <2>3. Diff = {} BY ONLY <2>1, <2>2, NoneFurtherOn
  <2> QED BY <2>3 DEF Diff
<1>11. 0 \in 0..(n + w) BY <1>0
<1>12. count[0] = CountFrom(p, c, 0) BY <1>11 DEF count
<1> QED BY <1>1, <1>10, <1>11, <1>12

(* The NEON kernels finish with the scalar loop. *)
LEMMA NeonFindIs ==
    ASSUME NEW p \in Seq(STRING), NEW set
    PROVE  Text!find_first_of_neon(p, set) = Text!FirstFrom(p, 0, set)
<1> DEFINE n == Len(p)
           w == W128
           Hits(off) == Text!Lanes(Text!Block(p, off, w), set)
           Of(f, off) == IF off + w > n THEN Text!FirstFrom(p, off, set)
                         ELSE IF Hits(off) # {} /\ Hits(off) # {} THEN off + Text!Min(Hits(off))
                         ELSE f[off + w]
           Rec(f) == f = [off \in 0..(n + w) |-> Of(f, off)]
           first == [off \in 0..(n + w) |-> Text!FirstFrom(p, off, set)]
           g == CHOOSE f : Rec(f)
<1>0. n \in Nat /\ w \in Nat \ {0} BY TextConstants
<1>1. Text!find_first_of_neon(p, set) = g[0]
  BY DEF Text!find_first_of_neon, Text!NeonFind
<1>2. \A off \in 0..(n + w) : first[off] = Of(first, off)
  <2>1. TAKE off \in 0..(n + w)
  <2>2. CASE off + w > n BY <2>1, <2>2
  <2>3. CASE ~ (off + w > n)
    <3>1. off \in Nat /\ off < n /\ off + w <= n BY <1>0, <2>1, <2>3
    <3>2. Hits(off) = LanesOf(p, off, set, w) BY <1>0, <3>1, BlockLanes
    <3>3. Text!FirstFrom(p, off, set) =
             IF LanesOf(p, off, set, w) # {} THEN off + Text!Min(LanesOf(p, off, set, w))
             ELSE Text!FirstFrom(p, off + w, set)
      <4> HIDE DEF w
      <4> QED BY <1>0, <3>1, FirstFromBlocks
    <3>4. off + w \in 0..(n + w) BY <3>1, <1>0
    <3> HIDE DEF Hits, w
    <3> QED BY <2>1, <2>3, <3>2, <3>3, <3>4
  <2> QED BY <2>2, <2>3
<1>3. Rec(first)
  <2> DEFINE r == [off \in 0..(n + w) |-> Of(first, off)]
  <2>1. \A off \in 0..(n + w) : r[off] = first[off]
    <3>1. TAKE off \in 0..(n + w)
    <3>2. r[off] = Of(first, off) OBVIOUS
    <3> HIDE DEF r, Of, first
    <3> QED BY <3>2, <1>2
  <2> HIDE DEF Of
  <2> QED BY <2>1
<1>4. Rec(g)
  <2> HIDE DEF Rec, first
  <2> QED BY <1>3
<1> HIDE DEF g, first, Hits
<1>5. \A off \in 0..(n + w) : g[off] = Of(g, off) BY <1>4
<1>6. \A off \in 0..(n + w) : off + w > n => g[off] = first[off] BY <1>2, <1>5
<1>7. \A off \in 0..(n + w) : ~ (off + w > n) /\ g[off + w] = first[off + w] => g[off] = first[off]
  BY <1>2, <1>5
<1> HIDE DEF n, w, Rec, Of
<1>8. \A off \in 0..(n + w) : g[off] = first[off]
  <2> DEFINE Diff == {off \in 0..(n + w) : g[off] # first[off]}
  <2>1. \A off \in Diff : off + w \in Diff /\ off < off + w
    <3>1. TAKE off \in Diff
    <3>2. off \in 0..(n + w) /\ g[off] # first[off] OBVIOUS
    <3>3. ~ (off + w > n) BY <3>2, <1>6
    <3>4. off + w \in 0..(n + w) /\ off < off + w BY <3>2, <3>3, <1>0
    <3>5. g[off + w] # first[off + w] BY <3>2, <3>3, <1>7
    <3> QED BY <3>4, <3>5
  <2>2. Diff \in SUBSET (0..(n + w)) /\ n + w \in Nat BY <1>0
  <2> HIDE DEF Diff
  <2>3. Diff = {} BY ONLY <2>1, <2>2, NoneFurtherOn
  <2> QED BY <2>3 DEF Diff
<1>9. 0 \in 0..(n + w) BY <1>0
<1>10. first[0] = Text!FirstFrom(p, 0, set) BY <1>9 DEF first
<1> QED BY <1>1, <1>8, <1>9, <1>10

(* The byte search on NEON, where no whole block holds the byte: each of its *)
(* blocks is passed over, and the scalar loop finds the byte in the rest.   *)
LEMMA NeonByteIs ==
    ASSUME NEW p \in Seq(STRING), NEW c, Text!OnlyInTail(p, c)
    PROVE  Text!find_byte_neon(p, c) = Text!FirstFrom(p, 0, {c})
<1> DEFINE n == Len(p)
           w == W128
           Hits(off) == Text!Lanes(Text!Block(p, off, w), {c})
           Other(off) == (0..(w - 1)) \ Hits(off)
           Of(f, off) == IF off + w > n THEN Text!FirstFrom(p, off, {c})
                         ELSE IF Hits(off) # {} /\ Other(off) # {} THEN off + Text!Min(Other(off))
                         ELSE f[off + w]
           Rec(f) == f = [off \in 0..(n + w) |-> Of(f, off)]
           first == [off \in 0..(n + w) |-> Text!FirstFrom(p, off, {c})]
           D == {off \in 0..(n + w) : off + w > n \/ (Hits(off) # {} /\ Other(off) # {})}
           g == CHOOSE f : Rec(f)
           Whole(off) == \E k \in Nat : off = k * w
<1>0. n \in Nat /\ w \in Nat \ {0} BY TextConstants
<1>1. Text!find_byte_neon(p, c) = g[0]
  BY DEF Text!find_byte_neon, Text!NeonFind
<1>2. \A off \in 0..(n + w) : ~ (off + w > n) =>
        /\ Hits(off) = LanesOf(p, off, {c}, w)
        /\ first[off] = IF Hits(off) # {} THEN off + Text!Min(Hits(off)) ELSE first[off + w]
  <2>1. TAKE off \in 0..(n + w)
  <2>2. HAVE ~ (off + w > n)
  <2>3. off \in Nat /\ off < n /\ off + w <= n BY <1>0, <2>1, <2>2
  <2>4. Hits(off) = LanesOf(p, off, {c}, w) BY <1>0, <2>3, BlockLanes
  <2>5. Text!FirstFrom(p, off, {c}) =
           IF LanesOf(p, off, {c}, w) # {} THEN off + Text!Min(LanesOf(p, off, {c}, w))
           ELSE Text!FirstFrom(p, off + w, {c})
    <3>1. \A set : Text!FirstFrom(p, off, set) =
             IF LanesOf(p, off, set, w) # {} THEN off + Text!Min(LanesOf(p, off, set, w))
             ELSE Text!FirstFrom(p, off + w, set)
      <4> HIDE DEF w
      <4> QED BY <1>0, <2>3, FirstFromBlocks
    <3> QED BY <3>1
  <2>6. off + w \in 0..(n + w) BY <2>3, <1>0
  <2> HIDE DEF Hits, w
  <2> QED BY <2>1, <2>4, <2>5, <2>6
<1>3. Rec(g)
  <2> DEFINE base == [off \in 0..(n + w) |-> IF off + w > n THEN Text!FirstFrom(p, off, {c})
                                            ELSE off + Text!Min(Other(off))]
             next == [off \in 0..(n + w) |-> off + w]
  <2>1. \A off \in 0..(n + w) : off \notin D => next[off] \in (off + 1)..(n + w)
    <3>1. TAKE off \in 0..(n + w)
    <3>2. HAVE off \notin D
    <3>3. ~ (off + w > n) BY <3>1, <3>2
    <3>4. off + w \in (off + 1)..(n + w) BY <1>0, <3>1, <3>3
    <3> QED BY <3>4
  <2>2. n + w \in Nat BY <1>0
  <2> DEFINE b == n + w
  <2> HIDE DEF D, Hits, Other, b
  <2>3. PICK f : Jumps(f, b, D, base, next)
    <3> HIDE DEF base, next
    <3>1. b \in Nat /\ \A k \in 0..b : k \notin D => next[k] \in (k + 1)..b
      BY <2>1, <2>2 DEF b
    <3> QED BY ONLY <3>1, JumpYields
  <2>4. \A off \in 0..(n + w) :
          (IF off \in D THEN base[off] ELSE f[next[off]]) = Of(f, off)
    BY DEF D
  <2>5. Rec(f)
    <3> DEFINE r == [off \in 0..(n + w) |-> Of(f, off)]
               s == [off \in 0..(n + w) |-> IF off \in D THEN base[off] ELSE f[next[off]]]
    <3>1. \A off \in 0..(n + w) : s[off] = r[off]
      <4> HIDE DEF Of, base, next
      <4> QED BY <2>4
    <3>2. f = s BY <2>3 DEF Jumps, b
    <3> HIDE DEF Of, base, next
    <3>3. s = r BY <3>1
    <3> QED BY <3>2, <3>3
  <2> HIDE DEF Rec
  <2> QED BY <2>5
<1> HIDE DEF g, first, Hits, Other
<1>4. \A off \in 0..(n + w) : g[off] = Of(g, off) BY <1>3
<1>5. \A off \in 0..(n + w) : off + w > n => g[off] = first[off]
  BY <1>4 DEF first
<1>6. \A off \in 0..(n + w) : Whole(off) /\ ~ (off + w > n) => Hits(off) = {} /\ Whole(off + w)
  <2>1. TAKE off \in 0..(n + w)
  <2>2. HAVE Whole(off) /\ ~ (off + w > n)
  <2>3. PICK k \in Nat : off = k * w BY <2>2
  <2>4. k <= off
    <3>1. \A i, j \in Nat : j # 0 => i <= i * j OBVIOUS
    <3> QED BY ONLY <3>1, <2>3, <1>0
  <2>5. k \in 0..n /\ off + w <= n BY ONLY <2>1, <2>2, <2>3, <2>4, <1>0
  <2>6. Hits(off) = {} BY <2>3, <2>5 DEF Text!OnlyInTail, Hits
  <2>7. (k + 1) * w = off + w /\ k + 1 \in Nat BY ONLY <2>3, <1>0
  <2> QED BY <2>6, <2>7
<1>7. \A off \in 0..(n + w) :
        Whole(off) /\ ~ (off + w > n) /\ g[off + w] = first[off + w] => g[off] = first[off]
  <2>1. TAKE off \in 0..(n + w)
  <2>2. HAVE Whole(off) /\ ~ (off + w > n) /\ g[off + w] = first[off + w]
  <2>3. Hits(off) = {} BY <1>6, <2>2
  <2> HIDE DEF Whole
  <2> QED BY <1>2, <1>4, <2>2, <2>3
<1> HIDE DEF n, w, Rec, Of
<1>8. \A off \in 0..(n + w) : Whole(off) => g[off] = first[off]
  <2> DEFINE Diff == {off \in 0..(n + w) : Whole(off) /\ g[off] # first[off]}
  <2>1. \A off \in Diff : off + w \in Diff /\ off < off + w
    <3>1. TAKE off \in Diff
    <3>2. off \in 0..(n + w) /\ Whole(off) /\ g[off] # first[off] OBVIOUS
    <3> HIDE DEF Whole
    <3>3. ~ (off + w > n) BY <3>2, <1>5
    <3>4. off + w \in 0..(n + w) /\ off < off + w BY <3>2, <3>3, <1>0
    <3>5. g[off + w] # first[off + w] /\ Whole(off + w) BY <3>2, <3>3, <1>6, <1>7
    <3> QED BY <3>4, <3>5
  <2>2. Diff \in SUBSET (0..(n + w)) /\ n + w \in Nat BY <1>0
  <2> HIDE DEF Diff
  <2>3. Diff = {} BY ONLY <2>1, <2>2, NoneFurtherOn
  <2> QED BY <2>3 DEF Diff
<1>9. 0 \in 0..(n + w) /\ Whole(0)
  <2>1. 0 * w = 0 BY <1>0
  <2> QED BY <2>1, <1>0
<1>10. first[0] = Text!FirstFrom(p, 0, {c}) BY <1>9 DEF first
<1> QED BY <1>1, <1>8, <1>9, <1>10

LEMMA NeonCountIs ==
    ASSUME NEW p \in Seq(STRING), NEW c
    PROVE  Text!count_byte_neon(p, c) = CountFrom(p, c, 0)
<1> DEFINE n == Len(p)
           w == W128
           Of(f, off) == IF off + w > n THEN Text!Cardinality({i \in off..(n - 1) : p[i + 1] = c})
                         ELSE Text!Cardinality(Text!Lanes(Text!Block(p, off, w), {c})) + f[off + w]
           Rec(f) == f = [off \in 0..(n + w) |-> Of(f, off)]
           count == [off \in 0..(n + w) |-> CountFrom(p, c, off)]
           g == CHOOSE f : Rec(f)
<1>0. n \in Nat /\ w \in Nat \ {0} BY TextConstants
<1>1. Text!count_byte_neon(p, c) = g[0] BY DEF Text!count_byte_neon
<1>2. \A off \in 0..(n + w) : count[off] = Of(count, off)
  <2>1. TAKE off \in 0..(n + w)
  <2>2. CASE off + w > n BY <2>1, <2>2, TextCardinality DEF CountFrom, At
  <2>3. CASE ~ (off + w > n)
    <3>1. off \in Nat /\ off + w <= n /\ off + w \in 0..(n + w) BY <1>0, <2>1, <2>3
    <3>2. Text!Lanes(Text!Block(p, off, w), {c}) = LanesOf(p, off, {c}, w)
      BY <1>0, <3>1, BlockLanes
    <3>3. CountFrom(p, c, off) =
             Cardinality(LanesOf(p, off, {c}, w)) + CountFrom(p, c, off + w)
      <4> HIDE DEF w
      <4> QED BY <1>0, <3>1, CountFromBlocks
    <3>4. Text!Cardinality(Text!Lanes(Text!Block(p, off, w), {c})) =
             Cardinality(LanesOf(p, off, {c}, w))
      BY <3>2, TextCardinality
    <3> HIDE DEF w
    <3> QED BY <2>1, <2>3, <3>1, <3>3, <3>4
  <2> QED BY <2>2, <2>3
<1>3. Rec(count)
  <2> DEFINE r == [off \in 0..(n + w) |-> Of(count, off)]
  <2>1. \A off \in 0..(n + w) : r[off] = count[off]
    <3>1. TAKE off \in 0..(n + w)
    <3>2. r[off] = Of(count, off) OBVIOUS
    <3> HIDE DEF r, Of, count
    <3> QED BY <3>2, <1>2
  <2> HIDE DEF Of
  <2> QED BY <2>1
<1>4. Rec(g)
  <2> HIDE DEF Rec, count
  <2> QED BY <1>3
<1> HIDE DEF g, count
<1>5. \A off \in 0..(n + w) : g[off] = Of(g, off) BY <1>4
<1>6. \A off \in 0..(n + w) : off + w > n => g[off] = count[off] BY <1>2, <1>5
<1>7. \A off \in 0..(n + w) : ~ (off + w > n) /\ g[off + w] = count[off + w] => g[off] = count[off]
  BY <1>2, <1>5
<1> HIDE DEF n, w, Rec, Of
<1>8. \A off \in 0..(n + w) : g[off] = count[off]
  <2> DEFINE Diff == {off \in 0..(n + w) : g[off] # count[off]}
  <2>1. \A off \in Diff : off + w \in Diff /\ off < off + w
    <3>1. TAKE off \in Diff
    <3>2. off \in 0..(n + w) /\ g[off] # count[off] OBVIOUS
    <3>3. ~ (off + w > n) BY <3>2, <1>6
    <3>4. off + w \in 0..(n + w) /\ off < off + w BY <3>2, <3>3, <1>0
    <3>5. g[off + w] # count[off + w] BY <3>2, <3>3, <1>7
    <3> QED BY <3>4, <3>5
  <2>2. Diff \in SUBSET (0..(n + w)) /\ n + w \in Nat BY <1>0
  <2> HIDE DEF Diff
  <2>3. Diff = {} BY ONLY <2>1, <2>2, NoneFurtherOn
  <2> QED BY <2>3 DEF Diff
<1>9. 0 \in 0..(n + w) BY <1>0
<1>10. count[0] = CountFrom(p, c, 0) BY <1>9 DEF count
<1> QED BY <1>1, <1>8, <1>9, <1>10

(* Whatever the level, a search finds what the scalar loop finds; that of    *)
(* NEON for a byte does so where no whole block holds the byte.            *)
LEMMA SearchesAgree ==
    ASSUME Text!TypeOK, NEW p \in Seq(STRING), NEW set, NEW c
    PROVE  /\ Text!simd_find_first_of(p, set) = Text!find_first_of_scalar(p, set)
           /\ level # "Neon" \/ Text!OnlyInTail(p, c) =>
                Text!simd_find_byte(p, c) = Text!find_byte_scalar(p, c)
           /\ Text!simd_count_byte(p, c) = Text!count_byte_scalar(p, c)
<1>1. W512 <= W512 /\ W256 <= W512 /\ W512 \in Nat \ {0} /\ W256 \in Nat \ {0} BY TextConstants
<1>2. level \in {"Avx512", "Avx2", "Neon", "Scalar"} BY DEF Text!TypeOK, Text!Levels
<1>3. \A s : /\ Text!MaskedFind(p, s, W512) = Text!FirstFrom(p, 0, s)
             /\ Text!MaskedFind(p, s, W256) = Text!FirstFrom(p, 0, s)
             /\ Text!find_first_of_neon(p, s) = Text!FirstFrom(p, 0, s)
  <2>1. TAKE s
  <2>2. Text!MaskedFind(p, s, W512) = Text!FirstFrom(p, 0, s) BY <1>1, MaskedFindIs
  <2>3. Text!MaskedFind(p, s, W256) = Text!FirstFrom(p, 0, s) BY <1>1, MaskedFindIs
  <2> QED BY <2>2, <2>3, NeonFindIs
<1>4. /\ Text!MaskedCount(p, c, W512) = CountFrom(p, c, 0)
      /\ Text!MaskedCount(p, c, W256) = CountFrom(p, c, 0)
      /\ Text!count_byte_neon(p, c) = CountFrom(p, c, 0)
      /\ Text!count_byte_scalar(p, c) = CountFrom(p, c, 0)
  BY <1>1, MaskedCountIs, NeonCountIs, ScalarCount
<1>5. Text!simd_find_first_of(p, set) = Text!find_first_of_scalar(p, set)
  BY <1>2, <1>3 DEF Text!simd_find_first_of, Text!find_first_of_avx512, Text!find_first_of_avx2,
     Text!find_first_of_scalar
<1>6. level # "Neon" \/ Text!OnlyInTail(p, c) =>
        Text!simd_find_byte(p, c) = Text!find_byte_scalar(p, c)
  BY <1>2, <1>3, NeonByteIs DEF Text!simd_find_byte, Text!find_byte_avx512,
     Text!find_byte_avx2, Text!find_byte_scalar
<1>7. Text!simd_count_byte(p, c) = Text!count_byte_scalar(p, c)
  BY <1>2, <1>4 DEF Text!simd_count_byte, Text!count_byte_avx512, Text!count_byte_avx2
<1> QED BY <1>5, <1>6, <1>7

-----------------------------------------------------------------------------
-----------------------------------------------------------------------------
(* Where the bytes from pos on are that are no spaces.                      *)
Starts(p, pos) == {i \in pos..(Len(p) - 1) : p[i + 1] \notin Spaces}

(* From s on to e there is a word, and no further.                          *)
WordEnds(p, s, e) ==
    /\ e \in (s + 1)..Len(p)
    /\ \A k \in (s + 1)..e : p[k] \notin Spaces
    /\ e < Len(p) => p[e + 1] \in Spaces

LEMMA StartFound ==
    ASSUME NEW p \in Seq(STRING), NEW pos \in 0..Len(p), Starts(p, pos) # {}
    PROVE  /\ Text!Min(Starts(p, pos)) \in pos..(Len(p) - 1)
           /\ p[Text!Min(Starts(p, pos)) + 1] \notin Spaces
           /\ \A i \in pos..(Text!Min(Starts(p, pos)) - 1) : p[i + 1] \in Spaces
<1> DEFINE s == Text!Min(Starts(p, pos))
<1>0. Len(p) \in Nat /\ pos \in Nat OBVIOUS
<1>1. Starts(p, pos) \in SUBSET Nat BY <1>0 DEF Starts
<1>2. s \in Starts(p, pos) /\ \A x \in Starts(p, pos) : s <= x BY <1>1, TextMin
<1> HIDE DEF s
<1>3. s \in pos..(Len(p) - 1) /\ p[s + 1] \notin Spaces BY <1>2 DEF Starts
<1>4. \A i \in pos..(s - 1) : p[i + 1] \in Spaces
  <2>1. TAKE i \in pos..(s - 1)
  <2>2. i \in pos..(Len(p) - 1) /\ ~ (s <= i) BY <1>0, <1>3, <2>1
  <2>3. i \notin Starts(p, pos) BY <1>2, <2>2
  <2> QED BY <2>2, <2>3 DEF Starts
<1> QED BY <1>3, <1>4 DEF s

LEMMA TokenEndIs ==
    ASSUME Text!TypeOK, NEW p \in Seq(STRING), NEW s \in 0..(Len(p) - 1), p[s + 1] \notin Spaces
    PROVE  WordEnds(p, s, Text!TokenEnd(p, s))
<1> DEFINE q == SubSeq(p, s + 1, Len(p))
           n == Len(p)
           r == Text!FirstFrom(q, 0, Spaces)
<1>0. n \in Nat /\ s \in Nat /\ s < n /\ s \in 0..n OBVIOUS
<1>1. q \in Seq(STRING) /\ Len(q) = n - s /\ \A i \in 1..(n - s) : q[i] = p[s + i]
  BY <1>0, SuffixFacts
<1> HIDE DEF q, n
<1>2. Text!TokenEnd(p, s) = s + r
  <2>1. Text!simd_find_first_of(q, Spaces) = r
    BY <1>1, SearchesAgree DEF Text!find_first_of_scalar
  <2> HIDE DEF r
  <2> QED BY <2>1 DEF Text!TokenEnd, Text!simd_find_ws, q, n
<1>3. IsFirst(q, 0, Spaces, r)
  <2>1. 0 \in 0..Len(q) BY <1>0, <1>1
  <2> QED BY <1>1, <2>1, FirstFromIs
<1> HIDE DEF r
<1>4. r \in 0..(n - s) BY <1>1, <1>3 DEF IsFirst
<1>5. r # 0
  <2> SUFFICES ASSUME r = 0 PROVE FALSE OBVIOUS
  <2>1. r < Len(q) /\ 1 \in 1..(n - s) BY <1>0, <1>1
  <2>2. q[0 + 1] \in Spaces BY <1>3, <2>1 DEF IsFirst
  <2>3. q[1] = p[s + 1] BY <1>1, <2>1
  <2> QED BY <2>2, <2>3
<1>6. s + r \in (s + 1)..n BY <1>0, <1>4, <1>5
<1>7. \A k \in (s + 1)..(s + r) : p[k] \notin Spaces
  <2>1. TAKE k \in (s + 1)..(s + r)
  <2>2. PICK i \in Int : i = k - s - 1 BY <1>0
  <2>3. i \in 0..(r - 1) /\ i + 1 \in 1..(n - s) /\ s + (i + 1) = k
    BY ONLY <2>1, <2>2, <1>0, <1>4
  <2>4. q[i + 1] \notin Spaces BY <1>3, <2>3 DEF IsFirst
  <2>5. q[i + 1] = p[s + (i + 1)] BY <1>1, <2>3
  <2> QED BY <2>3, <2>4, <2>5
<1>8. s + r < n => p[s + r + 1] \in Spaces
  <2>1. HAVE s + r < n
  <2>2. r < Len(q) /\ r + 1 \in 1..(n - s) /\ s + (r + 1) = s + r + 1
    BY <2>1, <1>0, <1>1, <1>4
  <2>3. q[r + 1] \in Spaces BY <1>3, <2>2 DEF IsFirst
  <2>4. q[r + 1] = p[s + (r + 1)] BY <1>1, <2>2
  <2> QED BY <2>2, <2>3, <2>4
<1> QED BY <1>2, <1>6, <1>7, <1>8 DEF WordEnds, n

(* No word is cut at pos. *)
Boundary(p, pos) ==
    \/ pos = 0 \/ pos = Len(p)
    \/ p[pos] \in Spaces \/ p[pos + 1] \in Spaces

WordsFrom(p, pos) == {x \in Text!Words(p) : pos <= x[1]}

LEMMA WordsAre ==
    ASSUME NEW p \in Seq(STRING)
    PROVE  \A x : x \in Text!Words(p) <=>
             /\ x \in (0..Len(p)) \X (0..Len(p))
             /\ x[1] = 0 \/ p[x[1]] \in Spaces
             /\ WordEnds(p, x[1], x[2])
<1>0. Len(p) \in Nat OBVIOUS
<1>1. TAKE x
<1>2. CASE x \in (0..Len(p)) \X (0..Len(p))
  <2>1. x[1] \in 0..Len(p) /\ x[2] \in 0..Len(p) BY <1>2
  <2>2. x[1] < x[2] <=> x[2] \in (x[1] + 1)..Len(p) BY <2>1, <1>0
  <2>3. ~ (x[2] < Len(p)) <=> x[2] = Len(p) BY <2>1, <1>0
  <2> QED BY <1>2, <2>2, <2>3 DEF Text!Words, WordEnds
<1>3. CASE x \notin (0..Len(p)) \X (0..Len(p)) BY <1>3 DEF Text!Words
<1> QED BY <1>2, <1>3

LEMMA WordsStep ==
    ASSUME Text!TypeOK, NEW p \in Seq(STRING), NEW pos \in 0..Len(p), Boundary(p, pos),
           NEW s, s = Text!Min(Starts(p, pos)), NEW e, e = Text!TokenEnd(p, s)
    PROVE  /\ Starts(p, pos) = {} => WordsFrom(p, pos) = {}
           /\ Starts(p, pos) # {} =>
                /\ s \in Nat /\ e \in Nat /\ e \in (pos + 1)..Len(p) /\ Boundary(p, e)
                /\ s < e
                /\ WordsFrom(p, pos) = {<<s, e>>} \cup WordsFrom(p, e)
<1> DEFINE n == Len(p)
<1>0. n \in Nat /\ pos \in Nat /\ pos <= n OBVIOUS
<1>1. \A x \in WordsFrom(p, pos) :
        x \in (0..n) \X (0..n) /\ pos <= x[1] /\ x[1] < n /\ p[x[1] + 1] \notin Spaces
  <2>1. TAKE x \in WordsFrom(p, pos)
  <2>2. x \in (0..n) \X (0..n) /\ pos <= x[1] /\ WordEnds(p, x[1], x[2])
    BY WordsAre DEF WordsFrom
  <2>3. x[1] \in Nat /\ x[2] \in (x[1] + 1)..n BY <2>2 DEF WordEnds
  <2>4. x[1] < n /\ x[1] + 1 \in (x[1] + 1)..x[2] BY <2>3, <1>0
  <2> QED BY <2>2, <2>4 DEF WordEnds
<1>2. Starts(p, pos) = {} => WordsFrom(p, pos) = {}
  <2>1. \A x \in WordsFrom(p, pos) : x[1] \in pos..(n - 1) BY <1>0, <1>1
  <2>2. \A x \in WordsFrom(p, pos) : x[1] \in Starts(p, pos) BY <1>1, <2>1 DEF Starts
  <2> QED BY <2>2
<1>3. ASSUME Starts(p, pos) # {}
      PROVE  /\ s \in Nat /\ e \in Nat /\ e \in (pos + 1)..n /\ Boundary(p, e) /\ s < e
             /\ WordsFrom(p, pos) = {<<s, e>>} \cup WordsFrom(p, e)
  <2>1. /\ s \in pos..(n - 1) /\ p[s + 1] \notin Spaces
        /\ \A i \in pos..(s - 1) : p[i + 1] \in Spaces
    BY <1>3, StartFound
  <2>2. s \in 0..(n - 1) BY <1>0, <2>1
  <2>3. WordEnds(p, s, e) BY <2>1, <2>2, TokenEndIs
  <2>4. e \in (s + 1)..n /\ (\A k \in (s + 1)..e : p[k] \notin Spaces)
        /\ (e < n => p[e + 1] \in Spaces)
    BY <2>3 DEF WordEnds
  <2>5. s \in Nat /\ e \in Nat /\ e \in (pos + 1)..n /\ s < e /\ s \in 0..n /\ e \in 0..n
    BY ONLY <1>0, <2>1, <2>4
  <2>6. Boundary(p, e)
    <3>1. CASE e < n BY <3>1, <2>4 DEF Boundary
    <3>2. CASE ~ (e < n)
      <4>1. e = n BY <3>2, <2>5, <1>0
      <4> QED BY <4>1 DEF Boundary
    <3> QED BY <3>1, <3>2
  <2>7. s = 0 \/ p[s] \in Spaces
    <3>1. CASE s = pos
      <4>1. pos # n /\ p[pos + 1] \notin Spaces BY <3>1, <2>1, <1>0
      <4> QED BY <3>1, <4>1 DEF Boundary
    <3>2. CASE s # pos
      <4>1. s - 1 \in pos..(s - 1) /\ (s - 1) + 1 = s BY <3>2, <2>1, <1>0
      <4>2. p[(s - 1) + 1] \in Spaces BY <4>1, <2>1
      <4> QED BY <4>1, <4>2
    <3> QED BY <3>1, <3>2
  <2>8. <<s, e>> \in WordsFrom(p, pos)
    <3>1. <<s, e>> \in (0..n) \X (0..n) /\ <<s, e>>[1] = s /\ <<s, e>>[2] = e BY <2>5
    <3>2. <<s, e>> \in Text!Words(p) BY <3>1, <2>3, <2>7, WordsAre
    <3>3. pos <= s BY <2>1, <1>0
    <3> QED BY <3>1, <3>2, <3>3 DEF WordsFrom
  <2>9. \A x \in WordsFrom(p, e) : x \in WordsFrom(p, pos)
    <3>1. TAKE x \in WordsFrom(p, e)
    <3>2. x \in Text!Words(p) /\ e <= x[1] BY DEF WordsFrom
    <3>3. x[1] \in Int BY <3>2, WordsAre
    <3>4. pos <= x[1] BY <3>2, <3>3, <2>5, <1>0
    <3> QED BY <3>2, <3>4 DEF WordsFrom
  <2>10. \A x \in WordsFrom(p, pos) : x = <<s, e>> \/ x \in WordsFrom(p, e)
    <3>1. TAKE x \in WordsFrom(p, pos)
    <3>2. x \in Text!Words(p) /\ pos <= x[1] BY DEF WordsFrom
    <3>3. /\ x \in (0..n) \X (0..n)
          /\ x[1] = 0 \/ p[x[1]] \in Spaces
          /\ WordEnds(p, x[1], x[2])
      BY <3>2, WordsAre
    <3>4. PICK u \in 0..n, v \in 0..n : x = <<u, v>>
      <4>1. x \in (0..n) \X (0..n) BY <3>3
      <4> HIDE DEF n
      <4> QED BY ONLY <4>1
    <3>5. /\ u = 0 \/ p[u] \in Spaces
          /\ v \in (u + 1)..n /\ (\A k \in (u + 1)..v : p[k] \notin Spaces)
          /\ (v < n => p[v + 1] \in Spaces)
      BY <3>3, <3>4, <3>2, WordsAre DEF WordEnds
    <3>6. pos <= u BY <3>2, <3>4
    <3>7. ~ (u < s)
      <4> SUFFICES ASSUME u < s PROVE FALSE OBVIOUS
      <4>1. u \in pos..(s - 1) /\ u + 1 \in (u + 1)..v BY <3>5, <3>6, <2>5, <1>0
      <4> QED BY <4>1, <2>1, <3>5
    <3>8. CASE u = s
      <4>1. ~ (v < e)
        <5> SUFFICES ASSUME v < e PROVE FALSE OBVIOUS
        <5>1. v + 1 \in (s + 1)..e /\ v < n BY <3>5, <3>8, <2>5, <1>0
        <5> QED BY <5>1, <2>4, <3>5
      <4>2. ~ (e < v)
        <5> SUFFICES ASSUME e < v PROVE FALSE OBVIOUS
        <5>1. e + 1 \in (u + 1)..v /\ e < n BY <3>5, <3>8, <2>5, <1>0
        <5> QED BY <5>1, <2>4, <3>5
      <4>3. v = e BY <4>1, <4>2, <2>5
      <4> QED BY <3>4, <3>8, <4>3
    <3>9. CASE s < u
      <4>1. ~ (u <= e)
        <5> SUFFICES ASSUME u <= e PROVE FALSE OBVIOUS
        <5>1. u \in (s + 1)..e /\ u # 0 BY <3>9, <2>5
        <5> QED BY <5>1, <2>4, <3>5
      <4>2. e <= x[1] BY <4>1, <3>4, <2>5
      <4> QED BY <3>2, <4>2 DEF WordsFrom
    <3>10. u = s \/ s < u BY <3>7, <2>5
    <3> QED BY <3>8, <3>9, <3>10
  <2>11. WordsFrom(p, pos) = {<<s, e>>} \cup WordsFrom(p, e) BY <2>8, <2>9, <2>10
  <2> QED BY <2>5, <2>6, <2>11
<1> QED BY <1>2, <1>3

(* A list of words that begin at pos or later, in order. *)
Lists(t, W) ==
    /\ t \in Seq(Nat \X Nat)
    /\ \A i, j \in 1..Len(t) : i < j => t[i][1] < t[j][1]
    /\ {t[i] : i \in 1..Len(t)} = W

LEMMA ListsMore ==
    ASSUME NEW t, NEW W, Lists(t, W), NEW s \in Nat, NEW e \in Nat, \A x \in W : s < x[1]
    PROVE  Lists(<<<<s, e>>>> \o t, {<<s, e>>} \cup W)
<1> DEFINE y == <<s, e>>
           h == <<y>>
           r == h \o t
<1>0. t \in Seq(Nat \X Nat) /\ Len(t) \in Nat BY DEF Lists
<1>1. y \in Nat \X Nat /\ y[1] = s OBVIOUS
<1> HIDE DEF y
<1>2. h \in Seq(Nat \X Nat) /\ Len(h) = 1 /\ h[1] = y BY <1>1
<1> HIDE DEF h
<1>3. /\ r \in Seq(Nat \X Nat) /\ Len(r) = 1 + Len(t) /\ r[1] = y
      /\ \A i \in 1..Len(t) : r[1 + i] = t[i]
  <2>1. /\ h \o t \in Seq(Nat \X Nat) /\ Len(h \o t) = Len(h) + Len(t)
        /\ \A i \in 1..Len(h) : (h \o t)[i] = h[i]
        /\ \A i \in 1..Len(t) : (h \o t)[Len(h) + i] = t[i]
    <3>1. PICK S : S = Nat \X Nat OBVIOUS
    <3>2. h \in Seq(S) /\ t \in Seq(S) BY <1>0, <1>2, <3>1
    <3>3. /\ h \o t \in Seq(S) /\ Len(h \o t) = Len(h) + Len(t)
          /\ \A i \in 1..Len(h) : (h \o t)[i] = h[i]
          /\ \A i \in 1..Len(t) : (h \o t)[Len(h) + i] = t[i]
      BY ONLY <3>2, ConcatFacts
    <3> QED BY <3>1, <3>3
  <2>2. 1 \in 1..Len(h) BY <1>2
  <2> QED BY <2>1, <2>2, <1>2
<1> HIDE DEF r
<1>4. \A i \in 1..Len(r) : i = 1 \/ (i - 1 \in 1..Len(t) /\ r[i] = t[i - 1])
  <2>1. TAKE i \in 1..Len(r)
  <2>2. PICK m \in Nat : m = Len(t) BY <1>0
  <2>3. i \in 1..(1 + m) BY <2>1, <2>2, <1>3
  <2>4. i = 1 \/ (i - 1 \in 1..m /\ 1 + (i - 1) = i) BY ONLY <2>2, <2>3
  <2> QED BY <2>2, <2>4, <1>3
<1>5. \A i \in 1..Len(t) : 1 + i \in 1..Len(r) /\ t[i] \in W
  <2>1. TAKE i \in 1..Len(t)
  <2>2. PICK m \in Nat : m = Len(t) BY <1>0
  <2>3. 1 + i \in 1..(1 + m) BY ONLY <2>1, <2>2
  <2>4. t[i] \in W BY <2>1 DEF Lists
  <2> QED BY <2>2, <2>3, <2>4, <1>3
<1>6. \A i, j \in 1..Len(r) : i < j => r[i][1] < r[j][1]
  <2>1. TAKE i, j \in 1..Len(r)
  <2>2. HAVE i < j
  <2>3. j # 1 BY <2>2
  <2>4. j - 1 \in 1..Len(t) /\ r[j] = t[j - 1] BY <2>3, <1>4
  <2>5. CASE i = 1
    <3>1. t[j - 1] \in W BY <2>4, <1>5
    <3> QED BY <3>1, <2>4, <2>5, <1>1, <1>3
  <2>6. CASE i # 1
    <3>1. i - 1 \in 1..Len(t) /\ r[i] = t[i - 1] /\ i - 1 < j - 1 BY <2>2, <2>6, <1>4
    <3>2. t[i - 1][1] < t[j - 1][1] BY <3>1, <2>4 DEF Lists
    <3> QED BY <3>1, <3>2, <2>4
  <2> QED BY <2>5, <2>6
<1>7. {r[i] : i \in 1..Len(r)} = {y} \cup W
  <2>1. \A i \in 1..Len(r) : r[i] \in {y} \cup W BY <1>3, <1>4, <1>5
  <2>2. 1 \in 1..Len(r) BY <1>0, <1>3
  <2>3. \A x \in W : \E i \in 1..Len(r) : r[i] = x
    <3>1. TAKE x \in W
    <3>2. PICK i \in 1..Len(t) : t[i] = x BY DEF Lists
    <3> QED BY <3>2, <1>3, <1>5
  <2> QED BY <2>1, <2>2, <2>3, <1>3
<1> QED BY <1>3, <1>6, <1>7 DEF Lists, r, h, y

(* The tokens of a text are its words, in order. *)
LEMMA TokensAreWords ==
    ASSUME Text!TypeOK, NEW p \in Seq(STRING)
    PROVE  Lists(Text!simd_tokens(p), Text!Words(p))
<1> DEFINE n == Len(p)
           St(k) == Starts(p, k)
           b(k) == Text!Min(Starts(p, k))
           e(k) == Text!TokenEnd(p, b(k))
           Of(f, k) == IF St(k) = {} THEN <<>> ELSE <<<<b(k), e(k)>>>> \o f[e(k)]
           Rec(f) == f = [k \in 0..n |-> Of(f, k)]
           g == CHOOSE f : Rec(f)
           D == {k \in 0..n : St(k) = {}}
           base == [k \in 0..n |-> <<>>]
           out == [k \in 0..n |-> <<<<b(k), e(k)>>>>]
           next == [k \in 0..n |-> e(k)]
<1>0. n \in Nat OBVIOUS
<1>1. Text!simd_tokens(p) = g[0] BY DEF Text!simd_tokens, Starts
<1>2. \A k \in 0..n : St(k) # {} => b(k) \in Nat /\ e(k) \in (k + 1)..n
  <2>1. TAKE k \in 0..n
  <2>2. HAVE St(k) # {}
  <2>3. b(k) \in k..(n - 1) /\ p[b(k) + 1] \notin Spaces BY <2>2, StartFound
  <2> HIDE DEF b
  <2>4. b(k) \in 0..(n - 1) BY <2>3
  <2>5. WordEnds(p, b(k), e(k)) BY <2>3, <2>4, TokenEndIs
  <2> HIDE DEF e
  <2>6. e(k) \in (b(k) + 1)..n BY <2>5 DEF WordEnds
  <2> QED BY <2>3, <2>4, <2>6, <1>0
<1> HIDE DEF St, b, e
<1>3. \E f : Rec(f)
  <2>1. \A k \in 0..n : k \in D => base[k] \in Seq(Nat \X Nat) OBVIOUS
  <2>2. \A k \in 0..n : k \notin D => out[k] \in Seq(Nat \X Nat) /\ next[k] \in (k + 1)..n
    <3>1. TAKE k \in 0..n
    <3>2. HAVE k \notin D
    <3>3. b(k) \in Nat /\ e(k) \in (k + 1)..n BY <1>2, <3>2
    <3>4. e(k) \in Nat BY <3>3, <3>1
    <3>5. <<<<b(k), e(k)>>>> \in Seq(Nat \X Nat) BY <3>3, <3>4
    <3> QED BY <3>3, <3>5
  <2>3. PICK S : S = Nat \X Nat OBVIOUS
  <2> HIDE DEF D, base, out, next, n
  <2>4. \E f \in [0..n -> Seq(S)] : Yields(f, 0, n, D, base, out, next)
    <3>1. /\ \A k \in 0..n : k \in D => base[k] \in Seq(S)
          /\ \A k \in 0..n : k \notin D => out[k] \in Seq(S) /\ next[k] \in (k + 1)..n
          /\ 0 <= n /\ 0 \in Nat
      BY <2>1, <2>2, <2>3, <1>0
    <3> QED BY ONLY <3>1, <1>0, LoopYields
  <2>5. PICK f \in [0..n -> Seq(S)] : Yields(f, 0, n, D, base, out, next) BY <2>4
  <2> DEFINE r == [k \in 0..n |-> Of(f, k)]
  <2>6. \A k \in 0..n : f[k] = r[k] BY <2>5 DEF Yields, D, base, out, next
  <2> HIDE DEF Of
  <2> QED BY <2>6
<1>4. Rec(g)
  <2> HIDE DEF Rec
  <2> QED BY <1>3
<1> HIDE DEF g
<1>5. \A k \in 0..n : g[k] = Of(g, k)
  <2> HIDE DEF Of
  <2> QED BY <1>4
<1>6. \A k \in 0..n : Boundary(p, k) /\ St(k) = {} => Lists(g[k], WordsFrom(p, k))
  <2>1. TAKE k \in 0..n
  <2>2. HAVE Boundary(p, k) /\ St(k) = {}
  <2>3. g[k] = <<>> BY <1>5, <2>2
  <2>4. WordsFrom(p, k) = {} BY <2>2, WordsStep DEF St
  <2> QED BY <2>3, <2>4 DEF Lists
<1>7. \A k \in 0..n : Boundary(p, k) /\ St(k) # {} =>
        /\ e(k) \in 0..n /\ k < e(k) /\ Boundary(p, e(k))
        /\ Lists(g[e(k)], WordsFrom(p, e(k))) => Lists(g[k], WordsFrom(p, k))
  <2>1. TAKE k \in 0..n
  <2>2. HAVE Boundary(p, k) /\ St(k) # {}
  <2>3. /\ b(k) \in Nat /\ e(k) \in Nat /\ e(k) \in (k + 1)..n /\ Boundary(p, e(k))
        /\ b(k) < e(k)
        /\ WordsFrom(p, k) = {<<b(k), e(k)>>} \cup WordsFrom(p, e(k))
    BY <2>2, WordsStep DEF St, b, e
  <2>4. e(k) \in 0..n /\ k < e(k) BY <2>3, <1>0
  <2>5. \A x \in WordsFrom(p, e(k)) : b(k) < x[1]
    <3>1. TAKE x \in WordsFrom(p, e(k))
    <3>2. x[1] \in Int /\ e(k) <= x[1] BY WordsAre DEF WordsFrom
    <3> QED BY <3>2, <2>3
  <2>6. g[k] = <<<<b(k), e(k)>>>> \o g[e(k)] BY <1>5, <2>2
  <2>7. ASSUME Lists(g[e(k)], WordsFrom(p, e(k))) PROVE Lists(g[k], WordsFrom(p, k))
    <3>1. Lists(<<<<b(k), e(k)>>>> \o g[e(k)], {<<b(k), e(k)>>} \cup WordsFrom(p, e(k)))
      BY <2>3, <2>5, <2>7, ListsMore
    <3> QED BY <3>1, <2>3, <2>6
  <2> QED BY <2>3, <2>4, <2>7
<1> HIDE DEF Of, n
<1>8. \A k \in 0..n : Boundary(p, k) => Lists(g[k], WordsFrom(p, k))
  <2> DEFINE Diff == {k \in 0..n : Boundary(p, k) /\ ~ Lists(g[k], WordsFrom(p, k))}
  <2>1. \A k \in Diff : e(k) \in Diff /\ k < e(k)
    <3>1. TAKE k \in Diff
    <3>2. k \in 0..n /\ Boundary(p, k) /\ ~ Lists(g[k], WordsFrom(p, k)) OBVIOUS
    <3>3. St(k) # {} BY <1>6, <3>2
    <3> QED BY <1>7, <3>2, <3>3
  <2>2. Diff \in SUBSET (0..n) BY <1>0
  <2> HIDE DEF Diff
  <2>3. Diff = {} BY ONLY <2>1, <2>2, <1>0, NoneFurtherOn
  <2> QED BY <2>3 DEF Diff
<1>9. 0 \in 0..n /\ Boundary(p, 0) BY <1>0 DEF Boundary
<1>10. WordsFrom(p, 0) = Text!Words(p)
  <2>1. \A x \in Text!Words(p) : 0 <= x[1] BY WordsAre
  <2> QED BY <2>1 DEF WordsFrom
<1> QED BY <1>1, <1>8, <1>9, <1>10

LEMMA KernelsAgreeTyped == Text!TypeOK => KernelsAgree
<1> SUFFICES ASSUME Text!TypeOK PROVE Text!KernelsAgree BY DEF KernelsAgree
<1>1. data \in Seq(STRING) BY DEF Text!TypeOK
<1>2. \A c : /\ level # "Neon" \/ Text!OnlyInTail(data, c) =>
                  Text!simd_find_byte(data, c) = Text!find_byte_scalar(data, c)
             /\ Text!simd_count_byte(data, c) = Text!count_byte_scalar(data, c)
  BY <1>1, SearchesAgree
<1>3. \A set : Text!simd_find_first_of(data, set) = Text!find_first_of_scalar(data, set)
  BY <1>1, SearchesAgree
<1>4. Text!ListsWords(Text!simd_tokens(data), data)
  <2>1. PICK t : t = Text!simd_tokens(data) OBVIOUS
  <2>2. Lists(t, Text!Words(data)) BY <1>1, <2>1, TokensAreWords
  <2>3. DOMAIN t = 1..Len(t) BY <2>2 DEF Lists
  <2>4. Text!ListsWords(t, data) BY <2>2, <2>3 DEF Lists, Text!ListsWords
  <2> QED BY <2>1, <2>4
<1> QED BY <1>2, <1>3, <1>4 DEF Text!KernelsAgree

-----------------------------------------------------------------------------
(* Bytes that control no terminal. *)
Harmless == STRING \ Text!Controls

LEMMA EscapeOver ==
    ASSUME NEW d \in Seq(STRING), NEW i \in 1..Len(d)
    PROVE  Text!consume_escape(d, i) \in (i + 1)..(Len(d) + 1)
<1> DEFINE n == Len(d)
           after(ends) == IF ends = {} THEN n + 1 ELSE Text!Min(ends)
           A == {k + 1 : k \in {k \in (i + 2)..n : d[k] \in Text!Finals}}
           B == {k + 1 : k \in {k \in (i + 2)..n : d[k] = "BEL"}}
                \cup {k + 2 : k \in {k \in (i + 2)..(n - 1) : d[k] = "ESC" /\ d[k + 1] = "BSL"}}
<1>0. n \in Nat /\ i \in Nat /\ 1 <= i /\ i <= n OBVIOUS
<1>1. A \subseteq (i + 1)..(n + 1)
  <2>1. \A k \in (i + 2)..n : k + 1 \in (i + 1)..(n + 1) BY <1>0
  <2> QED BY <2>1
<1>2. B \subseteq (i + 1)..(n + 1)
  <2>1. \A k \in (i + 2)..n : k + 1 \in (i + 1)..(n + 1) BY <1>0
  <2>2. \A k \in (i + 2)..(n - 1) : k + 2 \in (i + 1)..(n + 1) BY <1>0
  <2> QED BY <2>1, <2>2
<1>3. \A ends \in SUBSET ((i + 1)..(n + 1)) : after(ends) \in (i + 1)..(n + 1)
  <2>1. TAKE ends \in SUBSET ((i + 1)..(n + 1))
  <2>2. CASE ends = {} BY <2>2, <1>0
  <2>3. CASE ends # {}
    <3>1. ends \in SUBSET Nat BY <1>0
    <3>2. Text!Min(ends) \in ends BY <2>3, <3>1, TextMin
    <3> QED BY <2>3, <3>2
  <2> QED BY <2>2, <2>3
<1>4. i + 1 \in (i + 1)..(n + 1) /\ n + 1 \in (i + 1)..(n + 1) BY <1>0
<1>5. Text!consume_escape(d, i) =
        IF i = n THEN n + 1
        ELSE CASE d[i + 1] = "[" -> after(A)
               [] d[i + 1] = "]" -> after(B)
               [] OTHER -> i + 1
  BY DEF Text!consume_escape
<1>6. after(A) \in (i + 1)..(n + 1) /\ after(B) \in (i + 1)..(n + 1) BY <1>1, <1>2, <1>3
<1> HIDE DEF after, A, B, n
<1> QED BY <1>4, <1>5, <1>6 DEF n

(* The loop that looks at one byte at a time, as it goes on from any byte. *)
SafeNext(d, k) ==
    IF k > Len(d) THEN <<>>
    ELSE IF d[k] = "ESC" THEN Text!SafeFrom(d, Text!consume_escape(d, k))
    ELSE IF d[k] \in Text!Controls THEN Text!SafeFrom(d, k + 1)
    ELSE <<d[k]>> \o Text!SafeFrom(d, k + 1)

LEMMA SafeFromIs ==
    ASSUME NEW d \in Seq(STRING)
    PROVE  \A k \in 1..(Len(d) + 1) :
             Text!SafeFrom(d, k) \in Seq(Harmless) /\ Text!SafeFrom(d, k) = SafeNext(d, k)
<1> DEFINE n == Len(d)
           e(k) == Text!consume_escape(d, k)
           Of(f, k) == IF k > n THEN <<>>
                       ELSE IF d[k] = "ESC" THEN f[e(k)]
                       ELSE IF d[k] \in Text!Controls THEN f[k + 1]
                       ELSE <<d[k]>> \o f[k + 1]
           Rec(f) == f = [k \in 1..(n + 1) |-> Of(f, k)]
           g == CHOOSE f : Rec(f)
           D == {n + 1}
           base == [k \in 1..(n + 1) |-> <<>>]
           out == [k \in 1..(n + 1) |-> IF d[k] \in Text!Controls THEN <<>> ELSE <<d[k]>>]
           next == [k \in 1..(n + 1) |-> IF d[k] = "ESC" THEN e(k) ELSE k + 1]
<1>0. n \in Nat OBVIOUS
<1>1. \A k : Text!SafeFrom(d, k) = g[k] BY DEF Text!SafeFrom
<1>2. \A k \in 1..(n + 1) : k > n <=> k = n + 1 BY <1>0
<1>3. \A k \in 1..(n + 1) : k # n + 1 =>
        /\ d[k] \in STRING /\ k + 1 \in (k + 1)..(n + 1) /\ e(k) \in (k + 1)..(n + 1)
        /\ k + 1 \in 1..(n + 1) /\ e(k) \in 1..(n + 1) /\ k < k + 1 /\ k < e(k)
  <2>1. TAKE k \in 1..(n + 1)
  <2>2. HAVE k # n + 1
  <2>3. k \in 1..n BY <1>0, <2>2
  <2>4. e(k) \in (k + 1)..(n + 1) BY <2>3, EscapeOver
  <2>5. d[k] \in STRING BY <2>3
  <2> HIDE DEF e, n
  <2> QED BY <1>0, <2>3, <2>4, <2>5
<1>4. "ESC" \in Text!Controls BY DEF Text!Controls
<1> HIDE DEF e
<1>5. \A k \in 1..(n + 1) : k # n + 1 =>
        out[k] \in Seq(Harmless) /\ next[k] \in (k + 1)..(n + 1)
  <2>1. TAKE k \in 1..(n + 1)
  <2>2. HAVE k # n + 1
  <2>3. out[k] \in Seq(Harmless)
    <3>1. CASE d[k] \in Text!Controls BY <3>1
    <3>2. CASE d[k] \notin Text!Controls
      <4>1. d[k] \in Harmless BY <3>2, <2>2, <1>3 DEF Harmless
      <4> QED BY <4>1, <3>2
    <3> QED BY <3>1, <3>2
  <2> QED BY <2>2, <2>3, <1>3
<1>6. \E f : Rec(f)
  <2>1. \A k \in 1..(n + 1) : k \in D => base[k] \in Seq(Harmless) OBVIOUS
  <2>2. \A k \in 1..(n + 1) : k \notin D => out[k] \in Seq(Harmless) /\ next[k] \in (k + 1)..(n + 1)
    BY <1>5
  <2>3. PICK m \in Nat : m = n + 1 BY <1>0
  <2> HIDE DEF D, base, out, next
  <2>4. \E f \in [1..m -> Seq(Harmless)] : Yields(f, 1, m, D, base, out, next)
    <3>1. /\ \A k \in 1..m : k \in D => base[k] \in Seq(Harmless)
          /\ \A k \in 1..m : k \notin D => out[k] \in Seq(Harmless) /\ next[k] \in (k + 1)..m
          /\ 1 <= m /\ 1 \in Nat /\ m \in Nat
      BY <2>1, <2>2, <2>3, <1>0
    <3> HIDE DEF n
    <3> QED BY ONLY <3>1, LoopYields
  <2>5. PICK f \in [1..m -> Seq(Harmless)] : Yields(f, 1, m, D, base, out, next) BY <2>4
  <2>6. \A k \in 1..m : f[k] \in Seq(Harmless) /\ <<>> \o f[k] = f[k]
    <3>1. TAKE k \in 1..m
    <3>2. f[k] \in Seq(Harmless) BY <2>5
    <3> QED BY <3>2, ConcatEmptySeq
  <2> DEFINE r == [k \in 1..(n + 1) |-> Of(f, k)]
  <2>7. \A k \in 1..(n + 1) : f[k] = Of(f, k)
    <3>1. TAKE k \in 1..(n + 1)
    <3>2. f[k] = IF k \in D THEN base[k] ELSE out[k] \o f[next[k]] BY <2>3, <2>5 DEF Yields
    <3>3. CASE k = n + 1 BY <3>2, <3>3, <1>2 DEF D, base
    <3>4. CASE k # n + 1
      <4>1. f[k] = out[k] \o f[next[k]] /\ ~ (k > n) BY <3>2, <3>4, <1>2 DEF D
      <4>2. next[k] \in 1..m /\ k + 1 \in 1..m BY <1>3, <2>3, <3>4 DEF next
      <4>3. out[k] = (IF d[k] \in Text!Controls THEN <<>> ELSE <<d[k]>>)
            /\ next[k] = (IF d[k] = "ESC" THEN e(k) ELSE k + 1)
        BY DEF out, next
      <4>4. <<>> \o f[next[k]] = f[next[k]] BY <2>6, <4>2
      <4> QED BY <4>1, <4>3, <4>4, <1>4
    <3> QED BY <3>3, <3>4
  <2>8. \A k \in 1..(n + 1) : f[k] = r[k]
    <3> HIDE DEF Of
    <3> QED BY <2>7
  <2>9. f = r BY <2>3, <2>5, <2>8
  <2> HIDE DEF Of
  <2> QED BY <2>9
<1>7. Rec(g)
  <2> HIDE DEF Rec
  <2> QED BY <1>6
<1> HIDE DEF g
<1>8. \A k \in 1..(n + 1) : g[k] = Of(g, k)
  <2> HIDE DEF Of
  <2> QED BY <1>7
<1>9. \A k \in 1..(n + 1) : g[k] \in Seq(Harmless)
  <2> DEFINE Diff == {k \in 1..(n + 1) : g[k] \notin Seq(Harmless)}
  <2>1. \A k \in Diff : \E y \in Diff : k < y
    <3>1. TAKE k \in Diff
    <3>2. k \in 1..(n + 1) /\ g[k] \notin Seq(Harmless) /\ g[k] = Of(g, k) BY <1>8
    <3>3. k # n + 1 /\ ~ (k > n)
      <4>1. k > n => g[k] = <<>> BY <3>2
      <4>2. <<>> \in Seq(Harmless) OBVIOUS
      <4> QED BY <3>2, <4>1, <4>2, <1>2
    <3>4. CASE d[k] = "ESC"
      <4>1. g[k] = g[e(k)] BY <3>2, <3>3, <3>4
      <4> QED BY <3>2, <3>3, <4>1, <1>3
    <3>5. CASE d[k] # "ESC"
      <4>1. g[k + 1] \notin Seq(Harmless)
        <5> SUFFICES ASSUME g[k + 1] \in Seq(Harmless) PROVE FALSE OBVIOUS
        <5>1. CASE d[k] \in Text!Controls BY <3>2, <3>3, <3>5, <5>1
        <5>2. CASE d[k] \notin Text!Controls
          <6>1. d[k] \in Harmless BY <5>2, <3>2, <3>3, <1>3 DEF Harmless
          <6>2. <<d[k]>> \in Seq(Harmless) BY <6>1
          <6>3. <<d[k]>> \o g[k + 1] \in Seq(Harmless) BY <6>2, ConcatProperties
          <6> QED BY <3>2, <3>3, <3>5, <5>2, <6>3
        <5> QED BY <5>1, <5>2
      <4> QED BY <3>2, <3>3, <4>1, <1>3
    <3> QED BY <3>4, <3>5
  <2>2. Diff \in SUBSET (0..(n + 1)) /\ n + 1 \in Nat BY <1>0
  <2> HIDE DEF Diff, n
  <2>3. Diff = {} BY ONLY <2>1, <2>2, NoneFurtherOn
  <2> QED BY <2>3 DEF Diff
<1>10. \A k \in 1..(n + 1) : g[k] = SafeNext(d, k)
  BY <1>1, <1>8 DEF SafeNext, e
<1> QED BY <1>1, <1>9, <1>10

(* Bytes that are all harmless are kept. *)
LEMMA SafeRun ==
    ASSUME NEW d \in Seq(STRING), NEW k \in 1..(Len(d) + 1), NEW j \in k..(Len(d) + 1),
           \A i \in k..(j - 1) : d[i] \notin Text!Controls
    PROVE  Text!SafeFrom(d, k) = SubSeq(d, k, j - 1) \o Text!SafeFrom(d, j)
<1> DEFINE n == Len(d)
           safe(i) == Text!SafeFrom(d, i)
           Same(i) == safe(i) = SubSeq(d, i, j - 1) \o safe(j)
           Diff == {i \in k..j : ~ Same(i)}
<1>0. n \in Nat /\ k \in Nat /\ 1 <= k /\ j \in Nat /\ k <= j /\ j <= n + 1 OBVIOUS
<1>1. \A i \in 1..(n + 1) : safe(i) \in Seq(STRING)
  <2>1. TAKE i \in 1..(n + 1)
  <2>2. safe(i) \in Seq(Harmless) BY SafeFromIs
  <2>3. Harmless \subseteq STRING BY DEF Harmless
  <2> HIDE DEF safe
  <2> QED BY <2>2, <2>3, SeqMonotonic
<1>2. \A i \in k..j : i # j => i + 1 \in k..j /\ i < i + 1 /\ (Same(i + 1) => Same(i))
  <2>1. TAKE i \in k..j
  <2>2. HAVE i # j
  <2>3. i \in k..(j - 1) /\ i \in 1..n /\ j - 1 \in i..n /\ i \in 1..(n + 1) /\ ~ (i > n)
        /\ i + 1 \in k..j /\ i < i + 1 /\ i + 1 \in 1..(n + 1) /\ j \in 1..(n + 1)
    BY <1>0, <2>2
  <2>4. d[i] \notin Text!Controls /\ d[i] # "ESC" BY <2>3 DEF Text!Controls
  <2>5. safe(i) = <<d[i]>> \o safe(i + 1)
    <3>1. safe(i) = SafeNext(d, i) BY <2>3, SafeFromIs
    <3> QED BY <3>1, <2>3, <2>4 DEF SafeNext
  <2>6. SubSeq(d, i, j - 1) = <<d[i]>> \o SubSeq(d, i + 1, j - 1)
    <3> HIDE DEF safe
    <3> QED BY <2>3, SubSeqRecursiveFirst
  <2>7. SubSeq(d, i + 1, j - 1) \in Seq(STRING)
    <3>1. \A x \in (i + 1)..(j - 1) : d[x] \in STRING
      <4>1. TAKE x \in (i + 1)..(j - 1)
      <4>2. x \in 1..n BY <2>3, <1>0
      <4> QED BY <4>2
    <3>2. i + 1 \in Int /\ j - 1 \in Int BY <1>0, <2>3
    <3> QED BY ONLY <3>1, <3>2, SubSeqProperties
  <2>8. <<d[i]>> \in Seq(STRING) BY <2>3
  <2>9. safe(j) \in Seq(STRING) BY <1>1, <2>3
  <2> DEFINE h == <<d[i]>>
             t == SubSeq(d, i + 1, j - 1)
  <2> HIDE DEF safe, h, t
  <2>10. (h \o t) \o safe(j) = h \o (t \o safe(j))
    <3>1. h \in Seq(STRING) /\ t \in Seq(STRING) BY <2>7, <2>8 DEF h, t
    <3> QED BY ONLY SMTT(40), <3>1, <2>9, ConcatThree
  <2>11. safe(i + 1) = t \o safe(j) => safe(i) = SubSeq(d, i, j - 1) \o safe(j)
    BY <2>5, <2>6, <2>10 DEF h, t
  <2> QED BY <2>3, <2>11 DEF t
<1>3. Same(j)
  <2>1. SubSeq(d, j, j - 1) = <<>> BY <1>0, SubSeqEmpty
  <2>2. safe(j) \in Seq(STRING) BY <1>0, <1>1
  <2> HIDE DEF safe
  <2>3. <<>> \o safe(j) = safe(j) BY <2>2, ConcatEmptySeq
  <2> QED BY <2>1, <2>3
<1> HIDE DEF Same
<1>4. \A i \in Diff : \E y \in Diff : i < y
  <2>1. TAKE i \in Diff
  <2>2. i \in k..j /\ ~ Same(i) OBVIOUS
  <2>3. i # j BY <2>2, <1>3
  <2>4. i + 1 \in k..j /\ i < i + 1 /\ ~ Same(i + 1) BY <2>2, <2>3, <1>2
  <2> QED BY <2>4
<1>5. Diff \in SUBSET (0..j) BY <1>0
<1>6. Diff = {}
  <2> HIDE DEF Diff
  <2> QED BY ONLY <1>0, <1>4, <1>5, NoneFurtherOn
<1>7. k \in k..j BY <1>0
<1>8. Same(k) BY <1>6, <1>7
<1> QED BY <1>8 DEF Same

(* Chunks of bytes are treated like single bytes. *)
LEMMA SanitizeIs ==
    ASSUME NEW d \in Seq(STRING)
    PROVE  Text!sanitize_terminal_output(d) = Text!SafeFrom(d, 1)
<1> DEFINE n == Len(d)
           dirty(k) == {j \in k..(k + Chunk - 1) : d[j] \in Text!Dirty}
           first(k) == Text!Min(dirty(k))
           goes(k) == IF d[first(k)] = "ESC" THEN Text!consume_escape(d, first(k)) ELSE first(k) + 1
           Of(f, k) == IF k + Chunk - 1 > n THEN Text!SafeFrom(d, k)
                       ELSE IF dirty(k) = {} THEN SubSeq(d, k, k + Chunk - 1) \o f[k + Chunk]
                       ELSE SubSeq(d, k, first(k) - 1) \o f[goes(k)]
           Rec(f) == f = [k \in 1..(n + 1) |-> Of(f, k)]
           safe == [k \in 1..(n + 1) |-> Text!SafeFrom(d, k)]
           g == CHOOSE f : Rec(f)
<1>0. n \in Nat /\ Chunk \in Nat \ {0} BY TextConstants
<1>1. Text!sanitize_terminal_output(d) = g[1] BY SMTT(40) DEF Text!sanitize_terminal_output
<1>2. \A k \in 1..(n + 1) :
        \/ \A f : Of(f, k) = Text!SafeFrom(d, k)
        \/ \E y \in 1..(n + 1) : \E s :
             /\ k < y /\ Text!SafeFrom(d, k) = s \o Text!SafeFrom(d, y)
             /\ \A f : Of(f, k) = s \o f[y]
  <2>1. TAKE k \in 1..(n + 1)
  <2>2. CASE k + Chunk - 1 > n BY <2>2
  <2>3. CASE ~ (k + Chunk - 1 > n) /\ dirty(k) = {}
    <3>1. PICK y \in Nat : y = k + Chunk BY <1>0, <2>1
    <3>2. y \in k..(n + 1) /\ y \in 1..(n + 1) /\ k < y /\ y - 1 = k + Chunk - 1
      BY ONLY <3>1, <2>1, <2>3, <1>0
    <3>3. \A i \in k..(y - 1) : d[i] \notin Text!Controls BY <2>3, <3>2 DEF Text!Dirty
    <3>4. Text!SafeFrom(d, k) = SubSeq(d, k, y - 1) \o Text!SafeFrom(d, y) BY <3>2, <3>3, SafeRun
    <3>5. \A f : Of(f, k) = SubSeq(d, k, y - 1) \o f[y] BY <2>3, <3>1, <3>2
    <3> HIDE DEF Of
    <3> QED BY <3>2, <3>4, <3>5
  <2>4. CASE ~ (k + Chunk - 1 > n) /\ dirty(k) # {}
    <3>1. PICK j : j = first(k) OBVIOUS
    <3>2. j \in dirty(k) /\ \A x \in dirty(k) : j <= x
      <4>1. dirty(k) \in SUBSET Nat BY <1>0, <2>1
      <4> HIDE DEF dirty
      <4> QED BY <4>1, <2>4, <3>1, TextMin
    <3>3. j \in k..(k + Chunk - 1) /\ d[j] \in Text!Controls BY <3>2 DEF Text!Dirty
    <3>4. j \in k..(n + 1) /\ j \in 1..n /\ j \in 1..(n + 1) /\ ~ (j > n) /\ j + 1 \in 1..(n + 1)
          /\ k < j + 1 /\ j \in Nat /\ k <= j
      BY ONLY <3>3, <2>1, <2>4, <1>0
    <3>5. \A i \in k..(j - 1) : d[i] \notin Text!Controls
      <4>1. TAKE i \in k..(j - 1)
      <4>2. i \in k..(k + Chunk - 1) /\ ~ (j <= i) BY <3>3, <4>1, <2>1, <1>0
      <4>3. i \notin dirty(k) BY <3>2, <4>2
      <4> QED BY <4>2, <4>3 DEF Text!Dirty
    <3>6. Text!SafeFrom(d, k) = SubSeq(d, k, j - 1) \o Text!SafeFrom(d, j) BY <3>4, <3>5, SafeRun
    <3>7. PICK y : y = goes(k) OBVIOUS
    <3>8. y = IF d[j] = "ESC" THEN Text!consume_escape(d, j) ELSE j + 1 BY <3>1, <3>7
    <3>9. Text!SafeFrom(d, j) = Text!SafeFrom(d, y)
      <4>1. Text!SafeFrom(d, j) = SafeNext(d, j) BY <3>4, SafeFromIs
      <4> QED BY <4>1, <3>3, <3>4, <3>8 DEF SafeNext
    <3>10. y \in 1..(n + 1) /\ k < y
      <4>1. Text!consume_escape(d, j) \in (j + 1)..(n + 1) BY <3>4, EscapeOver
      <4>2. CASE d[j] = "ESC"
        <5>1. y \in (j + 1)..(n + 1) BY <4>1, <4>2, <3>8
        <5> QED BY ONLY <5>1, <3>4, <1>0, <2>1
      <4>3. CASE d[j] # "ESC" BY SMTT(30), <4>3, <3>4, <3>8
      <4> QED BY <4>2, <4>3
    <3>11. \A f : Of(f, k) = SubSeq(d, k, j - 1) \o f[y] BY <2>4, <3>1, <3>7
    <3> HIDE DEF Of
    <3> QED BY <3>6, <3>9, <3>10, <3>11
  <2> QED BY ZenonT(60), <2>2, <2>3, <2>4
<1> HIDE DEF Of
<1>3. \A k \in 1..(n + 1) : Of(safe, k) = safe[k]
  <2>1. TAKE k \in 1..(n + 1)
  <2>2. safe[k] = Text!SafeFrom(d, k) OBVIOUS
  <2>3. CASE \A f : Of(f, k) = Text!SafeFrom(d, k)
    <3> HIDE DEF safe
    <3> QED BY <2>2, <2>3
  <2>4. CASE \E y \in 1..(n + 1) : \E s :
               /\ k < y /\ Text!SafeFrom(d, k) = s \o Text!SafeFrom(d, y)
               /\ \A f : Of(f, k) = s \o f[y]
    <3>1. PICK y \in 1..(n + 1) : \E s :
               /\ k < y /\ Text!SafeFrom(d, k) = s \o Text!SafeFrom(d, y)
               /\ \A f : Of(f, k) = s \o f[y]
      BY <2>4
    <3>2. safe[y] = Text!SafeFrom(d, y) OBVIOUS
    <3> HIDE DEF safe
    <3> QED BY <2>2, <3>1, <3>2
  <2> QED BY <2>3, <2>4, <1>2
<1>4. Rec(safe)
  <2> DEFINE r == [k \in 1..(n + 1) |-> Of(safe, k)]
  <2>1. \A k \in 1..(n + 1) : r[k] = safe[k] BY <1>3
  <2> QED BY <2>1
<1>5. Rec(g)
  <2> HIDE DEF Rec, safe
  <2> QED BY <1>4
<1> HIDE DEF g
<1>6. \A k \in 1..(n + 1) : g[k] = Of(g, k) BY <1>5
<1>7. \A k \in 1..(n + 1) : g[k] = Text!SafeFrom(d, k)
  <2> DEFINE Diff == {k \in 1..(n + 1) : g[k] # Text!SafeFrom(d, k)}
  <2>1. \A k \in Diff : \E y \in Diff : k < y
    <3>1. TAKE k \in Diff
    <3>2. k \in 1..(n + 1) /\ g[k] # Text!SafeFrom(d, k) /\ g[k] = Of(g, k) BY <1>6
    <3>3. PICK y \in 1..(n + 1) : \E s :
               /\ k < y /\ Text!SafeFrom(d, k) = s \o Text!SafeFrom(d, y)
               /\ \A f : Of(f, k) = s \o f[y]
      <4> HIDE DEF Diff
      <4> QED BY <3>2, <1>2
    <3>4. g[y] # Text!SafeFrom(d, y) BY <3>2, <3>3
    <3> QED BY <3>3, <3>4
  <2>2. Diff \in SUBSET (0..(n + 1)) /\ n + 1 \in Nat BY <1>0
  <2> HIDE DEF Diff, n
  <2>3. Diff = {} BY ONLY <2>1, <2>2, NoneFurtherOn
  <2> QED BY <2>3 DEF Diff
<1>8. 1 \in 1..(n + 1) BY <1>0
<1> QED BY <1>1, <1>7, <1>8

(* How Visible goes on byte by byte. *)
SeenNext(f, s) ==
    /\ f[0] = <<>>
    /\ \A k \in 1..Len(s) :
         f[k] = IF s[k] \in Text!Controls THEN f[k - 1] ELSE Append(f[k - 1], s[k])

LEMMA SeenExists ==
    ASSUME NEW s \in Seq(STRING)
    PROVE  \E f \in [0..Len(s) -> Seq(STRING)] : SeenNext(f, s)
<1> DEFINE n == Len(s)
           Good(m) == \E f \in [0..m -> Seq(STRING)] :
                         /\ f[0] = <<>>
                         /\ \A k \in 1..m : f[k] = IF s[k] \in Text!Controls THEN f[k - 1]
                                                   ELSE Append(f[k - 1], s[k])
           Bad == {m \in 0..n : ~ Good(m)}
<1>0. n \in Nat OBVIOUS
<1>1. Bad = {}
  <2> SUFFICES ASSUME Bad # {} PROVE FALSE OBVIOUS
  <2>1. PICK m \in Bad : \A k \in Bad : m <= k
    <3> HIDE DEF Good
    <3>1. Bad \subseteq Nat BY <1>0
    <3> QED BY <3>1, NatLeast
  <2>2. CASE m = 0
    <3>1. [i \in 0..0 |-> <<>>] \in [0..0 -> Seq(STRING)] OBVIOUS
    <3>2. Good(0)
      <4> WITNESS [i \in 0..0 |-> <<>>] \in [0..0 -> Seq(STRING)]
      <4> QED OBVIOUS
    <3> QED BY <2>2, <3>2
  <2>3. CASE m # 0
    <3>1. m \in 1..n /\ m - 1 \in 0..n /\ m - 1 \in Nat /\ ~ (m <= m - 1) BY <2>3, <1>0
    <3>2. Good(m - 1)
      <4> HIDE DEF Good
      <4> QED BY <3>1, <2>1
    <3>3. PICK f \in [0..(m - 1) -> Seq(STRING)] :
             /\ f[0] = <<>>
             /\ \A k \in 1..(m - 1) : f[k] = IF s[k] \in Text!Controls THEN f[k - 1]
                                             ELSE Append(f[k - 1], s[k])
      BY <3>2
    <3> DEFINE x == IF s[m] \in Text!Controls THEN f[m - 1] ELSE Append(f[m - 1], s[m])
               g == [k \in 0..m |-> IF k = m THEN x ELSE f[k]]
    <3>4. x \in Seq(STRING)
      <4>1. s[m] \in STRING /\ f[m - 1] \in Seq(STRING) BY <3>1, <3>3
      <4>2. Append(f[m - 1], s[m]) \in Seq(STRING) BY <4>1
      <4> QED BY <4>1, <4>2
    <3>5. g \in [0..m -> Seq(STRING)]
      <4> HIDE DEF x
      <4>1. \A k \in 0..m : k # m => k \in 0..(m - 1) BY <3>1
      <4> QED BY <4>1, <3>3, <3>4
    <3>6. g[0] = <<>> /\ \A k \in 1..m : g[k] = IF s[k] \in Text!Controls THEN g[k - 1]
                                                ELSE Append(g[k - 1], s[k])
      <4>1. g[0] = <<>> BY <3>1, <3>3
      <4>2. \A k \in 1..m : k \in 0..m /\ k - 1 \in 0..m /\ k - 1 # m /\ (k # m => k \in 1..(m - 1))
        BY <3>1
      <4>3. \A k \in 1..m : g[k - 1] = f[k - 1] BY <4>2
      <4>4. \A k \in 1..m : g[k] = IF k = m THEN x ELSE f[k] BY <4>2
      <4>5. x = IF s[m] \in Text!Controls THEN f[m - 1] ELSE Append(f[m - 1], s[m]) OBVIOUS
      <4> HIDE DEF g, x
      <4>6. \A k \in 1..m : g[k] = IF s[k] \in Text!Controls THEN g[k - 1]
                                    ELSE Append(g[k - 1], s[k])
        <5>1. TAKE k \in 1..m
        <5>2. CASE k = m BY <4>3, <4>4, <4>5, <5>2
        <5>3. CASE k # m BY <4>2, <4>3, <4>4, <5>3, <3>3
        <5> QED BY <5>2, <5>3
      <4> QED BY <4>1, <4>6
    <3>7. Good(m)
      <4> HIDE DEF g
      <4> WITNESS g \in [0..m -> Seq(STRING)]
      <4> QED BY <3>6
    <3> QED BY <3>7
  <2> QED BY <2>2, <2>3
<1>2. Good(n)
  <2> HIDE DEF Good
  <2> QED BY <1>0, <1>1
<1> QED BY <1>2 DEF SeenNext

LEMMA VisibleIs ==
    ASSUME NEW s \in Seq(STRING)
    PROVE  /\ Text!Visible(s, 0) = <<>>
           /\ \A k \in 0..Len(s) : Text!Visible(s, k) \in Seq(STRING)
           /\ \A k \in 1..Len(s) :
                Text!Visible(s, k) = IF s[k] \in Text!Controls THEN Text!Visible(s, k - 1)
                                     ELSE Append(Text!Visible(s, k - 1), s[k])
<1> DEFINE n == Len(s)
           Of(f, k) == IF k = 0 THEN <<>>
                       ELSE IF s[k] \in Text!Controls THEN f[k - 1] ELSE Append(f[k - 1], s[k])
           Rec(f) == f = [k \in 0..n |-> Of(f, k)]
           g == CHOOSE f : Rec(f)
<1>0. n \in Nat OBVIOUS
<1>1. \A k : Text!Visible(s, k) = g[k] BY DEF Text!Visible
<1>2. PICK f \in [0..n -> Seq(STRING)] : SeenNext(f, s) BY SeenExists
<1>3. Rec(f)
  <2> DEFINE r == [k \in 0..n |-> Of(f, k)]
  <2>1. \A k \in 0..n : k = 0 \/ k \in 1..n BY <1>0
  <2>2. \A k \in 0..n : f[k] = Of(f, k) BY <1>2, <2>1 DEF SeenNext
  <2>3. \A k \in 0..n : f[k] = r[k]
    <3> HIDE DEF Of
    <3> QED BY <2>2
  <2> HIDE DEF Of
  <2> QED BY <1>2, <2>3
<1>4. Rec(g)
  <2> HIDE DEF Rec
  <2> QED BY <1>3
<1> HIDE DEF g
<1>5. \A k \in 0..n : g[k] = Of(g, k)
  <2> HIDE DEF Of
  <2> QED BY <1>4
<1>6. g[0] = <<>> BY <1>5, <1>0
<1>7. \A k \in 1..n : g[k] = IF s[k] \in Text!Controls THEN g[k - 1] ELSE Append(g[k - 1], s[k])
  BY <1>5, <1>0
<1>8. \A k \in 0..n : g[k] = f[k]
  <2> DEFINE Bad == {k \in 0..n : g[k] # f[k]}
  <2> SUFFICES Bad = {} OBVIOUS
  <2> SUFFICES ASSUME Bad # {} PROVE FALSE OBVIOUS
  <2>1. PICK m \in Bad : \A k \in Bad : m <= k
    <3>1. Bad \subseteq Nat BY <1>0
    <3> QED BY <3>1, NatLeast
  <2>2. m # 0 BY <1>2, <1>6 DEF SeenNext
  <2>3. m \in 1..n /\ m - 1 \in 0..n /\ ~ (m <= m - 1) BY <2>2, <1>0
  <2>4. f[m - 1] = g[m - 1] BY <2>1, <2>3
  <2> QED BY <2>3, <2>4, <1>2, <1>7 DEF SeenNext
<1> HIDE DEF n
<1> QED BY <1>1, <1>2, <1>6, <1>7, <1>8 DEF n

(* A piece without escapes, sanitised, goes on where the text before it ended. *)
LEMMA VisibleGoesOn ==
    ASSUME NEW d \in Seq(STRING), NEW a \in 0..Len(d), NEW m \in 0..(Len(d) - a),
           \A i \in 1..Len(d) : d[i] # "ESC"
    PROVE  Text!Visible(d, a + m) =
             Text!Visible(d, a) \o Text!SafeFrom(SubSeq(d, a + 1, a + m), 1)
<1> DEFINE q == SubSeq(d, a + 1, a + m)
           n == Len(d)
           V(k) == Text!Visible(d, k)
           safe(k) == Text!SafeFrom(q, k)
           Same(j) == V(a + m) = V(a + j) \o safe(j + 1)
           Diff == {j \in 0..m : ~ Same(j)}
<1>0. n \in Nat /\ a \in Nat /\ m \in Nat /\ a + m <= n OBVIOUS
<1>1. q \in Seq(STRING) /\ Len(q) = m /\ \A k \in 1..m : q[k] = d[a + k]
  <2>1. a + 1 \in Int /\ a + m \in Int /\ \A x \in (a + 1)..(a + m) : x \in 1..n BY <1>0
  <2>2. \A x \in (a + 1)..(a + m) : d[x] \in STRING BY <2>1
  <2>3. /\ q \in Seq(STRING)
        /\ Len(q) = IF a + 1 <= a + m THEN (a + m) - (a + 1) + 1 ELSE 0
        /\ \A k \in 1..((a + m) - (a + 1) + 1) : q[k] = d[(a + 1) + k - 1]
    BY ONLY <2>1, <2>2, SubSeqProperties
  <2> HIDE DEF q
  <2>4. (a + m) - (a + 1) + 1 = m /\ (a + 1 <= a + m \/ m = 0) BY <1>0
  <2>5. \A k \in 1..m : (a + 1) + k - 1 = a + k BY <1>0
  <2>6. Len(q) = m BY <2>3, <2>4, <1>0
  <2> QED BY <2>3, <2>4, <2>5, <2>6
<1> HIDE DEF q
<1>2. \A k \in 1..(m + 1) : safe(k) \in Seq(STRING) /\ safe(k) = SafeNext(q, k)
  <2>1. TAKE k \in 1..(m + 1)
  <2>2. safe(k) \in Seq(Harmless) /\ safe(k) = SafeNext(q, k) BY <1>1, SafeFromIs
  <2>3. Harmless \subseteq STRING BY DEF Harmless
  <2> HIDE DEF safe
  <2>4. safe(k) \in Seq(STRING) BY <2>2, <2>3, SeqMonotonic
  <2> QED BY <2>2, <2>4
<1>3. \A k \in 0..n : V(k) \in Seq(STRING) BY VisibleIs
<1>4. Same(m)
  <2>1. safe(m + 1) = <<>>
    <3>1. m + 1 \in 1..(m + 1) /\ m + 1 > m BY <1>0
    <3>2. safe(m + 1) = SafeNext(q, m + 1) BY <1>2, <3>1
    <3> QED BY <1>1, <3>1, <3>2 DEF SafeNext
  <2>2. V(a + m) \in Seq(STRING) BY <1>0, <1>3
  <2> HIDE DEF V, safe
  <2>3. V(a + m) \o <<>> = V(a + m) BY <2>2, ConcatEmptySeq
  <2> QED BY <2>1, <2>3
<1>5. \A j \in 0..m : j # m => j + 1 \in 0..m /\ j < j + 1 /\ (Same(j + 1) => Same(j))
  <2>1. TAKE j \in 0..m
  <2>2. HAVE j # m
  <2>3. /\ j + 1 \in 0..m /\ j < j + 1 /\ j + 1 \in 1..m /\ j + 1 \in 1..(m + 1)
        /\ ~ (j + 1 > m) /\ (j + 1) + 1 \in 1..(m + 1)
        /\ a + j \in 0..n /\ a + (j + 1) \in 1..n /\ (a + (j + 1)) - 1 = a + j
    BY <1>0, <2>2
  <2> DEFINE x == q[j + 1]
  <2>4. x = d[a + (j + 1)] /\ x # "ESC" /\ x \in STRING BY <2>3, <1>1
  <2> HIDE DEF x
  <2>5. V(a + (j + 1)) = IF x \in Text!Controls THEN V(a + j) ELSE Append(V(a + j), x)
    BY <2>3, <2>4, VisibleIs
  <2>6. safe(j + 1) = IF x \in Text!Controls THEN safe((j + 1) + 1) ELSE <<x>> \o safe((j + 1) + 1)
    <3>1. safe(j + 1) = SafeNext(q, j + 1) BY <1>2, <2>3
    <3> QED BY <3>1, <2>3, <2>4, <1>1 DEF SafeNext, x
  <2>7. V(a + j) \in Seq(STRING) /\ safe((j + 1) + 1) \in Seq(STRING) BY <1>2, <1>3, <2>3
  <2> HIDE DEF V, safe
  <2>8. Append(V(a + j), x) = V(a + j) \o <<x>>
    <3>1. PICK v \in Seq(STRING) : v = V(a + j) BY <2>7
    <3>2. Append(v, x) = v \o <<x>> BY <2>4, <3>1, AppendIsConcat
    <3> QED BY <3>1, <3>2
  <2>9. (V(a + j) \o <<x>>) \o safe((j + 1) + 1) = V(a + j) \o (<<x>> \o safe((j + 1) + 1))
    <3>1. <<x>> \in Seq(STRING) BY <2>4
    <3>2. PICK u, h, z : u = V(a + j) /\ h = <<x>> /\ z = safe((j + 1) + 1) OBVIOUS
    <3>3. u \in Seq(STRING) /\ h \in Seq(STRING) /\ z \in Seq(STRING) BY <2>7, <3>1, <3>2
    <3>4. (u \o h) \o z = u \o (h \o z) BY ONLY SMTT(40), <3>3, ConcatThree
    <3> QED BY <3>2, <3>4
  <2>10. V(a + (j + 1)) \o safe((j + 1) + 1) = V(a + j) \o safe(j + 1)
    <3>1. CASE x \in Text!Controls BY <3>1, <2>5, <2>6
    <3>2. CASE x \notin Text!Controls BY <3>2, <2>5, <2>6, <2>8, <2>9
    <3> QED BY <3>1, <3>2
  <2> QED BY <2>3, <2>10
<1> HIDE DEF Same
<1>6. \A j \in Diff : \E y \in Diff : j < y
  <2>1. TAKE j \in Diff
  <2>2. j \in 0..m /\ ~ Same(j) OBVIOUS
  <2>3. j # m BY <2>2, <1>4
  <2>4. j + 1 \in 0..m /\ j < j + 1 /\ ~ Same(j + 1) BY <2>2, <2>3, <1>5
  <2> QED BY <2>4
<1>7. Diff \in SUBSET (0..m) OBVIOUS
<1>8. Diff = {}
  <2> HIDE DEF Diff
  <2> QED BY ONLY <1>0, <1>6, <1>7, NoneFurtherOn
<1>9. Same(0)
  <2>1. 0 \in 0..m BY <1>0
  <2> QED BY <2>1, <1>8
<1>10. a + 0 = a /\ 0 + 1 = 1 BY <1>0
<1> QED BY <1>9, <1>10 DEF Same, q

LEMMA HarmlessSeq ==
    ASSUME NEW s \in Seq(STRING)
    PROVE  Text!ToSet(s) \cap Text!Controls = {} <=> s \in Seq(Harmless)
<1>1. DOMAIN s = 1..Len(s) /\ Len(s) \in Nat /\ \A i \in 1..Len(s) : s[i] \in STRING OBVIOUS
<1>2. Text!ToSet(s) \cap Text!Controls = {} <=> \A i \in 1..Len(s) : s[i] \notin Text!Controls
  BY <1>1 DEF Text!ToSet
<1>3. ASSUME \A i \in 1..Len(s) : s[i] \notin Text!Controls PROVE s \in Seq(Harmless)
  <2>1. \A i \in 1..Len(s) : s[i] \in Harmless BY <1>1, <1>3 DEF Harmless
  <2> QED BY <1>1, <2>1
<1>4. ASSUME s \in Seq(Harmless) PROVE \A i \in 1..Len(s) : s[i] \notin Text!Controls
  BY <1>4 DEF Harmless
<1> QED BY <1>2, <1>3, <1>4

LEMMA TextInitIInv == Text!Init \/ TextIdle => Text!IInv
<1>1. ASSUME Text!Init PROVE Text!TypeOK /\ taken = 0 /\ shown = <<>>
  BY <1>1, TextConstants DEF Text!Init, Text!TypeOK
<1>2. ASSUME TextIdle PROVE Text!TypeOK /\ taken = 0 /\ shown = <<>>
  <2>1. W512 \in Nat \ {0} BY TextConstants
  <2>2. NoJunk \in Seq(STRING) /\ Len(NoJunk) = W512
    <3>1. NoJunk \in Seq(STRING) BY ComponentsAssumption
    <3>2. Len(NoJunk) = W512 BY <2>1 DEF NoJunk
    <3> QED BY <3>1, <3>2
  <2>3. data \in Seq(STRING) /\ taken \in 0..Len(data) /\ shown \in Seq(STRING)
    BY <1>2 DEF TextIdle
  <2> QED BY <1>2, <2>2, <2>3 DEF TextIdle, Text!TypeOK, Text!Levels
<1>3. ASSUME Text!TypeOK, taken = 0, shown = <<>> PROVE Text!IInv
  <2>1. data \in Seq(STRING) BY <1>3 DEF Text!TypeOK
  <2>2. Text!Visible(data, taken) = <<>> BY <1>3, <2>1, VisibleIs
  <2>3. Text!ToSet(shown) = {} BY <1>3 DEF Text!ToSet
  <2> QED BY <1>3, <2>2, <2>3 DEF Text!IInv
<1> QED BY <1>1, <1>2, <1>3

LEMMA ShowKeeps == Text!IInv /\ Text!ShowPiece => Text!IInv'
<1> SUFFICES ASSUME Text!IInv, Text!ShowPiece PROVE Text!IInv' OBVIOUS
<1>1. /\ data \in Seq(STRING) /\ level \in Text!Levels /\ junk \in Seq(STRING) /\ Len(junk) = W512
      /\ taken \in 0..Len(data) /\ shown \in Seq(STRING)
  BY DEF Text!IInv, Text!TypeOK
<1>2. PICK m \in 1..(Len(data) - taken) :
        /\ taken' = taken + m
        /\ shown' = shown \o Text!sanitize_terminal_output(SubSeq(data, taken + 1, taken'))
  BY DEF Text!ShowPiece
<1>3. data' = data /\ level' = level /\ junk' = junk BY DEF Text!ShowPiece
<1>4. Len(data) \in Nat /\ m \in 0..(Len(data) - taken) /\ taken + m \in 0..Len(data) BY <1>1
<1> DEFINE q == SubSeq(data, taken + 1, taken + m)
<1>5. q \in Seq(STRING)
  <2>1. taken + 1 \in Int /\ taken + m \in Int
        /\ \A x \in (taken + 1)..(taken + m) : x \in 1..Len(data)
    BY <1>1, <1>4
  <2>2. \A x \in (taken + 1)..(taken + m) : data[x] \in STRING BY <1>1, <2>1
  <2> QED BY ONLY <2>1, <2>2, SubSeqProperties
<1>6. Text!sanitize_terminal_output(q) = Text!SafeFrom(q, 1) BY <1>5, SanitizeIs
<1>7. Text!SafeFrom(q, 1) \in Seq(Harmless)
  <2>1. Len(q) \in Nat BY <1>5
  <2>2. 1 \in 1..(Len(q) + 1)
    <3>1. PICK k \in Nat : k = Len(q) BY <2>1
    <3>2. 1 \in 1..(k + 1) OBVIOUS
    <3> QED BY <3>1, <3>2
  <2> QED BY <1>5, <2>2, SafeFromIs
<1> HIDE DEF q
<1>8. PICK z : z = Text!SafeFrom(q, 1) OBVIOUS
<1>9. shown' = shown \o z BY <1>2, <1>6, <1>8 DEF q
<1>10. shown \in Seq(Harmless) BY <1>1, HarmlessSeq DEF Text!IInv
<1>11. shown' \in Seq(Harmless)
  <2>1. z \in Seq(Harmless) BY <1>7, <1>8
  <2>2. shown \o z \in Seq(Harmless) BY <2>1, <1>10, ConcatProperties
  <2> QED BY <1>9, <2>2
<1>12. shown' \in Seq(STRING)
  <2>1. Harmless \subseteq STRING BY DEF Harmless
  <2> QED BY <1>11, <2>1, SeqMonotonic
<1>13. Text!TypeOK' BY <1>1, <1>2, <1>3, <1>4, <1>12 DEF Text!TypeOK
<1>14. (Text!ToSet(shown) \cap Text!Controls = {})'
  <2>1. PICK w : w = shown' OBVIOUS
  <2>2. Text!ToSet(w) \cap Text!Controls = {} BY <1>11, <1>12, <2>1, HarmlessSeq
  <2>3. Text!ToSet(shown)' = Text!ToSet(w) BY <2>1 DEF Text!ToSet
  <2> QED BY <2>2, <2>3
<1>15. ("ESC" \notin Text!ToSet(data) => shown = Text!Visible(data, taken))'
  <2> SUFFICES ASSUME "ESC" \notin Text!ToSet(data)' PROVE (shown = Text!Visible(data, taken))'
    OBVIOUS
  <2>1. Text!ToSet(data)' = Text!ToSet(data) BY <1>3 DEF Text!ToSet
  <2>2. shown = Text!Visible(data, taken) BY <2>1 DEF Text!IInv
  <2>3. \A i \in 1..Len(data) : data[i] # "ESC"
    <3>1. DOMAIN data = 1..Len(data) BY <1>1
    <3> QED BY <2>1, <3>1 DEF Text!ToSet
  <2>4. Text!Visible(data, taken + m) = Text!Visible(data, taken) \o z
    BY <1>1, <1>4, <1>8, <2>3, VisibleGoesOn DEF q
  <2>5. Text!Visible(data, taken)' = Text!Visible(data', taken') BY DEF Text!Visible
  <2>6. Text!Visible(data', taken') = Text!Visible(data, taken + m) BY <1>2, <1>3
  <2> QED BY <1>9, <2>2, <2>4, <2>5, <2>6
<1> QED BY <1>13, <1>14, <1>15 DEF Text!IInv

LEMMA TextNextIInv == Text!IInv /\ (Text!Next \/ UNCHANGED textVars) => Text!IInv'
<1>1. ASSUME Text!IInv, UNCHANGED textVars PROVE Text!IInv'
  BY <1>1 DEF Text!IInv, Text!TypeOK, textVars, Text!ToSet, Text!Visible
<1> QED BY <1>1, ShowKeeps DEF Text!Next

LEMMA TextInvariance == MCSpec => []Text!IInv
<1>1. MCInit => Text!Init \/ TextIdle BY DEF MCInit
<1>2. [MCNext]_MCvars => Text!Next \/ UNCHANGED textVars BY DEF MCNext, MCvars
<1> QED BY <1>1, <1>2, MCSteps, TextInitIInv, TextNextIInv, PTL

(* Except for NEON's byte search, which takes an unequal lane for the match   *)
(* (simd_matcher.cpp:402), the search kernels find and count what the        *)
(* scalar loops do, whatever the level, the length of the text and the bytes *)
(* behind its end, and the tokens are the words of the text, in order.       *)
(* NEON's byte search does so for a byte that is in no whole block.         *)
THEOREM KernelsAgreeWithScalar == MCSpec => []KernelsAgree
<1>1. Text!IInv => KernelsAgree BY KernelsAgreeTyped DEF Text!IInv
<1> QED BY <1>1, TextInvariance, PTL

(* Whatever the pieces an answer arrives in, no control byte reaches the      *)
(* terminal, chunks of bytes are treated like single bytes, and of a text    *)
(* without escapes nothing else is lost.                                     *)
THEOREM TerminalStaysSafe == MCSpec => []TerminalSafe
<1>1. Text!IInv => TerminalSafe
  <2>1. Text!IInv => data \in Seq(STRING) BY DEF Text!IInv, Text!TypeOK
  <2>2. Text!IInv => Text!sanitize_terminal_output(data) = Text!SafeFrom(data, 1)
    BY <2>1, SanitizeIs
  <2> QED BY <2>2 DEF Text!IInv, TerminalSafe, Text!TerminalSafe
<1> QED BY <1>1, TextInvariance, PTL

-----------------------------------------------------------------------------
(* Compression: the operators of the text component are those of Pruner.   *)

LEMMA TextPasses ==
    \A s : /\ Text!collapse_whitespace(s) = collapse_whitespace(s)
           /\ Text!collapse_punctuation(s) = collapse_punctuation(s)
           /\ Text!remove_fillers(s) = remove_fillers(s)
<1>1. \A s : Text!collapse_whitespace(s) = collapse_whitespace(s)
  BY DEF Text!collapse_whitespace, collapse_whitespace, Text!Collapsed, Collapsed,
     Text!CollapseOne, CollapseOne, Text!Newlines, Newlines
<1>2. \A s : Text!collapse_punctuation(s) = collapse_punctuation(s)
  BY DEF Text!collapse_punctuation, collapse_punctuation, Text!RunAt, RunAt, Text!Max, Max,
     Text!Punctuation, Punctuation
<1>3. \A s : Text!TokensIn(s) = TokensIn(s)
  BY DEF Text!TokensIn, TokensIn, Text!Tokenized, Tokenized, Text!Ended, Ended, Text!Blank, Blank
<1>4. \A t : Text!WithoutFillers(t) = WithoutFillers(t)
  BY DEF Text!WithoutFillers, WithoutFillers, Text!Core, Core, Text!NoLetters, NoLetters,
     Text!Punctuation, Punctuation, Text!kFillers, kFillers, Text!Joined, Joined,
     Text!Min, Min, Text!Max, Max
<1>5. \A s : Text!remove_fillers(s) = remove_fillers(s)
  BY <1>3, <1>4 DEF Text!remove_fillers, remove_fillers
<1> QED BY <1>1, <1>2, <1>5

LEMMA TextCompresses ==
    \A s : Text!compress_context(s) = compress_context(s) /\ Text!Compressed(s) = Compressed(s)
<1>1. \A s : Text!compress_context(s) = compress_context(s)
  BY TextPasses DEF Text!compress_context, compress_context
<1>2. \A s : Text!Compressed(s) = Compressed(s)
  BY ZenonT(200) DEF Text!Compressed, Compressed, Text!WordUpTo, WordUpTo, Text!EndsWord, EndsWord,
     Text!Squeezed, Squeezed, Text!Goes, Goes, Text!ThreeDots, ThreeDots, Text!Joined, Joined,
     Text!Core, Core, Text!NoLetters, NoLetters, Text!Punctuation, Punctuation,
     Text!kFillers, kFillers, Text!Blank, Blank, Text!Min, Min, Text!Max, Max
<1> QED BY <1>1, <1>2

LEMMA CompressedAsWordsTyped ==
    ASSUME NEW s \in Seq(STRING)
    PROVE  /\ Text!compress_context(s) = Text!Compressed(s)
           /\ Text!compress_context(Text!compress_context(s)) = Text!compress_context(s)
<1>1. PICK X : X = STRING \cup Blank OBVIOUS
<1>2. Blank \subseteq X /\ STRING \subseteq X BY <1>1
<1>3. s \in Seq(X) BY <1>2, SeqMonotonic
<1>4. /\ compress_context(s) = Compressed(s)
      /\ compress_context(compress_context(s)) = compress_context(s)
  BY ONLY <1>2, <1>3, CompressesToWords
<1>5. PICK t : t = compress_context(s) OBVIOUS
<1>6. /\ Text!compress_context(s) = t /\ Text!Compressed(s) = Compressed(s)
      /\ Text!compress_context(t) = compress_context(t)
  BY ONLY <1>5, TextCompresses
<1> QED BY ONLY <1>4, <1>5, <1>6

(* Whatever the text: compression keeps the words that are no fillers, in    *)
(* order, squeezed and one space apart, and compressing once more changes    *)
(* nothing.                                                                *)
THEOREM CompressionKeepsTheWords == MCSpec => []CompressedAsWords
<1>1. Text!IInv => CompressedAsWords
  <2>1. Text!IInv => data \in Seq(STRING) BY DEF Text!IInv, Text!TypeOK
  <2> QED BY <2>1, CompressedAsWordsTyped DEF CompressedAsWords, Text!CompressedAsWords
<1> QED BY <1>1, TextInvariance, PTL
=============================================================================
