------------------------- MODULE RateGovernor_proofs -------------------------
(***************************************************************************)
(* The governor keeps both limits in every minute of a session, for every  *)
(* rpm, tpm and pattern of requests.                                       *)
(***************************************************************************)
EXTENDS RateGovernor, Operators_proofs

(* Record counts are natural numbers. *)
LEMMA RecordTokens == \A r \in Record : r.tokens \in Nat
BY DEF Record

(* prune_oldest drops some number of records, all of them stale, and stops   *)
(* only where a record is not.                                               *)
LEMMA PrunedFacts ==
    ASSUME NEW w \in Seq(Record)
    PROVE  \E n \in 0..Len(w) : /\ Pruned(w) = SubSeq(w, n + 1, Len(w))
                                /\ \A i \in 1..n : Stale(w[i])
                                /\ n < Len(w) => ~ Stale(w[n + 1])
<1> DEFINE S == StaleFront(w)
           T == {Len(w) - n : n \in S}
<1>1. Len(w) \in Nat OBVIOUS
<1>2. 0 \in S /\ S \subseteq 0..Len(w) BY <1>1 DEF StaleFront
<1> HIDE DEF S
<1>3. T \subseteq Nat /\ T # {}
  <2>1. \A n \in S : Len(w) - n \in Nat BY <1>1, <1>2
  <2>2. Len(w) - 0 \in T BY <1>2
  <2> QED BY <2>1, <2>2
<1>4. PICK t \in T : \A k \in T : t <= k BY <1>3, NatLeast
<1>5. PICK m \in S : t = Len(w) - m BY <1>4
<1>6. \A n \in S : m >= n
  <2>1. TAKE n \in S
  <2>2. Len(w) - n \in T OBVIOUS
  <2>3. t <= Len(w) - n BY <1>4, <2>2
  <2> QED BY <1>1, <1>2, <1>5, <2>3
<1>7. Max(S) \in S
  <2>1. \E x \in S : \A y \in S : x >= y BY <1>6
  <2> QED BY <2>1 DEF Max
<1>8. Max(S) \in 0..Len(w) /\ \A i \in 1..Max(S) : Stale(w[i])
  BY <1>2, <1>7 DEF S, StaleFront
<1>9. Max(S) < Len(w) => ~ Stale(w[Max(S) + 1])
  <2> SUFFICES ASSUME Max(S) < Len(w), Stale(w[Max(S) + 1]) PROVE FALSE OBVIOUS
  <2> DEFINE n == Max(S) + 1
  <2>1. n \in 0..Len(w) /\ n - 1 = Max(S) /\ n \in Nat BY <1>1, <1>8
  <2>2. \A i \in 1..n : i \in 1..Max(S) \/ i = n BY <1>8, <2>1
  <2>3. n \in S BY <1>8, <2>1, <2>2 DEF S, StaleFront
  <2>4. \A k \in S : Max(S) >= k
    <3>1. \E x \in S : \A y \in S : x >= y BY <1>6
    <3> QED BY <3>1 DEF Max
  <2> QED BY <2>1, <2>3, <2>4
<1> QED BY <1>8, <1>9 DEF Pruned, S

(* A suffix of a log that grows by one record grows by that record. *)
LEMMA SuffixOfAppend ==
    ASSUME NEW S, NEW w \in Seq(S), NEW x \in S, NEW n \in 0..Len(w)
    PROVE  SubSeq(Append(w, x), n + 1, Len(w) + 1) = Append(SubSeq(w, n + 1, Len(w)), x)
<1> DEFINE v == Append(w, x)
           a == SubSeq(v, n + 1, Len(w) + 1)
           s == SubSeq(w, n + 1, Len(w))
           b == Append(s, x)
<1>1. /\ v \in Seq(S) /\ Len(v) = Len(w) + 1 /\ Len(w) \in Nat
      /\ \A i \in 1..Len(w) : v[i] = w[i]
      /\ v[Len(w) + 1] = x
  OBVIOUS
<1>2. /\ s \in Seq(S) /\ Len(s) = Len(w) - n
      /\ \A i \in 1..(Len(w) - n) : s[i] = w[n + i]
  BY SuffixFacts
<1>3. /\ a \in Seq(S) /\ Len(a) = Len(w) + 1 - n
      /\ \A i \in 1..(Len(w) + 1 - n) : a[i] = v[n + i]
  <2>1. n \in 0..Len(v) BY <1>1
  <2> HIDE DEF v
  <2> QED BY <1>1, <2>1, SuffixFacts
<1> HIDE DEF v, a, s
<1>4. /\ b \in Seq(S) /\ Len(b) = Len(w) + 1 - n
      /\ \A i \in 1..(Len(w) - n) : b[i] = s[i]
      /\ b[Len(w) - n + 1] = x
  BY <1>1, <1>2
<1>5. \A i \in 1..Len(a) : a[i] = b[i]
  <2>1. TAKE i \in 1..Len(a)
  <2>2. CASE i \in 1..(Len(w) - n)
    <3>1. n + i \in 1..Len(w) BY <1>1, <2>2
    <3>2. a[i] = v[n + i] BY <1>3, <2>1
    <3> QED BY <1>1, <1>2, <1>4, <2>2, <3>1, <3>2
  <2>3. CASE i = Len(w) - n + 1
    <3>1. n + i = Len(w) + 1 BY <1>1, <2>3
    <3>2. a[i] = v[n + i] BY <1>3, <2>1
    <3> QED BY <1>1, <1>4, <2>3, <3>1, <3>2
  <2>4. i \in 1..(Len(w) + 1 - n) BY <1>3, <2>1
  <2>5. i \in 1..(Len(w) - n) \/ i = Len(w) - n + 1 BY <1>1, <2>4
  <2> QED BY <2>2, <2>3, <2>5
<1> HIDE DEF b
<1>6. a = b BY <1>3, <1>4, <1>5, SeqEqual
<1> QED BY <1>6 DEF a, b, s, v

(* A suffix of a suffix of the log is a suffix of the log. *)
LEMMA SuffixOfSuffix ==
    ASSUME NEW S, NEW w \in Seq(S), NEW d \in 0..Len(w), NEW n \in 0..(Len(w) - d),
           NEW u, u = SubSeq(w, d + 1, Len(w))
    PROVE  SubSeq(u, n + 1, Len(u)) = SubSeq(w, d + n + 1, Len(w))
<1> DEFINE a == SubSeq(u, n + 1, Len(u))
           b == SubSeq(w, d + n + 1, Len(w))
<1>1. Len(w) \in Nat /\ d \in Nat /\ n \in Nat /\ d + n \in 0..Len(w) OBVIOUS
<1>2. /\ u \in Seq(S) /\ Len(u) = Len(w) - d
      /\ \A i \in 1..(Len(w) - d) : u[i] = w[d + i]
  BY SuffixFacts
<1>3. /\ a \in Seq(S) /\ Len(a) = Len(w) - d - n
      /\ \A i \in 1..(Len(w) - d - n) : a[i] = u[n + i]
  <2>1. n \in 0..Len(u) BY <1>2
  <2> QED BY <1>2, <2>1, SuffixFacts
<1>4. /\ b \in Seq(S) /\ Len(b) = Len(w) - (d + n)
      /\ \A i \in 1..(Len(w) - (d + n)) : b[i] = w[d + n + i]
  BY <1>1, SuffixFacts
<1> HIDE DEF a, b
<1>5. Len(a) = Len(b) BY <1>1, <1>3, <1>4
<1>6. \A i \in 1..Len(a) : a[i] = b[i]
  <2>1. TAKE i \in 1..Len(a)
  <2>2. i \in 1..(Len(w) - d - n) /\ i \in 1..(Len(w) - (d + n)) BY <1>1, <1>3, <2>1
  <2>3. n + i \in 1..(Len(w) - d) /\ d + (n + i) = d + n + i BY <1>1, <2>2
  <2> QED BY <1>2, <1>3, <1>4, <2>2, <2>3
<1>7. a = b BY <1>3, <1>4, <1>5, <1>6, SeqEqual
<1> QED BY <1>7 DEF a, b

LEMMA InitIInv == Init => IInv
<1> SUFFICES ASSUME Init PROVE IInv OBVIOUS
<1>1. log = <<>> /\ window = <<>> /\ request = <<>> /\ denial = <<>> /\ now = 0
  BY DEF Init
<1>2. TypeOK BY <1>1 DEF TypeOK
<1>3. LogSorted BY <1>1 DEF LogSorted
<1>4. Len(log) = 0 /\ Len(window) = 0 BY <1>1
<1>5. WindowIsSuffix
  <2>1. Dropped = 0 BY <1>4 DEF Dropped
  <2>2. SubSeq(log, 1, 0) = <<>> BY <1>1
  <2> QED BY <1>1, <1>4, <2>1, <2>2 DEF WindowIsSuffix
<1>6. RequestFits BY <1>1, TokensOfEmpty, GovernorAssumption DEF RequestFits
<1>7. RpmRespected BY <1>4, GovernorAssumption DEF RpmRespected
<1>8. TpmRespected BY <1>1 DEF TpmRespected
<1> QED BY <1>2, <1>3, <1>5, <1>6, <1>7, <1>8 DEF IInv

LEMMA TickKeepsIInv == IInv /\ Tick => IInv'
<1> SUFFICES ASSUME IInv, Tick PROVE IInv' OBVIOUS
<1> USE DEF IInv
<1>1. /\ now' = now + 1 /\ now \in Nat /\ log \in Seq(Record)
      /\ UNCHANGED <<window, request, denial, log>>
  BY DEF Tick, TypeOK
<1>2. \A i \in DOMAIN log : log[i].at \in Nat
  <2>1. \A i \in DOMAIN log : log[i] \in Record BY <1>1
  <2> QED BY <2>1 DEF Record
<1>3. TypeOK' BY <1>1 DEF TypeOK
<1>4. LogSorted' BY <1>1, <1>2 DEF LogSorted
<1>5. WindowIsSuffix'
  <2>1. \A i \in 1..Dropped : i \in DOMAIN log BY <1>1 DEF WindowIsSuffix, Dropped, TypeOK
  <2>2. \A i \in 1..Dropped : log[i].at < now' - Minute
    BY <1>1, <1>2, <2>1, GovernorAssumption DEF WindowIsSuffix, Stale
  <2> QED BY <1>1, <2>2 DEF WindowIsSuffix, Dropped, Stale
<1>6. RequestFits' BY <1>1 DEF RequestFits
<1>7. RpmRespected' /\ TpmRespected' BY <1>1 DEF RpmRespected, TpmRespected
<1> QED BY <1>3, <1>4, <1>5, <1>6, <1>7

LEMMA AskKeepsIInv == IInv /\ Ask => IInv'
<1> SUFFICES ASSUME IInv, Ask PROVE IInv' OBVIOUS
<1> USE DEF IInv
<1>1. /\ window \in Seq(Record) /\ log \in Seq(Record) /\ now \in Nat
      /\ window' = Pruned(window) /\ now' = now /\ log' = log /\ request = <<>>
  BY DEF Ask, TypeOK
<1>2. PICK n \in 0..Len(window) : /\ window' = SubSeq(window, n + 1, Len(window))
                                  /\ \A i \in 1..n : Stale(window[i])
  BY <1>1, PrunedFacts
<1>3. window' \in Seq(Record) /\ Len(window') = Len(window) - n BY <1>1, <1>2
<1>4. TokensOf(window') <= TokensOf(window) /\ TokensOf(window) \in Nat
      /\ TokensOf(window') \in Nat
  BY <1>1, <1>2, <1>3, RecordTokens, TokensOfSuffix, TokensOfNat
<1>5. PICK kind \in {"chat", "got"}, e \in Estimates :
         \/ /\ Allowed(window', e)
            /\ request' = <<[kind |-> kind, tokens |-> e]>>
            /\ denial' = <<>>
         \/ /\ ~ Allowed(window', e)
            /\ denial' = <<[tokens |-> e, retry_at |-> now + WaitTime(window')]>>
            /\ UNCHANGED request
  BY DEF Ask
<1>6. e \in Nat BY GovernorAssumption
<1>7. TypeOK'
  <2>1. request' \in Seq(Request) /\ Len(request') <= 1
    <3>1. [kind |-> kind, tokens |-> e] \in Request BY <1>6 DEF Request
    <3>2. request \in Seq(Request) /\ Len(request) <= 1 BY DEF TypeOK
    <3>3. <<[kind |-> kind, tokens |-> e]>> \in Seq(Request) BY <3>1
    <3>4. Len(<<[kind |-> kind, tokens |-> e]>>) = 1 OBVIOUS
    <3>5. request' = <<[kind |-> kind, tokens |-> e]>> \/ request' = request BY <1>5
    <3>6. CASE request' = <<[kind |-> kind, tokens |-> e]>> BY <3>3, <3>4, <3>6
    <3>7. CASE request' = request BY <3>2, <3>7
    <3> QED BY <3>5, <3>6, <3>7
  <2>2. WaitTime(window') \in Nat
    <3>1. CASE window' = <<>> BY <3>1 DEF WaitTime
    <3>2. CASE window' # <<>>
      <4>1. Head(window') \in Record BY <1>3, <3>2
      <4>2. Head(window').at \in Nat BY <4>1 DEF Record
      <4> QED BY <1>1, <4>2, GovernorAssumption DEF WaitTime
    <3> QED BY <3>1, <3>2
  <2>3. denial' \in Seq(Denial)
    <3>1. [tokens |-> e, retry_at |-> now + WaitTime(window')] \in Denial
      BY <1>1, <1>6, <2>2 DEF Denial
    <3>2. <<[tokens |-> e, retry_at |-> now + WaitTime(window')]>> \in Seq(Denial)
      BY <3>1
    <3>3. <<>> \in Seq(Denial) OBVIOUS
    <3> QED BY <1>5, <3>2, <3>3
  <2> QED BY <1>1, <1>3, <2>1, <2>3 DEF TypeOK
<1>8. LogSorted' BY <1>1 DEF LogSorted
<1>9. WindowIsSuffix'
  <2>1. Len(log) \in Nat /\ Len(window) \in Nat /\ Dropped \in Nat
    BY <1>1 DEF WindowIsSuffix
  <2>2. Dropped' = Dropped + n BY <1>1, <1>3, <2>1 DEF Dropped
  <2>3. \A i \in 1..Len(window) : window[i] = log[Dropped + i]
    <3>1. Dropped \in 0..Len(log) /\ Len(log) - Dropped = Len(window)
      BY <2>1 DEF Dropped
    <3>2. window = SubSeq(log, Dropped + 1, Len(log)) BY DEF WindowIsSuffix
    <3> QED BY <1>1, <3>1, <3>2, SuffixFacts
  <2>4. \A i \in 1..(Dropped + n) : Stale(log[i])
    <3>1. TAKE i \in 1..(Dropped + n)
    <3>2. CASE i <= Dropped BY <2>1, <3>2 DEF WindowIsSuffix
    <3>3. CASE i > Dropped
      <4>1. i - Dropped \in 1..n /\ i - Dropped \in 1..Len(window)
            /\ Dropped + (i - Dropped) = i
        BY <2>1, <3>3
      <4>2. Stale(window[i - Dropped]) BY <1>2, <4>1
      <4> QED BY <2>3, <4>1, <4>2
    <3> QED BY <2>1, <3>2, <3>3
  <2>5. window' = SubSeq(log, Dropped + n + 1, Len(log))
    <3> DEFINE s == SubSeq(log, Dropped + n + 1, Len(log))
    <3>1. s \in Seq(Record) /\ Len(s) = Len(log) - (Dropped + n)
          /\ \A i \in 1..(Len(log) - (Dropped + n)) : s[i] = log[Dropped + n + i]
      <4>1. Dropped + n \in 0..Len(log) BY <2>1, <1>2 DEF Dropped
      <4> QED BY <1>1, <4>1, SuffixFacts
    <3>2. Len(window') = Len(log) - (Dropped + n) BY <1>3, <2>1 DEF Dropped
    <3>3. \A i \in 1..Len(window') : window'[i] = log[Dropped + n + i]
      <4>1. TAKE i \in 1..Len(window')
      <4>2. window'[i] = window[n + i] /\ n + i \in 1..Len(window) BY <1>1, <1>2, <1>3
      <4>3. Dropped + (n + i) = Dropped + n + i BY <2>1
      <4> QED BY <2>3, <4>2, <4>3
    <3> HIDE DEF s
    <3>4. window' = s BY <1>3, <3>1, <3>2, <3>3, SeqEqual
    <3> QED BY <3>4 DEF s
  <2>6. \A i \in 1..(Dropped + n) : Stale(log[i])' BY <1>1, <2>4 DEF Stale
  <2> QED BY <1>1, <2>1, <2>2, <2>5, <2>6 DEF WindowIsSuffix
<1>10. RequestFits'
  <2>1. TokensOf(window') <= Tpm BY <1>4, GovernorAssumption DEF RequestFits
  <2>2. CASE request' = request BY <1>1, <2>1, <2>2 DEF RequestFits
  <2>3. CASE request' # request
    <3>1. Allowed(window', e) /\ request'[1].tokens = e BY <1>5, <2>3
    <3>2. TokensOf(window') + e < Wrap BY <1>4, <2>1, <1>6, GovernorAssumption
    <3>3. (TokensOf(window') + e) % Wrap = TokensOf(window') + e
      <4>1. TokensOf(window') + e \in Nat /\ Wrap \in Nat
        BY <1>4, <1>6, GovernorAssumption
      <4>2. \A x, y \in Nat : x < y => x % y = x OBVIOUS
      <4> QED BY <3>2, <4>1, <4>2
    <3> QED BY <2>1, <3>1, <3>3 DEF RequestFits, Allowed, RoomInWindow, RoomForTokens
  <2> QED BY <2>2, <2>3
<1>11. RpmRespected' /\ TpmRespected' BY <1>1 DEF RpmRespected, TpmRespected
<1> QED BY <1>7, <1>8, <1>9, <1>10, <1>11

LEMMA RecordedKeepsIInv == IInv /\ Recorded => IInv'
<1> SUFFICES ASSUME IInv, Recorded PROVE IInv' OBVIOUS
<1> USE DEF IInv
<1> DEFINE r == [at |-> now, tokens |-> request[1].tokens]
           L == Len(log)
<1>1. /\ window \in Seq(Record) /\ log \in Seq(Record) /\ now \in Nat
      /\ window' = Append(window, r) /\ log' = Append(log, r)
      /\ request # <<>> /\ request' = <<>> /\ now' = now /\ denial' = denial
      /\ request \in Seq(Request) /\ denial \in Seq(Denial)
  BY DEF Recorded, TypeOK
<1>2. r \in Record /\ r.at = now /\ r.tokens = request[1].tokens /\ r.tokens \in Nat
  <2>1. request[1] \in Request BY <1>1
  <2> QED BY <1>1, <2>1 DEF Request, Record
<1>3. TokensOf(window) + r.tokens <= Tpm /\ Len(window) < Rpm
  BY <1>1, <1>2 DEF RequestFits
<1> HIDE DEF r
<1>4. /\ L \in Nat /\ Len(log') = L + 1 /\ log'[L + 1] = r
      /\ \A i \in 1..L : log'[i] = log[i] /\ log[i] \in Record /\ log[i].at \in Nat
      /\ DOMAIN log' = 1..(L + 1) /\ DOMAIN log = 1..L
      /\ Len(window) \in Nat /\ Len(window') = Len(window) + 1
      /\ log' \in Seq(Record) /\ window' \in Seq(Record)
  <2>1. L \in Nat /\ DOMAIN log = 1..L /\ Len(window) \in Nat BY <1>1
  <2>2. /\ Len(log') = L + 1 /\ log'[L + 1] = r /\ log' \in Seq(Record)
        /\ \A i \in 1..L : log'[i] = log[i]
    BY <1>1, <1>2
  <2>3. DOMAIN log' = 1..(L + 1) BY <2>2
  <2>4. Len(window') = Len(window) + 1 /\ window' \in Seq(Record) BY <1>1, <1>2
  <2>5. \A i \in 1..L : log[i] \in Record BY <1>1
  <2>6. \A i \in 1..L : log[i].at \in Nat BY <2>5 DEF Record
  <2> QED BY <2>1, <2>2, <2>3, <2>4, <2>5, <2>6
<1>5. Dropped \in 0..L /\ Dropped = L - Len(window) /\ Dropped' = Dropped
      /\ window = SubSeq(log, Dropped + 1, L)
      /\ \A i \in 1..Dropped : log[i].at < now - Minute
  BY <1>4 DEF WindowIsSuffix, Dropped, Stale
<1> HIDE DEF L
<1>6. TypeOK' BY <1>1, <1>4 DEF TypeOK
<1>7. LogSorted'
  <2>1. \A i \in 1..L : log[i].at <= now BY <1>4 DEF LogSorted
  <2>2. \A i \in 1..(L + 1) : log'[i].at <= now
    <3>1. TAKE i \in 1..(L + 1)
    <3>2. CASE i \in 1..L BY <1>4, <2>1, <3>2
    <3>3. CASE i = L + 1 BY <1>1, <1>2, <1>4, <3>3
    <3> QED BY <1>4, <3>2, <3>3
  <2>3. \A i, j \in 1..(L + 1) : i <= j => log'[i].at <= log'[j].at
    <3>1. SUFFICES ASSUME NEW i \in 1..(L + 1), NEW j \in 1..(L + 1), i <= j
                   PROVE  log'[i].at <= log'[j].at
      OBVIOUS
    <3>2. CASE j \in 1..L
      <4>1. i \in 1..L BY <1>4, <3>1, <3>2
      <4> QED BY <1>4, <3>1, <3>2, <4>1 DEF LogSorted
    <3>3. CASE j = L + 1 BY <1>2, <1>4, <2>2, <3>3
    <3> QED BY <1>4, <3>2, <3>3
  <2> QED BY <1>1, <1>4, <2>2, <2>3 DEF LogSorted
<1>8. WindowIsSuffix'
  <2>1. window' = SubSeq(log', Dropped + 1, L + 1)
    <3>1. SubSeq(Append(log, r), Dropped + 1, Len(log) + 1)
            = Append(SubSeq(log, Dropped + 1, Len(log)), r)
      BY <1>1, <1>2, <1>5, SuffixOfAppend DEF L
    <3> QED BY <1>1, <1>5, <3>1 DEF L
  <2>2. \A i \in 1..Dropped : log'[i].at < now' - Minute
    <3>1. \A i \in 1..Dropped : i \in 1..L BY <1>4, <1>5
    <3> QED BY <1>1, <1>4, <1>5, <3>1
  <2>3. Dropped \in Nat BY <1>4, <1>5
  <2> QED BY <1>4, <1>5, <2>1, <2>2, <2>3 DEF WindowIsSuffix, Stale
<1>9. RequestFits'
  <2>1. TokensOf(window') = TokensOf(window) + r.tokens
    BY <1>1, <1>2, RecordTokens, TokensOfAppend
  <2> QED BY <1>1, <1>3, <2>1 DEF RequestFits
<1>10. RpmRespected'
  <2>0. SUFFICES ASSUME NEW i \in 1..(Len(log') - Rpm)
                 PROVE  log'[i + Rpm].at - log'[i].at > Minute
    BY DEF RpmRespected
  <2>1. i \in 1..(L + 1 - Rpm)
    <3>1. Len(log') = L + 1 /\ L \in Nat BY <1>4
    <3> QED BY <2>0, <3>1, GovernorAssumption
  <2>2. i \in Nat /\ Rpm \in Nat /\ Minute \in Nat /\ Rpm > 0
    BY <1>3, <1>4, GovernorAssumption
  <2>3. CASE i + Rpm <= L
    <3>1. i \in 1..L /\ i + Rpm \in 1..L /\ i \in 1..(L - Rpm) BY <1>4, <2>1, <2>2, <2>3
    <3> QED BY <1>4, <3>1 DEF RpmRespected, L
  <2>4. CASE i + Rpm = L + 1
    <3>1. i \in 1..Dropped /\ i \in 1..L BY <1>3, <1>4, <1>5, <2>1, <2>2, <2>4
    <3>2. log[i].at < now - Minute /\ log'[i] = log[i] /\ log[i].at \in Nat BY <1>4, <1>5, <3>1
    <3>3. log'[i + Rpm].at = now BY <1>2, <1>4, <2>4
    <3> QED BY <1>1, <2>2, <3>2, <3>3
  <2> QED BY <1>4, <2>1, <2>2, <2>3, <2>4
<1>11. TpmRespected'
  <2>1. SUFFICES ASSUME NEW i \in 1..(L + 1), NEW j \in 1..(L + 1), i <= j,
                        log'[j].at - log'[i].at <= Minute
                 PROVE  TokensOf(SubSeq(log', i, j)) <= Tpm
    BY <1>4 DEF TpmRespected
  <2>2. CASE j <= L
    <3>1. i \in 1..L /\ j \in 1..L BY <1>4, <2>1, <2>2
    <3>2. SubSeq(log', i, j) = SubSeq(log, i, j)
      <4>1. Len(SubSeq(log', i, j)) = Len(SubSeq(log, i, j))
            /\ SubSeq(log', i, j) \in Seq(Record) /\ SubSeq(log, i, j) \in Seq(Record)
        BY <1>1, <1>4, <3>1 DEF L
      <4>2. \A k \in 1..Len(SubSeq(log', i, j)) : SubSeq(log', i, j)[k] = SubSeq(log, i, j)[k]
        BY <1>1, <1>4, <3>1 DEF L
      <4> QED BY <4>1, <4>2, SeqEqual
    <3> QED BY <1>4, <2>1, <3>1, <3>2 DEF TpmRespected
  <2>3. CASE j = L + 1
    <3> DEFINE n == i - Dropped - 1
    <3>1. i > Dropped
      <4>1. CASE i = L + 1 BY <1>4, <1>5, <4>1
      <4>2. CASE i \in 1..L
        <5>1. log'[j].at = now /\ log'[i] = log[i] /\ log[i].at \in Nat
          BY <1>2, <1>4, <2>3, <4>2
        <5>2. ~ (log[i].at < now - Minute) BY <1>1, <2>1, <5>1, GovernorAssumption
        <5>3. i \notin 1..Dropped BY <1>5, <5>2
        <5>4. Dropped \in 0..L /\ L \in Nat BY <1>4, <1>5
        <5> QED BY ONLY <4>2, <5>3, <5>4
      <4>3. i \in 1..L \/ i = L + 1 BY ONLY <1>4, <2>1
      <4> QED BY <4>1, <4>2, <4>3
    <3>2. n \in 0..Len(window) /\ n \in 0..(L - Dropped) /\ Dropped + n + 1 = i
          /\ i - 1 \in 0..L /\ (i - 1) + 1 = i
      <4>1. i \in 1..(L + 1) /\ L \in Nat /\ Len(window) \in Nat /\ Dropped \in 0..L
            /\ Dropped = L - Len(window)
        BY <1>4, <1>5, <2>1
      <4> HIDE DEF Dropped
      <4> QED BY ONLY <3>1, <4>1
    <3> DEFINE s == SubSeq(log, i, L)
    <3>3. s = SubSeq(window, n + 1, Len(window))
      <4>1. SubSeq(window, n + 1, Len(window)) = SubSeq(log, Dropped + n + 1, Len(log))
        <5> HIDE DEF n
        <5> QED BY <1>1, <1>5, <3>2, SuffixOfSuffix DEF L
      <4> QED BY <3>2, <4>1 DEF L
    <3>4. SubSeq(log', i, L + 1) = Append(s, r)
      <4>1. SubSeq(Append(log, r), (i - 1) + 1, Len(log) + 1)
              = Append(SubSeq(log, (i - 1) + 1, Len(log)), r)
        BY <1>1, <1>2, <3>2, SuffixOfAppend DEF L
      <4> QED BY <1>1, <3>2, <4>1 DEF L
    <3> HIDE DEF n
    <3>5. s \in Seq(Record) BY <1>1, <3>2, <3>3, SuffixFacts
    <3>6. TokensOf(s) <= TokensOf(window) BY <1>1, <3>2, <3>3, RecordTokens, TokensOfSuffix
    <3> HIDE DEF s
    <3>7. TokensOf(Append(s, r)) = TokensOf(s) + r.tokens
      BY <1>2, <3>5, RecordTokens, TokensOfAppend
    <3>8. TokensOf(s) \in Nat /\ TokensOf(window) \in Nat
      BY <1>1, <3>5, RecordTokens, TokensOfNat
    <3>9. TokensOf(s) + r.tokens <= Tpm
      BY <1>2, <1>3, <3>6, <3>8, GovernorAssumption
    <3> QED BY <2>3, <3>4, <3>7, <3>9
  <2> QED BY <1>4, <2>1, <2>2, <2>3
<1> QED BY <1>6, <1>7, <1>8, <1>9, <1>10, <1>11

LEMMA ChatFailsKeepsIInv == IInv /\ ChatFails => IInv'
<1> SUFFICES ASSUME IInv, ChatFails PROVE IInv' OBVIOUS
<1> USE DEF IInv
<1>1. request' = <<>> /\ UNCHANGED <<now, window, denial, log>> BY DEF ChatFails
<1>2. TypeOK' BY <1>1 DEF TypeOK
<1>3. LogSorted' BY <1>1 DEF LogSorted
<1>4. WindowIsSuffix' BY <1>1 DEF WindowIsSuffix, Dropped, Stale
<1>5. RequestFits' BY <1>1 DEF RequestFits
<1>6. RpmRespected' /\ TpmRespected' BY <1>1 DEF RpmRespected, TpmRespected
<1> QED BY <1>2, <1>3, <1>4, <1>5, <1>6

LEMMA StutterKeepsIInv == IInv /\ UNCHANGED vars => IInv'
BY DEF IInv, vars, TypeOK, LogSorted, WindowIsSuffix, Dropped, Stale, RequestFits,
       RpmRespected, TpmRespected

-----------------------------------------------------------------------------
(* The inductive invariant holds in every state of a session. *)
THEOREM Invariance == Spec => []IInv
<1>1. IInv /\ [Next]_vars => IInv'
  BY TickKeepsIInv, AskKeepsIInv, RecordedKeepsIInv, ChatFailsKeepsIInv, StutterKeepsIInv
  DEF Next
<1> QED BY InitIInv, <1>1, PTL DEF Spec

(* The variables keep their types. *)
THEOREM TypeCorrect == Spec => []TypeOK
<1>1. IInv => TypeOK BY DEF IInv
<1> QED BY Invariance, <1>1, PTL

(* No minute of a session holds more than rpm records, whatever the limits,  *)
(* the requests and the failures: prune_oldest plus is_allowed before a       *)
(* request suffice although the record is only made after it.                *)
THEOREM RpmLimit == Spec => []RpmRespected
<1>1. IInv => RpmRespected BY DEF IInv
<1> QED BY Invariance, <1>1, PTL

(* No minute of a session holds records worth more than tpm tokens, and the  *)
(* 32-bit sum of is_allowed never wraps into a false "allowed".              *)
THEOREM TpmLimit == Spec => []TpmRespected
<1>1. IInv => TpmRespected BY DEF IInv
<1> QED BY Invariance, <1>1, PTL

(* A minute after the last record every record is stale: prune_oldest leaves *)
(* an empty window, however many records it has to pop, and is_allowed       *)
(* refuses nothing that is within the limits.                                *)
THEOREM SilenceHeals == Spec => []Recovers
<1>1. IInv => Recovers
  <2> SUFFICES ASSUME IInv, log = <<>> \/ now - Last(log).at > Minute,
                      NEW e \in Estimates, e <= Tpm, Rpm > 0
               PROVE  Allowed(Pruned(window), e)
    BY DEF Recovers
  <2>1. /\ now \in Nat /\ window \in Seq(Record) /\ log \in Seq(Record)
        /\ e \in Nat /\ Minute \in Nat
    BY GovernorAssumption DEF IInv, TypeOK
  <2>2. \A i \in DOMAIN log : Stale(log[i])
    <3>1. TAKE i \in DOMAIN log
    <3>2. log # <<>> /\ Len(log) \in DOMAIN log /\ i <= Len(log) BY <2>1, <3>1
    <3>3. log[i].at <= log[Len(log)].at BY <3>1, <3>2 DEF IInv, LogSorted
    <3>4. now - log[Len(log)].at > Minute BY <3>2 DEF Last
    <3>5. log[i] \in Record /\ log[Len(log)] \in Record BY <2>1, <3>1, <3>2
    <3>6. log[i].at \in Nat /\ log[Len(log)].at \in Nat BY <3>5 DEF Record
    <3> QED BY <2>1, <3>3, <3>4, <3>6 DEF Stale
  <2>3. \A i \in 1..Len(window) : Stale(window[i])
    <3>1. Dropped \in 0..Len(log) /\ window = SubSeq(log, Dropped + 1, Len(log))
      BY <2>1 DEF IInv, WindowIsSuffix, Dropped
    <3>2. /\ Len(window) = Len(log) - Dropped
          /\ \A i \in 1..(Len(log) - Dropped) : window[i] = log[Dropped + i]
      BY <2>1, <3>1, SuffixFacts
    <3>3. \A i \in 1..(Len(log) - Dropped) : Dropped + i \in DOMAIN log
      BY <2>1, <3>1
    <3> QED BY <2>2, <3>2, <3>3
  <2>4. PICK n \in 0..Len(window) :
           /\ Pruned(window) = SubSeq(window, n + 1, Len(window))
           /\ n < Len(window) => ~ Stale(window[n + 1])
    BY <2>1, PrunedFacts
  <2>5. n = Len(window)
    <3> SUFFICES ASSUME n < Len(window) PROVE FALSE BY <2>1
    <3>1. n + 1 \in 1..Len(window) BY <2>1
    <3> QED BY <2>3, <2>4, <3>1
  <2>6. Pruned(window) = <<>>
    <3>1. Len(Pruned(window)) = 0 /\ Pruned(window) \in Seq(Record)
      BY <2>1, <2>4, <2>5, SuffixFacts
    <3> QED BY <3>1
  <2>7. TokensOf(<<>>) + e = e BY <2>1, TokensOfEmpty
  <2>8. e % Wrap = e
    <3>1. e < Wrap /\ Wrap \in Nat BY <2>1, GovernorAssumption
    <3> QED BY <2>1, <3>1
  <2>9. Len(<<>>) < Rpm BY GovernorAssumption
  <2> QED BY <2>6, <2>7, <2>8, <2>9 DEF Allowed, RoomInWindow, RoomForTokens
<1> QED BY Invariance, <1>1, PTL
=============================================================================
