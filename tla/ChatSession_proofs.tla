-------------------------- MODULE ChatSession_proofs --------------------------
(***************************************************************************)
(* The conversation over any number of sessions, turns and names, with any *)
(* evictions, failures and crashes.                                        *)
(***************************************************************************)
EXTENDS ChatSession, SequenceTheorems, TLAPS

(* What the entries of a window are, as far as the invariant can tell. *)
LEMMA EntryFacts ==
    /\ Message \subseteq Entry /\ SystemPrompt \in Entry /\ GitNote \in Entry
    /\ \A n \in Names : [role |-> "identity", name |-> n] \in Entry
    /\ ~ IsMessage(SystemPrompt) /\ ~ IsIdentity(SystemPrompt)
    /\ ~ IsMessage(GitNote) /\ ~ IsIdentity(GitNote)
    /\ \A m \in Message :
          /\ IsMessage(m) /\ ~ IsIdentity(m)
          /\ m.turn \in 1..MaxTurns /\ m.role \in {"user", "assistant"}
    /\ \A m \in Entry : IsMessage(m) => m \in Message
BY DEF Entry, Message, Note, SystemPrompt, GitNote, IsMessage, IsIdentity

LEMMA IdentityNoteFacts ==
    ASSUME NEW n
    PROVE  LET e == [role |-> "identity", name |-> n]
           IN  ~ IsMessage(e) /\ IsIdentity(e) /\ e.name = n
BY DEF IsMessage, IsIdentity

LEMMA SystemPromptOnly ==
    /\ <<SystemPrompt>> \in Seq(Entry) /\ Len(<<SystemPrompt>>) = 1
    /\ <<SystemPrompt>>[1] = SystemPrompt
BY EntryFacts

(* A window to which entries are added: the prompt, and what is left of the *)
(* rest when the d oldest of it are gone.                                  *)
LEMMA AddingShifts ==
    ASSUME NEW w \in Seq(Entry), w # <<>>, NEW ms \in Seq(Entry), NEW x \in Adding(w, ms)
    PROVE  /\ x \in Seq(Entry) /\ Len(x) > 0 /\ x[1] = SystemPrompt
           /\ \E d \in 0..(Len(w) - 1 + Len(ms)) :
                /\ Len(x) = Len(w) + Len(ms) - d
                /\ \A i \in 2..Len(x) :
                     x[i] = IF i + d <= Len(w) THEN w[i + d] ELSE ms[i + d - Len(w)]
<1> DEFINE all == Tail(w) \o ms
<1>1. /\ Tail(w) \in Seq(Entry) /\ Len(Tail(w)) = Len(w) - 1
      /\ \A i \in 1..Len(Tail(w)) : Tail(w)[i] = w[i + 1]
  BY HeadTailProperties
<1>2. Len(w) \in Nat /\ Len(w) > 0 /\ Len(ms) \in Nat BY EmptySeq
<1>3. /\ all \in Seq(Entry) /\ Len(all) = Len(w) - 1 + Len(ms)
      /\ \A i \in 1..Len(all) :
           all[i] = IF i <= Len(w) - 1 THEN w[i + 1] ELSE ms[i - (Len(w) - 1)]
  <2>1. /\ all \in Seq(Entry) /\ Len(all) = Len(Tail(w)) + Len(ms)
        /\ \A i \in 1..(Len(Tail(w)) + Len(ms)) :
             all[i] = IF i <= Len(Tail(w)) THEN Tail(w)[i] ELSE ms[i - Len(Tail(w))]
    BY <1>1, ConcatProperties
  <2> HIDE DEF all
  <2> QED BY <1>1, <1>2, <2>1
<1>4. PICK k \in 1..(Len(all) + 1) : x = <<SystemPrompt>> \o SubSeq(all, k, Len(all))
  BY DEF Adding, Sliding!Adding
<1> HIDE DEF all
<1> DEFINE rest == SubSeq(all, k, Len(all))
<1>5. k \in Nat /\ k >= 1 /\ k <= Len(all) + 1 /\ Len(all) \in Nat BY <1>3, <1>2, <1>4
<1>6. /\ rest \in Seq(Entry) /\ Len(rest) = Len(all) - k + 1
      /\ \A i \in 1..Len(rest) : rest[i] = all[k + i - 1]
  <2>1. \A i \in k..Len(all) : all[i] \in Entry BY <1>3, <1>5, ElementOfSeq
  <2>2. /\ rest \in Seq(Entry)
        /\ Len(rest) = IF k <= Len(all) THEN Len(all) - k + 1 ELSE 0
        /\ \A i \in 1..(Len(all) - k + 1) : rest[i] = all[k + i - 1]
    BY <1>5, <2>1, SubSeqProperties
  <2> HIDE DEF rest
  <2>3. Len(rest) = Len(all) - k + 1 BY <1>5, <2>2
  <2> QED BY <2>2, <2>3
<1>7. /\ x \in Seq(Entry) /\ Len(x) = 1 + Len(rest) /\ x[1] = SystemPrompt
      /\ \A i \in 2..Len(x) : x[i] = rest[i - 1]
  <2>1. /\ x \in Seq(Entry) /\ Len(x) = 1 + Len(rest)
        /\ \A i \in 1..(1 + Len(rest)) :
             x[i] = IF i <= 1 THEN <<SystemPrompt>>[i] ELSE rest[i - 1]
    BY <1>4, <1>6, SystemPromptOnly, ConcatProperties
  <2>2. Len(rest) \in Nat BY <1>6
  <2> HIDE DEF rest
  <2> QED BY <2>1, <2>2, SystemPromptOnly
<1> HIDE DEF rest
<1>8. k - 1 \in 0..(Len(w) - 1 + Len(ms)) /\ Len(x) = Len(w) + Len(ms) - (k - 1)
  BY <1>2, <1>3, <1>5, <1>6, <1>7
<1>9. ASSUME NEW i \in 2..Len(x)
      PROVE  x[i] = IF i + (k - 1) <= Len(w) THEN w[i + (k - 1)]
                    ELSE ms[i + (k - 1) - Len(w)]
  <2>1. i \in Nat /\ i >= 2 /\ i - 1 \in 1..Len(rest)
    BY <1>2, <1>5, <1>6, <1>7
  <2>2. x[i] = rest[i - 1] /\ rest[i - 1] = all[k + (i - 1) - 1] BY <1>6, <1>7, <2>1
  <2>3. k + (i - 1) - 1 \in 1..Len(all) BY <1>5, <1>6, <2>1
  <2>4. PICK n \in Nat : n = k + (i - 1) - 1 BY <2>3, <1>5
  <2>5. n \in 1..Len(all) /\ x[i] = all[n] BY <2>2, <2>3, <2>4
  <2>6. x[i] = IF n <= Len(w) - 1 THEN w[n + 1] ELSE ms[n - (Len(w) - 1)]
    BY <1>3, <2>5
  <2>7. n + 1 = i + (k - 1) /\ n - (Len(w) - 1) = i + (k - 1) - Len(w)
    BY <1>2, <1>5, <2>1, <2>4
  <2>8. (n <= Len(w) - 1) <=> (i + (k - 1) <= Len(w)) BY <1>2, <1>5, <2>1, <2>4
  <2> QED BY <2>6, <2>7, <2>8
<1>10. Len(x) > 0 BY <1>7, <1>6, <1>5
<1>11. \E d \in 0..(Len(w) - 1 + Len(ms)) :
         /\ Len(x) = Len(w) + Len(ms) - d
         /\ \A i \in 2..Len(x) :
              x[i] = IF i + d <= Len(w) THEN w[i + d] ELSE ms[i + d - Len(w)]
  BY ONLY <1>8, <1>9
<1> QED BY ONLY <1>7, <1>10, <1>11

(* So every entry but the prompt comes from the window or from what is      *)
(* added, ...                                                              *)
LEMMA AddingTakes ==
    ASSUME NEW w \in Seq(Entry), w # <<>>, NEW ms \in Seq(Entry), NEW x \in Adding(w, ms),
           NEW i \in DOMAIN x
    PROVE  \/ x[i] = SystemPrompt
           \/ \E j \in DOMAIN w : x[i] = w[j]
           \/ \E j \in DOMAIN ms : x[i] = ms[j]
<1>1. PICK d \in 0..(Len(w) - 1 + Len(ms)) :
          /\ Len(x) = Len(w) + Len(ms) - d
          /\ \A n \in 2..Len(x) :
               x[n] = IF n + d <= Len(w) THEN w[n + d] ELSE ms[n + d - Len(w)]
  BY AddingShifts
<1>2. x \in Seq(Entry) /\ x[1] = SystemPrompt BY AddingShifts
<1>3. Len(w) \in Nat /\ Len(ms) \in Nat /\ Len(x) \in Nat /\ d \in Nat
      /\ DOMAIN w = 1..Len(w) /\ DOMAIN ms = 1..Len(ms) /\ DOMAIN x = 1..Len(x)
  BY <1>2
<1>4. CASE i = 1 BY <1>2, <1>4
<1>5. CASE i \in 2..Len(x)
  <2>1. CASE i + d <= Len(w)
    <3>1. i + d \in DOMAIN w BY <1>3, <1>5, <2>1
    <3> QED BY <1>1, <1>5, <2>1, <3>1
  <2>2. CASE ~ (i + d <= Len(w))
    <3>1. i + d - Len(w) \in DOMAIN ms BY <1>1, <1>3, <1>5, <2>2
    <3> QED BY <1>1, <1>5, <2>2, <3>1
  <2> QED BY <2>1, <2>2
<1> QED BY <1>3, <1>4, <1>5

(* ... and the order is kept, if what is added follows the window. *)
LEMMA AddingKeepsOrder ==
    ASSUME NEW w \in Seq(Entry), w # <<>>, NEW ms \in Seq(Entry), NEW x \in Adding(w, ms),
           Ordered(w), Ordered(ms),
           \A i \in DOMAIN w, j \in DOMAIN ms :
               IsMessage(w[i]) /\ IsMessage(ms[j]) => Precedes(w[i], ms[j])
    PROVE  Ordered(x)
<1>1. PICK d \in 0..(Len(w) - 1 + Len(ms)) :
          /\ Len(x) = Len(w) + Len(ms) - d
          /\ \A n \in 2..Len(x) :
               x[n] = IF n + d <= Len(w) THEN w[n + d] ELSE ms[n + d - Len(w)]
  BY AddingShifts
<1>2. x \in Seq(Entry) /\ x[1] = SystemPrompt BY AddingShifts
<1>3. Len(w) \in Nat /\ Len(ms) \in Nat /\ Len(x) \in Nat /\ d \in Nat
      /\ DOMAIN w = 1..Len(w) /\ DOMAIN ms = 1..Len(ms) /\ DOMAIN x = 1..Len(x)
  BY <1>2
<1>4. SUFFICES ASSUME NEW i \in DOMAIN x, NEW j \in DOMAIN x, i < j,
                      IsMessage(x[i]), IsMessage(x[j])
               PROVE  Precedes(x[i], x[j])
  BY DEF Ordered
<1>5. i # 1
  <2>1. IsMessage(x[i]) /\ x[1] = SystemPrompt BY <1>2, <1>4
  <2> QED BY ONLY <2>1, EntryFacts
<1>6. i \in 2..Len(x) /\ j \in 2..Len(x) BY <1>3, <1>4, <1>5
<1>7. CASE j + d <= Len(w)
  <2>1. i + d \in DOMAIN w /\ j + d \in DOMAIN w /\ i + d < j + d /\ i + d <= Len(w)
    BY <1>3, <1>4, <1>6, <1>7
  <2>2. x[i] = w[i + d] /\ x[j] = w[j + d] BY <1>1, <1>6, <1>7, <2>1
  <2> QED BY <1>4, <2>1, <2>2 DEF Ordered
<1>8. CASE i + d <= Len(w) /\ ~ (j + d <= Len(w))
  <2>1. i + d \in DOMAIN w /\ j + d - Len(w) \in DOMAIN ms BY <1>1, <1>3, <1>4, <1>6, <1>8
  <2>2. x[i] = w[i + d] /\ x[j] = ms[j + d - Len(w)] BY <1>1, <1>6, <1>8
  <2> QED BY <1>4, <2>1, <2>2
<1>9. CASE ~ (i + d <= Len(w))
  <2>1. /\ i + d - Len(w) \in DOMAIN ms /\ j + d - Len(w) \in DOMAIN ms
        /\ i + d - Len(w) < j + d - Len(w) /\ ~ (j + d <= Len(w))
    BY SMTT(40), <1>1, <1>3, <1>4, <1>6, <1>9
  <2>2. x[i] = ms[i + d - Len(w)] /\ x[j] = ms[j + d - Len(w)] BY <1>1, <1>6, <1>9, <2>1
  <2> QED BY <1>4, <2>1, <2>2 DEF Ordered
<1>10. \/ j + d <= Len(w)
       \/ i + d <= Len(w) /\ ~ (j + d <= Len(w))
       \/ ~ (i + d <= Len(w))
  OBVIOUS
<1> QED BY <1>7, <1>8, <1>9, <1>10
-----------------------------------------------------------------------------
(* Sequences of entries put together.                                      *)

LEMMA ConcatTakes ==
    ASSUME NEW s \in Seq(Entry), NEW t \in Seq(Entry)
    PROVE  /\ s \o t \in Seq(Entry)
           /\ \A i \in DOMAIN (s \o t) :
                 \/ \E j \in DOMAIN s : (s \o t)[i] = s[j]
                 \/ \E j \in DOMAIN t : (s \o t)[i] = t[j]
<1> DEFINE u == s \o t
<1>1. /\ u \in Seq(Entry) /\ Len(u) = Len(s) + Len(t)
      /\ \A i \in 1..(Len(s) + Len(t)) : u[i] = IF i <= Len(s) THEN s[i] ELSE t[i - Len(s)]
  BY ConcatProperties
<1> HIDE DEF u
<1>2. /\ Len(s) \in Nat /\ Len(t) \in Nat
      /\ DOMAIN u = 1..Len(u) /\ DOMAIN s = 1..Len(s) /\ DOMAIN t = 1..Len(t)
  BY <1>1
<1>3. ASSUME NEW i \in DOMAIN u
      PROVE  (\E j \in DOMAIN s : u[i] = s[j]) \/ (\E j \in DOMAIN t : u[i] = t[j])
  <2>1. CASE i <= Len(s) BY <1>1, <1>2, <1>3, <2>1
  <2>2. CASE ~ (i <= Len(s))
    <3>1. i - Len(s) \in DOMAIN t BY <1>1, <1>2, <1>3, <2>2
    <3> QED BY <1>1, <1>2, <1>3, <2>2, <3>1
  <2> QED BY <2>1, <2>2
<1> QED BY <1>1, <1>3 DEF u

LEMMA ConcatKeepsOrder ==
    ASSUME NEW s \in Seq(Entry), NEW t \in Seq(Entry), Ordered(s), Ordered(t),
           \A i \in DOMAIN s, j \in DOMAIN t :
               IsMessage(s[i]) /\ IsMessage(t[j]) => Precedes(s[i], t[j])
    PROVE  Ordered(s \o t)
<1> DEFINE u == s \o t
<1>1. /\ u \in Seq(Entry) /\ Len(u) = Len(s) + Len(t)
      /\ \A i \in 1..(Len(s) + Len(t)) : u[i] = IF i <= Len(s) THEN s[i] ELSE t[i - Len(s)]
  BY ConcatProperties
<1> HIDE DEF u
<1>2. /\ Len(s) \in Nat /\ Len(t) \in Nat
      /\ DOMAIN u = 1..Len(u) /\ DOMAIN s = 1..Len(s) /\ DOMAIN t = 1..Len(t)
  BY <1>1
<1>3. ASSUME NEW i \in DOMAIN u, NEW j \in DOMAIN u, i < j,
             IsMessage(u[i]), IsMessage(u[j])
      PROVE  Precedes(u[i], u[j])
  <2>1. CASE j <= Len(s)
    <3>1. i \in DOMAIN s /\ j \in DOMAIN s BY <1>2, <1>3, <2>1
    <3>2. u[i] = s[i] /\ u[j] = s[j] BY <1>1, <1>2, <1>3, <2>1
    <3> QED BY <1>3, <3>1, <3>2 DEF Ordered
  <2>2. CASE i <= Len(s) /\ ~ (j <= Len(s))
    <3>1. i \in DOMAIN s /\ j - Len(s) \in DOMAIN t BY <1>1, <1>2, <1>3, <2>2
    <3>2. u[i] = s[i] /\ u[j] = t[j - Len(s)] BY <1>1, <1>2, <1>3, <2>2
    <3> QED BY <1>3, <3>1, <3>2
  <2>3. CASE ~ (i <= Len(s))
    <3>1. /\ i - Len(s) \in DOMAIN t /\ j - Len(s) \in DOMAIN t
          /\ i - Len(s) < j - Len(s) /\ ~ (j <= Len(s))
      BY <1>1, <1>2, <1>3, <2>3
    <3>2. u[i] = t[i - Len(s)] /\ u[j] = t[j - Len(s)]
      BY <1>1, <1>2, <1>3, <2>3, <3>1
    <3> QED BY <1>3, <3>1, <3>2 DEF Ordered
  <2> QED BY <2>1, <2>2, <2>3
<1>4. Ordered(u) BY ONLY <1>3 DEF Ordered
<1> QED BY <1>4 DEF u

(* One more row. *)
LEMMA AppendKeepsOrder ==
    ASSUME NEW s \in Seq(Message), NEW m \in Message, Ordered(s),
           \A i \in DOMAIN s : Precedes(s[i], m)
    PROVE  /\ Append(s, m) \in Seq(Message) /\ Ordered(Append(s, m))
           /\ \A i \in DOMAIN s : i \in DOMAIN Append(s, m) /\ Append(s, m)[i] = s[i]
           /\ \E i \in DOMAIN Append(s, m) : Append(s, m)[i] = m
           /\ \A i \in DOMAIN Append(s, m) :
                 Append(s, m)[i] = m \/ \E j \in DOMAIN s : Append(s, m)[i] = s[j]
<1> DEFINE u == Append(s, m)
<1>1. /\ u \in Seq(Message) /\ Len(u) = Len(s) + 1 /\ u[Len(s) + 1] = m
      /\ \A i \in 1..Len(s) : u[i] = s[i]
  BY AppendProperties
<1> HIDE DEF u
<1>2. Len(s) \in Nat /\ DOMAIN u = 1..(Len(s) + 1) /\ DOMAIN s = 1..Len(s) BY <1>1
<1>3. ASSUME NEW i \in DOMAIN u, NEW j \in DOMAIN u, i < j PROVE Precedes(u[i], u[j])
  <2>1. i \in DOMAIN s /\ u[i] = s[i] BY <1>1, <1>2, <1>3
  <2>2. CASE j \in DOMAIN s
    <3>1. u[j] = s[j] /\ s[i] \in Message /\ s[j] \in Message BY <1>1, <1>2, <2>1, <2>2
    <3> QED BY <1>3, <2>1, <2>2, <3>1, EntryFacts DEF Ordered
  <2>3. CASE j = Len(s) + 1 BY <1>1, <2>1, <2>3
  <2> QED BY <1>2, <2>2, <2>3
<1>4. Ordered(u) BY ONLY <1>3 DEF Ordered
<1>5. \A i \in DOMAIN s : i \in DOMAIN u /\ u[i] = s[i] BY <1>1, <1>2
<1>6. \E i \in DOMAIN u : u[i] = m BY <1>1, <1>2
<1>7. \A i \in DOMAIN u : u[i] = m \/ \E j \in DOMAIN s : u[i] = s[j] BY <1>1, <1>2
<1> QED BY <1>1, <1>4, <1>5, <1>6, <1>7 DEF u

(* The rows that are restored: the last ones, in their order. *)
LEMMA RecentHistoryFacts ==
    ASSUME rows \in Seq(Message), Ordered(rows)
    PROVE  /\ RecentHistory \in Seq(Message) /\ Ordered(RecentHistory)
           /\ \A i \in DOMAIN RecentHistory : Stored(RecentHistory[i])
<1> DEFINE k == IF Len(rows) > HistoryLimit THEN Len(rows) - HistoryLimit + 1 ELSE 1
           h == SubSeq(rows, k, Len(rows))
<1>1. Len(rows) \in Nat /\ DOMAIN rows = 1..Len(rows) OBVIOUS
<1>2. k \in Nat /\ k >= 1 /\ k <= Len(rows) + 1
  <2>0. HistoryLimit \in Nat /\ HistoryLimit # 0 BY SessionAssumption
  <2>1. HistoryLimit \in Nat /\ HistoryLimit >= 1 BY ONLY <2>0
  <2>2. CASE Len(rows) > HistoryLimit
    <3>1. k = Len(rows) - HistoryLimit + 1 BY <2>2
    <3> HIDE DEF k
    <3> QED BY <1>1, <2>1, <2>2, <3>1
  <2>3. CASE ~ (Len(rows) > HistoryLimit) BY <1>1, <2>3
  <2> QED BY <2>2, <2>3
<1>3. h = RecentHistory BY DEF RecentHistory
<1> HIDE DEF k
<1>4. /\ h \in Seq(Message) /\ Len(h) = IF k <= Len(rows) THEN Len(rows) - k + 1 ELSE 0
      /\ \A i \in 1..(Len(rows) - k + 1) : h[i] = rows[k + i - 1]
  <2>1. \A i \in k..Len(rows) : rows[i] \in Message BY <1>1, <1>2, ElementOfSeq
  <2> QED BY <1>1, <1>2, <2>1, SubSeqProperties
<1> HIDE DEF h
<1>5. DOMAIN h = 1..(Len(rows) - k + 1)
  <2>1. Len(h) = Len(rows) - k + 1 BY <1>1, <1>2, <1>4
  <2> QED BY <1>4, <2>1
<1>6. \A i \in DOMAIN h : k + i - 1 \in DOMAIN rows /\ h[i] = rows[k + i - 1]
  BY <1>1, <1>2, <1>4, <1>5
<1>7. \A i \in DOMAIN h : Stored(h[i]) BY <1>6 DEF Stored
<1>8. ASSUME NEW i \in DOMAIN h, NEW j \in DOMAIN h, i < j, IsMessage(h[i]), IsMessage(h[j])
      PROVE  Precedes(h[i], h[j])
  <2>1. k + i - 1 < k + j - 1 BY <1>2, <1>5, <1>8
  <2> QED BY <1>6, <1>8, <2>1 DEF Ordered
<1>9. Ordered(h) BY ONLY <1>8 DEF Ordered
<1> QED BY <1>3, <1>4, <1>7, <1>9

LEMMA EntriesOfMessages == ASSUME NEW s \in Seq(Message) PROVE s \in Seq(Entry)
BY EntryFacts

(* Sequences of one entry, or of none. *)
LEMMA ShortSequences ==
    /\ <<>> \in Seq(Entry) /\ Ordered(<<>>) /\ \A i \in DOMAIN <<>> : FALSE
    /\ \A e \in Entry :
          <<e>> \in Seq(Entry) /\ Ordered(<<e>>) /\ \A i \in DOMAIN <<e>> : <<e>>[i] = e
<1>1. <<>> \in Seq(Entry) /\ \A i \in DOMAIN <<>> : FALSE OBVIOUS
<1>2. ASSUME NEW e \in Entry
      PROVE  <<e>> \in Seq(Entry) /\ Ordered(<<e>>) /\ \A i \in DOMAIN <<e>> : <<e>>[i] = e
  <2>1. Len(<<e>>) = 1 /\ <<e>>[1] = e /\ <<e>> \in Seq(Entry) OBVIOUS
  <2>2. DOMAIN <<e>> = 1..1 BY <2>1, LenProperties
  <2>3. \A i \in DOMAIN <<e>> : i = 1 /\ <<e>>[i] = e BY <2>1, <2>2
  <2>4. Ordered(<<e>>) BY <2>3 DEF Ordered
  <2> QED BY <2>1, <2>3, <2>4
<1> QED BY <1>1, <1>2 DEF Ordered

LEMMA NoteFacts ==
    ASSUME NEW n \in Names \cup {""}
    PROVE  /\ IdentityNote(n) \in Seq(Entry) /\ Ordered(IdentityNote(n))
           /\ \A i \in DOMAIN IdentityNote(n) :
                 /\ ~ IsMessage(IdentityNote(n)[i]) /\ IdentityNote(n)[i].name = n
                 /\ IsIdentity(IdentityNote(n)[i])
<1>1. CASE n = ""
  <2>1. IdentityNote(n) = <<>> BY <1>1 DEF IdentityNote
  <2> QED BY <2>1, ShortSequences
<1>2. CASE n # ""
  <2> DEFINE e == [role |-> "identity", name |-> n]
  <2>1. IdentityNote(n) = <<e>> BY <1>2 DEF IdentityNote
  <2>2. e \in Entry /\ ~ IsMessage(e) /\ IsIdentity(e) /\ e.name = n
    BY <1>2, EntryFacts, IdentityNoteFacts
  <2> HIDE DEF e
  <2> QED BY <2>1, <2>2, ShortSequences
<1> QED BY <1>1, <1>2

(* What a new session adds to its prompt: messages only from the table, in  *)
(* its order, and no identity but the session's.                           *)
LEMMA OpeningFacts ==
    ASSUME rows \in Seq(Message), Ordered(rows), user_name' \in Names \cup {""},
           NEW history \in {<<>>, RecentHistory}, NEW git \in {<<>>, <<GitNote>>}
    PROVE  LET ms == Opening(history, git)
           IN  /\ ms \in Seq(Entry) /\ Ordered(ms)
               /\ \A i \in DOMAIN ms :
                     /\ IsMessage(ms[i]) => Stored(ms[i])
                     /\ IsIdentity(ms[i]) => ms[i].name = user_name'
<1> PICK n \in Names \cup {""} : n = user_name' OBVIOUS
<1> DEFINE note == IdentityNote(n)
           nh == note \o history
           ms == nh \o git
<1>1. Opening(history, git) = ms
  <2>1. IdentityNote(user_name') = IdentityNote(n) BY DEF IdentityNote
  <2> QED BY <2>1 DEF Opening
<1>2. /\ note \in Seq(Entry) /\ Ordered(note)
      /\ \A i \in DOMAIN note :
            ~ IsMessage(note[i]) /\ IsIdentity(note[i]) /\ note[i].name = n
  BY NoteFacts
<1>3. /\ history \in Seq(Entry) /\ Ordered(history)
      /\ \A i \in DOMAIN history : ~ IsIdentity(history[i]) /\ Stored(history[i])
  <2>1. CASE history = <<>> BY <2>1, ShortSequences
  <2>2. CASE history = RecentHistory
    <3>1. /\ history \in Seq(Message) /\ Ordered(history)
          /\ \A i \in DOMAIN history : Stored(history[i])
      BY <2>2, RecentHistoryFacts
    <3>2. \A i \in DOMAIN history : history[i] \in Message
      BY <3>1, LenProperties, ElementOfSeq
    <3>3. history \in Seq(Entry) BY <3>1, EntriesOfMessages
    <3> QED BY <3>1, <3>2, <3>3, EntryFacts
  <2> QED BY <2>1, <2>2
<1>4. /\ git \in Seq(Entry) /\ Ordered(git)
      /\ \A i \in DOMAIN git : ~ IsMessage(git[i]) /\ ~ IsIdentity(git[i])
  <2>1. CASE git = <<>> BY <2>1, ShortSequences
  <2>2. CASE git = <<GitNote>>
    <3> QED BY <2>2, EntryFacts, ShortSequences
  <2> QED BY <2>1, <2>2
<1> HIDE DEF note
<1>5. /\ nh \in Seq(Entry) /\ Ordered(nh)
      /\ \A i \in DOMAIN nh :
            \/ \E j \in DOMAIN note : nh[i] = note[j]
            \/ \E j \in DOMAIN history : nh[i] = history[j]
  BY <1>2, <1>3, ConcatTakes, ConcatKeepsOrder
<1> HIDE DEF nh
<1>6. /\ ms \in Seq(Entry) /\ Ordered(ms)
      /\ \A i \in DOMAIN ms :
            (\E j \in DOMAIN nh : ms[i] = nh[j]) \/ (\E j \in DOMAIN git : ms[i] = git[j])
  BY <1>4, <1>5, ConcatTakes, ConcatKeepsOrder
<1> HIDE DEF ms
<1>7. \A i \in DOMAIN ms :
         /\ IsMessage(ms[i]) => Stored(ms[i])
         /\ IsIdentity(ms[i]) => ms[i].name = n
  <2>1. TAKE i \in DOMAIN ms
  <2>2. \/ \E j \in DOMAIN note : ms[i] = note[j]
        \/ \E j \in DOMAIN history : ms[i] = history[j]
        \/ \E j \in DOMAIN git : ms[i] = git[j]
    BY ZenonT(60), <1>5, <1>6
  <2> QED BY ONLY <2>2, <1>2, <1>3, <1>4
<1> QED BY <1>1, <1>6, <1>7
-----------------------------------------------------------------------------
LEMMA InitIInv == Init => IInv
<1> SUFFICES ASSUME Init PROVE IInv OBVIOUS
<1>1. TypeOK
  <2>1. <<>> \in Seq(Entry) /\ <<>> \in Seq(Message) BY EmptySeq
  <2>2. MaxTurns \in Nat BY SessionAssumption
  <2>3. 0 \in 0..MaxTurns /\ 0 \in 0..0 BY ONLY <2>2
  <2> QED BY <2>1, <2>3 DEF TypeOK, Init
<1>2. PromptFirst /\ phase = "off" BY DEF PromptFirst, Init
<1>3. \A i \in DOMAIN window : FALSE BY ShortSequences DEF Init
<1>4. \A i \in DOMAIN rows : FALSE BY ShortSequences DEF Init
<1> QED BY <1>1, <1>2, <1>3, <1>4
      DEF IInv, UpToNow, TurnUnderWay, ConversationOrdered, Ordered, ClearedStaysCleared,
          After, TranscriptComplete, NotesAreCurrent

(* The table after a message was logged, or was not. *)
LEMMA LogFacts ==
    ASSUME rows \in Seq(Message), Ordered(rows), unlogged \subseteq Message,
           NEW m \in Message, \A i \in DOMAIN rows : Precedes(rows[i], m), Log(m)
    PROVE  /\ rows' \in Seq(Message) /\ Ordered(rows')
           /\ unlogged' \subseteq Message /\ unlogged \subseteq unlogged'
           /\ m \in unlogged' \/ Stored(m)'
           /\ \A x : Stored(x) => Stored(x)'
           /\ \A i \in DOMAIN rows' : rows'[i] = m \/ \E j \in DOMAIN rows : rows'[i] = rows[j]
<1>1. CASE rows' = Append(rows, m) /\ UNCHANGED unlogged
  <2>1. /\ rows' \in Seq(Message) /\ Ordered(rows')
        /\ \A i \in DOMAIN rows : i \in DOMAIN rows' /\ rows'[i] = rows[i]
        /\ \E i \in DOMAIN rows' : rows'[i] = m
        /\ \A i \in DOMAIN rows' : rows'[i] = m \/ \E j \in DOMAIN rows : rows'[i] = rows[j]
    BY <1>1, AppendKeepsOrder
  <2> QED BY <1>1, <2>1 DEF Stored
<1>2. CASE unlogged' = unlogged \cup {m} /\ UNCHANGED rows
  BY <1>2 DEF Stored
<1> QED BY <1>1, <1>2 DEF Log

(* The window after a message was added. *)
LEMMA SaidFacts ==
    ASSUME IInv, phase # "off", NEW m \in Message, window' \in Adding(window, <<m>>),
           \A i \in DOMAIN window : IsMessage(window[i]) => Precedes(window[i], m),
           UNCHANGED user_name
    PROVE  /\ window' \in Seq(Entry) /\ Len(window') > 0 /\ window'[1] = SystemPrompt
           /\ Ordered(window') /\ NotesAreCurrent'
           /\ \A i \in DOMAIN window' :
                 \/ window'[i] = SystemPrompt \/ window'[i] = m
                 \/ \E j \in DOMAIN window : window'[i] = window[j]
<1> PICK x : x = window' OBVIOUS
<1>1. /\ window \in Seq(Entry) /\ window # <<>> /\ Ordered(window) /\ NotesAreCurrent
      /\ Len(window) \in Nat /\ DOMAIN window = 1..Len(window)
  <2>1. window \in Seq(Entry) /\ Ordered(window) /\ NotesAreCurrent /\ Len(window) > 0
    BY DEF IInv, TypeOK, PromptFirst, ConversationOrdered
  <2> QED BY <2>1
<1>2. m \in Entry /\ IsMessage(m) /\ ~ IsIdentity(m) BY EntryFacts
<1>3. <<m>> \in Seq(Entry) /\ Ordered(<<m>>) /\ Len(<<m>>) = 1
      /\ \A i \in DOMAIN <<m>> : <<m>>[i] = m
  BY <1>2, ShortSequences
<1> DEFINE ms == <<m>>
<1> HIDE DEF ms
<1>4. x \in Adding(window, ms) BY DEF ms
<1>5. ms \in Seq(Entry) /\ Ordered(ms) /\ Len(ms) = 1 /\ \A i \in DOMAIN ms : ms[i] = m
  BY <1>3 DEF ms
<1>6. x \in Seq(Entry) /\ Len(x) > 0 /\ x[1] = SystemPrompt
  BY <1>1, <1>4, <1>5, AddingShifts
<1>7. Ordered(x) BY <1>1, <1>4, <1>5, AddingKeepsOrder
<1>8. \A i \in DOMAIN x :
         x[i] = SystemPrompt \/ x[i] = m \/ \E j \in DOMAIN window : x[i] = window[j]
  BY <1>1, <1>4, <1>5, AddingTakes
<1>9. PICK d \in 0..(Len(window) - 1 + Len(ms)) :
          /\ Len(x) = Len(window) + Len(ms) - d
          /\ \A i \in 2..Len(x) :
               x[i] = IF i + d <= Len(window) THEN window[i + d]
                      ELSE ms[i + d - Len(window)]
  BY <1>1, <1>4, <1>5, AddingShifts
<1>10. d \in Nat /\ Len(x) \in Nat /\ Len(x) = Len(window) + 1 - d
       /\ DOMAIN x = 1..Len(x) /\ DOMAIN ms = 1..1
  BY <1>1, <1>5, <1>6, <1>9
<1>11. ASSUME NEW i \in DOMAIN x, IsIdentity(x[i]),
              \A j \in (i + 1)..Len(x) : ~ IsIdentity(x[j])
       PROVE  x[i].name = user_name
  <2>1. i # 1
    <3>1. IsIdentity(x[i]) /\ x[1] = SystemPrompt BY <1>6, <1>11
    <3> QED BY ONLY <3>1, EntryFacts
  <2>2. i \in 2..Len(x) BY <1>10, <2>1
  <2>3. i + d <= Len(window)
    <3>1. ASSUME ~ (i + d <= Len(window)) PROVE FALSE
      <4>1. i + d - Len(window) \in DOMAIN ms BY <1>1, <1>10, <2>2, <3>1
      <4>2. x[i] = m BY <1>5, <1>9, <2>2, <3>1, <4>1
      <4> QED BY <1>2, <1>11, <4>2
    <3> QED BY <3>1
  <2>4. i + d \in DOMAIN window /\ x[i] = window[i + d] BY <1>1, <1>9, <1>10, <2>2, <2>3
  <2>5. ASSUME NEW j \in (i + d + 1)..Len(window) PROVE ~ IsIdentity(window[j])
    <3>1. j - d \in (i + 1)..Len(x) /\ j - d \in 2..Len(x) /\ (j - d) + d = j
          /\ j <= Len(window)
      BY <1>1, <1>10, <2>2
    <3>2. x[j - d] = window[j] BY <1>9, <3>1
    <3> QED BY <1>11, <3>1, <3>2
  <2> QED BY <1>1, <1>11, <2>4, <2>5 DEF NotesAreCurrent
<1>12. NotesAreCurrent'
  <2>1. window' = x /\ user_name' = user_name OBVIOUS
  <2> QED BY ONLY <1>11, <2>1 DEF NotesAreCurrent
<1> QED BY <1>6, <1>7, <1>8, <1>12

(* A message, said and logged, that follows everything before it. *)
LEMMA SayingKeepsIInv ==
    ASSUME IInv, phase # "off", phase' \in {"repl", "chat", "got"}, NEW m \in Message,
           m.turn = turns', turns' \in turns..MaxTurns, wiped < turns',
           phase' # "repl" => turns' > turns /\ m.role = "user",
           \A x \in Message :
               /\ x.turn <= turns
               /\ phase \in {"chat", "got"} /\ x.turn = turns => x.role = "user"
               => Precedes(x, m),
           Log(m), window' \in Adding(window, <<m>>),
           UNCHANGED <<db_open, user_name, wiped, forgotten, stored_name>>
    PROVE  IInv'
<1>t. /\ TypeOK /\ UpToNow(window) /\ UpToNow(rows) /\ ConversationOrdered
      /\ ClearedStaysCleared /\ TranscriptComplete
      /\ rows \in Seq(Message) /\ window \in Seq(Entry) /\ unlogged \subseteq Message
      /\ turns \in Nat /\ wiped \in 0..turns /\ forgotten \in 0..wiped
      /\ MaxTurns \in Nat
  <2>1. MaxTurns \in Nat BY SessionAssumption
  <2>2. TypeOK BY DEF IInv
  <2>3. /\ rows \in Seq(Message) /\ window \in Seq(Entry) /\ unlogged \subseteq Message
        /\ turns \in 0..MaxTurns /\ wiped \in 0..turns /\ forgotten \in 0..wiped
    BY <2>2 DEF TypeOK
  <2> QED BY <2>1, <2>2, <2>3 DEF IInv
<1>0. UNCHANGED db_open /\ UNCHANGED user_name /\ UNCHANGED wiped /\ UNCHANGED forgotten
      /\ UNCHANGED stored_name
  OBVIOUS
<1>1. \A i \in DOMAIN rows : rows[i] \in Message BY <1>t, LenProperties, ElementOfSeq
<1>2. \A i \in DOMAIN window : window[i] \in Entry BY <1>t, LenProperties, ElementOfSeq
<1>3. \A i \in DOMAIN rows : Precedes(rows[i], m)
  BY <1>t, <1>1, EntryFacts DEF UpToNow
<1>4. \A i \in DOMAIN window : IsMessage(window[i]) => Precedes(window[i], m)
  BY <1>t, <1>2, EntryFacts DEF UpToNow
<1>5. /\ rows' \in Seq(Message) /\ Ordered(rows')
      /\ unlogged' \subseteq Message /\ unlogged \subseteq unlogged'
      /\ m \in unlogged' \/ Stored(m)'
      /\ \A x : Stored(x) => Stored(x)'
      /\ \A i \in DOMAIN rows' : rows'[i] = m \/ \E j \in DOMAIN rows : rows'[i] = rows[j]
  BY <1>t, <1>3, LogFacts DEF ConversationOrdered
<1>6. /\ window' \in Seq(Entry) /\ Len(window') > 0 /\ window'[1] = SystemPrompt
      /\ Ordered(window') /\ NotesAreCurrent'
      /\ \A i \in DOMAIN window' :
            \/ window'[i] = SystemPrompt \/ window'[i] = m
            \/ \E j \in DOMAIN window : window'[i] = window[j]
  BY <1>0, <1>4, SaidFacts
<1>7. turns' \in Nat /\ turns <= turns' /\ turns' <= MaxTurns /\ wiped' \in 0..turns'
      /\ forgotten' \in 0..wiped' /\ forgotten' < turns' /\ wiped' < turns'
  BY <1>t, <1>0
<1>8. TypeOK'
  <2>1. /\ db_open \in BOOLEAN /\ user_name \in Names \cup {""}
        /\ stored_name \in Names \cup {""}
    BY <1>t DEF TypeOK
  <2>2. turns' \in 0..MaxTurns BY <1>7
  <2> QED BY <1>0, <1>5, <1>6, <1>7, <2>1, <2>2 DEF TypeOK
<1>9. PromptFirst' BY <1>6 DEF PromptFirst
<1>10. \A x \in Message : x.turn \in Nat BY EntryFacts
<1>11. UpToNow(window)'
  <2>1. ASSUME NEW i \in DOMAIN window', IsMessage(window'[i])
        PROVE  /\ window'[i].turn <= turns'
               /\ phase' \in {"chat", "got"} /\ window'[i].turn = turns'
                    => window'[i].role = "user"
    <3>1. CASE window'[i] = m BY <1>7, <3>1
    <3>2. ASSUME NEW j \in DOMAIN window, window'[i] = window[j]
          PROVE  /\ window'[i].turn <= turns'
                 /\ phase' \in {"chat", "got"} /\ window'[i].turn = turns'
                      => window'[i].role = "user"
      <4>1. window[j].turn <= turns /\ window[j].turn \in Nat
        BY <1>t, <1>2, <1>10, <2>1, <3>2, EntryFacts DEF UpToNow
      <4>2. phase' \in {"chat", "got"} => turns < turns' BY <1>t, <1>7
      <4> QED BY <1>t, <1>7, <3>2, <4>1, <4>2
    <3>3. window'[i] # SystemPrompt BY <2>1, EntryFacts
    <3> QED BY <1>6, <3>1, <3>2, <3>3
  <2> QED BY <2>1 DEF UpToNow
<1>12. UpToNow(rows)'
  <2>1. ASSUME NEW i \in DOMAIN rows'
        PROVE  /\ rows'[i].turn <= turns'
               /\ phase' \in {"chat", "got"} /\ rows'[i].turn = turns'
                    => rows'[i].role = "user"
    <3>1. CASE rows'[i] = m BY <1>7, <3>1
    <3>2. ASSUME NEW j \in DOMAIN rows, rows'[i] = rows[j]
          PROVE  /\ rows'[i].turn <= turns'
                 /\ phase' \in {"chat", "got"} /\ rows'[i].turn = turns'
                      => rows'[i].role = "user"
      <4>1. rows[j].turn <= turns /\ rows[j].turn \in Nat
        BY <1>t, <1>1, <1>10, EntryFacts DEF UpToNow
      <4>2. phase' \in {"chat", "got"} => turns < turns' BY <1>t, <1>7
      <4> QED BY <1>t, <1>7, <3>2, <4>1, <4>2
    <3> QED BY <1>5, <3>1, <3>2
  <2> QED BY <2>1 DEF UpToNow
<1>13. TurnUnderWay' BY <1>7 DEF TurnUnderWay
<1>14. ConversationOrdered' BY <1>5, <1>6 DEF ConversationOrdered, Ordered
<1>15. ClearedStaysCleared'
  <2>1. ASSUME NEW i \in DOMAIN rows' PROVE rows'[i].turn > wiped'
    <3>1. CASE rows'[i] = m BY <1>7, <1>t, <3>1
    <3>2. ASSUME NEW j \in DOMAIN rows, rows'[i] = rows[j] PROVE rows'[i].turn > wiped'
      BY <1>t, <1>0, <1>1, <3>2, EntryFacts DEF ClearedStaysCleared, After
    <3> QED BY <1>5, <3>1, <3>2
  <2>2. ASSUME NEW i \in DOMAIN window', IsMessage(window'[i])
        PROVE  window'[i].turn > forgotten'
    <3>1. CASE window'[i] = m BY <1>7, <1>t, <3>1
    <3>2. ASSUME NEW j \in DOMAIN window, window'[i] = window[j]
          PROVE  window'[i].turn > forgotten'
      BY <1>t, <1>0, <2>2, <3>2 DEF ClearedStaysCleared, After
    <3>3. window'[i] # SystemPrompt BY <2>2, EntryFacts
    <3> QED BY <1>6, <3>1, <3>2, <3>3
  <2> QED BY <2>1, <2>2 DEF ClearedStaysCleared, After
<1>16. TranscriptComplete'
  <2>1. ASSUME NEW i \in DOMAIN window', IsMessage(window'[i]), window'[i].turn > wiped'
        PROVE  window'[i] \in unlogged' \/ \E n \in DOMAIN rows' : rows'[n] = window'[i]
    <3>1. CASE window'[i] = m
      <4>1. m \in unlogged' \/ \E n \in DOMAIN rows' : rows'[n] = m BY <1>5 DEF Stored
      <4> QED BY <3>1, <4>1
    <3>2. ASSUME NEW j \in DOMAIN window, window'[i] = window[j]
          PROVE  window'[i] \in unlogged' \/ \E n \in DOMAIN rows' : rows'[n] = window'[i]
      <4>1. window[j] \in unlogged \/ Stored(window[j])
        BY <1>t, <1>0, <2>1, <3>2 DEF TranscriptComplete
      <4> QED BY <1>5, <3>2, <4>1 DEF Stored
    <3>3. window'[i] # SystemPrompt BY <2>1, EntryFacts
    <3> QED BY <1>6, <3>1, <3>2, <3>3
  <2> QED BY ONLY <2>1 DEF TranscriptComplete, Stored
<1> QED BY <1>6, <1>8, <1>9, <1>11, <1>12, <1>13, <1>14, <1>15, <1>16 DEF IInv
(* Nothing is said, shown or cleared. *)
LEMMA SilenceKeepsIInv ==
    ASSUME IInv, TypeOK',
           UNCHANGED <<window, rows, unlogged, wiped, forgotten, user_name>>,
           turns <= turns', phase' = "off" <=> phase = "off",
           phase' \in {"chat", "got"} => turns' > turns \/ (phase' = phase /\ turns' = turns)
    PROVE  IInv'
<1>t. /\ UpToNow(window) /\ UpToNow(rows) /\ ConversationOrdered /\ TurnUnderWay
      /\ ClearedStaysCleared /\ TranscriptComplete /\ NotesAreCurrent /\ PromptFirst
      /\ rows \in Seq(Message) /\ window \in Seq(Entry)
      /\ turns \in 0..MaxTurns /\ wiped \in 0..turns
  BY DEF IInv, TypeOK
<1>m. turns \in Nat /\ turns' \in Nat /\ wiped \in Nat /\ wiped <= turns
  <2>1. turns' \in 0..MaxTurns BY DEF TypeOK
  <2>2. MaxTurns \in Nat BY SessionAssumption
  <2> QED BY <1>t, <2>1, <2>2
<1>0. window' = window /\ rows' = rows /\ unlogged' = unlogged /\ wiped' = wiped
      /\ forgotten' = forgotten /\ user_name' = user_name
  OBVIOUS
<1>1. /\ \A i \in DOMAIN rows : rows[i] \in Message
      /\ \A i \in DOMAIN window : window[i] \in Entry
  BY <1>t, LenProperties, ElementOfSeq
<1>2. PromptFirst' BY <1>t, <1>0 DEF PromptFirst
<1>3. ASSUME NEW m \in Message, m.turn <= turns,
             phase \in {"chat", "got"} /\ m.turn = turns => m.role = "user"
      PROVE  /\ m.turn <= turns'
             /\ phase' \in {"chat", "got"} /\ m.turn = turns' => m.role = "user"
  <2>1. m.turn \in Nat BY EntryFacts
  <2> QED BY <1>m, <1>3, <2>1
<1>4. UpToNow(window)'
  <2>1. \A i \in DOMAIN window : IsMessage(window[i]) =>
          /\ window[i].turn <= turns'
          /\ phase' \in {"chat", "got"} /\ window[i].turn = turns' => window[i].role = "user"
    BY <1>t, <1>1, <1>3, EntryFacts DEF UpToNow
  <2> QED BY ONLY <1>0, <2>1 DEF UpToNow
<1>5. UpToNow(rows)'
  <2>1. \A i \in DOMAIN rows : IsMessage(rows[i]) =>
          /\ rows[i].turn <= turns'
          /\ phase' \in {"chat", "got"} /\ rows[i].turn = turns' => rows[i].role = "user"
    BY <1>t, <1>1, <1>3 DEF UpToNow
  <2> QED BY ONLY <1>0, <2>1 DEF UpToNow
<1>6. TurnUnderWay' BY <1>t, <1>m, <1>0 DEF TurnUnderWay
<1>7. ConversationOrdered' /\ ClearedStaysCleared'
  BY ONLY <1>t, <1>0 DEF ConversationOrdered, Ordered, ClearedStaysCleared, After
<1>8. TranscriptComplete' BY ONLY <1>t, <1>0 DEF TranscriptComplete, Stored
<1>9. NotesAreCurrent' BY ONLY <1>t, <1>0 DEF NotesAreCurrent
<1> QED BY <1>2, <1>4, <1>5, <1>6, <1>7, <1>8, <1>9 DEF IInv

LEMMA GotKeepsIInv == IInv /\ Got => IInv'
<1> SUFFICES ASSUME IInv, Got PROVE IInv' OBVIOUS
<1>1. /\ phase = "repl" /\ phase' = "got" /\ turns' = turns + 1 /\ turns < MaxTurns
      /\ UNCHANGED <<db_open, window, user_name, unlogged, wiped, forgotten, rows,
                     stored_name>>
  BY DEF Got, dbVars
<1>2. TypeOK /\ turns \in 0..MaxTurns /\ wiped \in 0..turns /\ MaxTurns \in Nat
  BY SessionAssumption DEF IInv, TypeOK
<1>3. turns + 1 \in 0..MaxTurns /\ wiped \in 0..(turns + 1) /\ turns <= turns + 1
      /\ turns + 1 > turns
  BY <1>1, <1>2
<1>4. TypeOK' BY <1>1, <1>2, <1>3 DEF TypeOK
<1> QED BY <1>1, <1>3, <1>4, SilenceKeepsIInv

LEMMA RequestFailsKeepsIInv == IInv /\ RequestFails => IInv'
<1> SUFFICES ASSUME IInv, RequestFails PROVE IInv' OBVIOUS
<1>1. /\ phase \in {"chat", "got"} /\ phase' = "repl"
      /\ UNCHANGED <<db_open, window, user_name, unlogged, wiped, forgotten, rows, turns,
                     stored_name>>
  BY DEF RequestFails, dbVars
<1>2. TypeOK' BY <1>1 DEF IInv, TypeOK
<1>3. turns <= turns'
  <2>1. MaxTurns \in Nat /\ turns \in 0..MaxTurns BY SessionAssumption DEF IInv, TypeOK
  <2> QED BY <1>1, <2>1
<1> QED BY <1>1, <1>2, <1>3, SilenceKeepsIInv

LEMMA SetNameKeepsIInv == IInv /\ SetName => IInv'
<1> SUFFICES ASSUME IInv, SetName PROVE IInv' OBVIOUS
<1>1. /\ stored_name' \in Names
      /\ UNCHANGED <<phase, db_open, window, user_name, unlogged, wiped, forgotten, rows,
                     turns>>
  BY DEF SetName, Store
<1>2. TypeOK' BY <1>1 DEF IInv, TypeOK
<1>3. turns <= turns'
  <2>1. MaxTurns \in Nat /\ turns \in 0..MaxTurns BY SessionAssumption DEF IInv, TypeOK
  <2> QED BY <1>1, <2>1
<1> QED BY <1>1, <1>2, <1>3, SilenceKeepsIInv

LEMMA StutterKeepsIInv == IInv /\ UNCHANGED vars => IInv'
<1> SUFFICES ASSUME IInv, UNCHANGED vars PROVE IInv' OBVIOUS
<1>1. UNCHANGED <<phase, db_open, window, user_name, unlogged, wiped, forgotten, rows,
                  turns, stored_name>>
  BY DEF vars, dbVars
<1>2. TypeOK' BY <1>1 DEF IInv, TypeOK
<1>3. turns <= turns'
  <2>1. MaxTurns \in Nat /\ turns \in 0..MaxTurns BY SessionAssumption DEF IInv, TypeOK
  <2> QED BY <1>1, <2>1
<1> QED BY <1>1, <1>2, <1>3, SilenceKeepsIInv

LEMMA ChatKeepsIInv == IInv /\ Chat => IInv'
<1> SUFFICES ASSUME IInv, Chat PROVE IInv' OBVIOUS
<1>1. turns \in 0..MaxTurns /\ wiped \in 0..turns /\ MaxTurns \in Nat
  BY SessionAssumption DEF IInv, TypeOK
<1> PICK t \in Nat : t = turns + 1 BY <1>1
<1> DEFINE m == [role |-> "user", turn |-> t]
<1>2. /\ phase = "repl" /\ phase' = "chat" /\ turns' = t /\ turns < MaxTurns
      /\ window' \in Adding(window, <<m>>) /\ Log(m)
      /\ UNCHANGED <<db_open, user_name, wiped, forgotten, stored_name>>
  <2>1. /\ phase = "repl" /\ phase' = "chat" /\ turns' = t /\ turns < MaxTurns
        /\ UNCHANGED <<db_open, user_name, wiped, forgotten, stored_name>>
    BY DEF Chat
  <2>2. /\ window' \in Adding(window, <<[role |-> "user", turn |-> turns']>>)
        /\ Log([role |-> "user", turn |-> turns'])
    BY DEF Chat
  <2>3. [role |-> "user", turn |-> turns'] = m BY <2>1
  <2> QED BY <2>1, <2>2, <2>3
<1>3. t \in 1..MaxTurns /\ t \in turns..MaxTurns /\ wiped < t /\ t > turns BY <1>1, <1>2
<1>4. m \in Message /\ m.turn = t /\ m.role = "user" BY <1>3 DEF Message
<1> HIDE DEF m
<1>5. \A x \in Message : x.turn <= turns => Precedes(x, m)
  <2>1. \A x \in Message : x.turn \in Nat BY EntryFacts
  <2> QED BY <1>1, <1>3, <1>4, <2>1 DEF Precedes
<1>6. m.turn = turns' /\ turns' \in turns..MaxTurns /\ wiped < turns' /\ turns' > turns
      /\ phase # "off" /\ phase' \in {"repl", "chat", "got"}
  BY <1>2, <1>3, <1>4
<1> QED BY <1>2, <1>4, <1>5, <1>6, SayingKeepsIInv

LEMMA AnsweredKeepsIInv == IInv /\ Answered => IInv'
<1> SUFFICES ASSUME IInv, Answered PROVE IInv' OBVIOUS
<1>1. turns \in 0..MaxTurns /\ wiped \in 0..turns /\ MaxTurns \in Nat
  BY SessionAssumption DEF IInv, TypeOK
<1> DEFINE m == [role |-> "assistant", turn |-> turns]
<1>2. /\ phase \in {"chat", "got"} /\ phase' = "repl" /\ turns' = turns
      /\ window' \in Adding(window, <<m>>) /\ Log(m)
      /\ UNCHANGED <<db_open, user_name, wiped, forgotten, stored_name>>
  BY DEF Answered
<1>3. wiped < turns BY <1>2 DEF IInv, TurnUnderWay
<1>4. turns \in 1..MaxTurns /\ turns \in turns..MaxTurns BY <1>1, <1>3
<1>5. m \in Message /\ m.turn = turns /\ m.role = "assistant" BY <1>4 DEF Message
<1> HIDE DEF m
<1>6. \A x \in Message :
          x.turn <= turns /\ (x.turn = turns => x.role = "user") => Precedes(x, m)
  <2>1. \A x \in Message : x.turn \in Nat BY EntryFacts
  <2> QED BY <1>1, <1>5, <2>1 DEF Precedes
<1>7. m.turn = turns' /\ turns' \in turns..MaxTurns /\ wiped < turns' /\ phase # "off"
      /\ phase' \in {"repl", "chat", "got"} /\ phase' = "repl"
  BY <1>2, <1>3, <1>4, <1>5
<1> QED BY <1>2, <1>5, <1>6, <1>7, SayingKeepsIInv

-----------------------------------------------------------------------------
(* The process is gone: only the table matters. *)
LEMMA StopKeepsIInv == IInv /\ Stop => IInv'
<1> SUFFICES ASSUME IInv, Stop PROVE IInv' OBVIOUS
<1>1. /\ phase' = "off" /\ db_open' = FALSE /\ window' = <<>> /\ user_name' = ""
      /\ turns' = turns /\ unlogged' = unlogged /\ wiped' = wiped /\ forgotten' = forgotten
      /\ rows' = rows /\ stored_name' = stored_name
  BY DEF Stop, dbVars
<1>2. TypeOK'
  <2>1. <<>> \in Seq(Entry) BY ShortSequences
  <2> QED BY <1>1, <2>1 DEF IInv, TypeOK
<1>3. PromptFirst' BY <1>1 DEF PromptFirst
<1>4. \A i \in DOMAIN window' : FALSE BY <1>1, ShortSequences
<1>5. UpToNow(window)' /\ Ordered(window') /\ After(window', forgotten')
      /\ TranscriptComplete' /\ NotesAreCurrent'
  BY ONLY <1>4 DEF UpToNow, Ordered, After, TranscriptComplete, NotesAreCurrent
<1>6. UpToNow(rows) /\ Ordered(rows) /\ After(rows, wiped)
  BY DEF IInv, ConversationOrdered, ClearedStaysCleared
<1>7. UpToNow(rows)' BY ONLY <1>1, <1>6 DEF UpToNow
<1>8. ConversationOrdered' /\ ClearedStaysCleared'
  BY ONLY <1>1, <1>5, <1>6 DEF ConversationOrdered, Ordered, ClearedStaysCleared, After
<1>9. TurnUnderWay' BY <1>1 DEF TurnUnderWay
<1> QED BY <1>2, <1>3, <1>5, <1>7, <1>8, <1>9 DEF IInv

(* A restored window: its messages are stored, and were never cleared. *)
LEMMA StartKeepsIInv == IInv /\ Start => IInv'
<1> SUFFICES ASSUME IInv, Start PROVE IInv' OBVIOUS
<1>t. /\ TypeOK /\ rows \in Seq(Message) /\ Ordered(rows) /\ UpToNow(rows)
      /\ After(rows, wiped) /\ turns \in Nat /\ wiped \in 0..turns /\ forgotten \in 0..wiped
  <2>1. MaxTurns \in Nat BY SessionAssumption
  <2>2. /\ TypeOK /\ turns \in 0..MaxTurns /\ rows \in Seq(Message)
        /\ wiped \in 0..turns /\ forgotten \in 0..wiped
    BY DEF IInv, TypeOK
  <2>3. turns \in Nat BY <2>1, <2>2
  <2> QED BY <2>2, <2>3 DEF IInv, ConversationOrdered, ClearedStaysCleared
<1>1. /\ phase' = "repl" /\ db_open' \in BOOLEAN /\ rows' = rows /\ turns' = turns
      /\ unlogged' = unlogged /\ wiped' = wiped /\ forgotten' = forgotten
  BY DEF Start
<1>2. user_name' \in Names \cup {""} /\ stored_name' \in Names \cup {""}
  BY <1>t DEF Start, Identify, Store, TypeOK
<1> PICK x : x = window' OBVIOUS
<1>3. PICK history \in {<<>>, RecentHistory}, git \in {<<>>, <<GitNote>>} :
          x \in Adding(<<SystemPrompt>>, Opening(history, git))
  BY DEF Start
<1> PICK ms : ms = Opening(history, git) OBVIOUS
<1>4. /\ ms \in Seq(Entry) /\ Ordered(ms)
      /\ \A i \in DOMAIN ms :
            /\ IsMessage(ms[i]) => Stored(ms[i])
            /\ IsIdentity(ms[i]) => ms[i].name = user_name'
  BY <1>t, <1>2, OpeningFacts
<1> DEFINE w == <<SystemPrompt>>
<1>5. /\ w \in Seq(Entry) /\ Ordered(w) /\ w # <<>>
      /\ \A i \in DOMAIN w : w[i] = SystemPrompt
  BY EntryFacts, ShortSequences
<1> HIDE DEF w
<1>6. x \in Adding(w, ms) BY <1>3 DEF w
<1>7. x \in Seq(Entry) /\ Len(x) > 0 /\ x[1] = SystemPrompt BY <1>4, <1>5, <1>6, AddingShifts
<1>8. Ordered(x) BY <1>4, <1>5, <1>6, EntryFacts, AddingKeepsOrder
<1>9. \A i \in DOMAIN x : x[i] = SystemPrompt \/ \E j \in DOMAIN ms : x[i] = ms[j]
  BY <1>4, <1>5, <1>6, AddingTakes
<1>10. \A i \in DOMAIN x : IsMessage(x[i]) => \E j \in DOMAIN rows : x[i] = rows[j]
  BY <1>4, <1>9, EntryFacts DEF Stored
<1>11. \A i \in DOMAIN x : IsIdentity(x[i]) => x[i].name = user_name'
  BY <1>4, <1>9, EntryFacts
<1>12. \A j \in DOMAIN rows : rows[j] \in Message BY <1>t, LenProperties, ElementOfSeq
<1>13. \A j \in DOMAIN rows :
         rows[j].turn <= turns /\ rows[j].turn > wiped /\ rows[j].turn \in Nat
  BY <1>t, <1>12, EntryFacts DEF UpToNow, After
<1>14. TypeOK' BY <1>t, <1>1, <1>2, <1>7 DEF TypeOK
<1>15. PromptFirst' BY <1>1, <1>7 DEF PromptFirst
<1>16. UpToNow(window)'
  <2>1. \A i \in DOMAIN x : IsMessage(x[i]) => x[i].turn <= turns BY <1>10, <1>13
  <2>2. x = window' OBVIOUS
  <2> QED BY ONLY <1>1, <2>1, <2>2 DEF UpToNow
<1>17. UpToNow(rows)' BY ONLY <1>t, <1>1 DEF UpToNow
<1>18. TurnUnderWay' BY <1>1 DEF TurnUnderWay
<1>19. ConversationOrdered'
  <2>1. x = window' OBVIOUS
  <2> QED BY ONLY <1>t, <1>1, <1>8, <2>1 DEF ConversationOrdered, Ordered
<1>20. ClearedStaysCleared'
  <2>1. \A i \in DOMAIN x : IsMessage(x[i]) => x[i].turn > forgotten
    BY <1>t, <1>10, <1>13
  <2>2. x = window' OBVIOUS
  <2> QED BY ONLY <1>t, <1>1, <2>1, <2>2 DEF ClearedStaysCleared, After
<1>21. TranscriptComplete'
  <2>1. x = window' OBVIOUS
  <2> QED BY ONLY <1>1, <1>10, <2>1 DEF TranscriptComplete, Stored
<1>22. NotesAreCurrent'
  <2>1. x = window' OBVIOUS
  <2> QED BY ONLY <1>11, <2>1 DEF NotesAreCurrent
<1> QED BY <1>14, <1>15, <1>16, <1>17, <1>18, <1>19, <1>20, <1>21, <1>22 DEF IInv
(* The window is reset; the table may be wiped with it. *)
LEMMA ClearKeepsIInv == IInv /\ Clear => IInv'
<1> SUFFICES ASSUME IInv, Clear PROVE IInv' OBVIOUS
<1>t. /\ TypeOK /\ Ordered(rows) /\ UpToNow(rows) /\ After(rows, wiped)
      /\ turns \in 0..MaxTurns /\ wiped \in 0..turns /\ forgotten \in 0..wiped
  BY DEF IInv, TypeOK, ConversationOrdered, ClearedStaysCleared
<1>m. turns \in Nat /\ wiped \in Nat /\ forgotten \in Nat
      /\ turns \in 0..turns /\ forgotten \in 0..turns
  <2>1. MaxTurns \in Nat BY SessionAssumption
  <2> QED BY <1>t, <2>1
<1>1. /\ phase = "repl" /\ phase' = phase /\ window' = <<SystemPrompt>> /\ turns' = turns
      /\ db_open' = db_open /\ user_name' = user_name /\ unlogged' = unlogged
      /\ stored_name' = stored_name
  BY DEF Clear
<1>2. \/ rows' = <<>> /\ wiped' = turns /\ forgotten' = turns
      \/ rows' = rows /\ wiped' = wiped /\ forgotten' = forgotten
  <2>1. PICK wipe \in IF db_open THEN BOOLEAN ELSE {FALSE} :
          /\ rows' = IF wipe THEN <<>> ELSE rows
          /\ wiped' = IF wipe THEN turns ELSE wiped
          /\ forgotten' = IF ReportsCleared(TRUE, wipe) THEN turns ELSE forgotten
    BY DEF Clear
  <2> QED BY <2>1 DEF ReportsCleared
<1>3. /\ <<SystemPrompt>> \in Seq(Entry) /\ Len(<<SystemPrompt>>) > 0
      /\ <<SystemPrompt>>[1] = SystemPrompt
      /\ \A i \in DOMAIN <<SystemPrompt>> : <<SystemPrompt>>[i] = SystemPrompt
  BY EntryFacts, ShortSequences, SystemPromptOnly
<1>4. TypeOK'
  <2>1. <<>> \in Seq(Message) BY EmptySeq
  <2>2. rows' \in Seq(Message) /\ wiped' \in 0..turns /\ forgotten' \in 0..wiped'
    BY <1>t, <1>m, <1>2, <2>1 DEF TypeOK
  <2> QED BY <1>t, <1>1, <1>3, <2>2 DEF TypeOK
<1>5. PromptFirst' BY <1>1, <1>3 DEF PromptFirst
<1>6. \A i \in DOMAIN window' : ~ IsMessage(window'[i]) /\ ~ IsIdentity(window'[i])
  BY <1>1, <1>3, EntryFacts
<1>7. UpToNow(window)' /\ Ordered(window') /\ After(window', forgotten')
      /\ TranscriptComplete' /\ NotesAreCurrent'
  BY ONLY <1>6 DEF UpToNow, Ordered, After, TranscriptComplete, NotesAreCurrent
<1>8. UpToNow(rows)' /\ Ordered(rows') /\ After(rows', wiped')
  <2>1. CASE rows' = <<>>
    <3>1. \A i \in DOMAIN rows' : FALSE BY <2>1, ShortSequences
    <3> QED BY ONLY <3>1 DEF UpToNow, Ordered, After
  <2>2. CASE rows' = rows /\ wiped' = wiped
    BY ONLY <1>t, <1>1, <2>2 DEF UpToNow, Ordered, After
  <2> QED BY <1>2, <2>1, <2>2
<1>9. TurnUnderWay' BY <1>1 DEF TurnUnderWay
<1>10. ConversationOrdered' /\ ClearedStaysCleared'
  BY ONLY <1>7, <1>8 DEF ConversationOrdered, Ordered, ClearedStaysCleared, After
<1> QED BY <1>4, <1>5, <1>7, <1>8, <1>9, <1>10 DEF IInv

LEMMA ClearHistoryKeepsIInv == IInv /\ ClearHistory => IInv'
<1> SUFFICES ASSUME IInv, ClearHistory PROVE IInv' OBVIOUS
<1>t. /\ TypeOK /\ Ordered(window) /\ UpToNow(window) /\ After(window, forgotten)
      /\ PromptFirst /\ NotesAreCurrent /\ window \in Seq(Entry)
      /\ turns \in 0..MaxTurns /\ wiped \in 0..turns /\ forgotten \in 0..wiped
  BY DEF IInv, TypeOK, ConversationOrdered, ClearedStaysCleared
<1>m. turns \in Nat /\ forgotten \in 0..turns /\ turns \in 0..turns
  <2>1. MaxTurns \in Nat BY SessionAssumption
  <2> QED BY <1>t, <2>1
<1>1. /\ phase = "repl" /\ phase' = phase /\ window' = window /\ turns' = turns
      /\ db_open' = db_open /\ user_name' = user_name /\ unlogged' = unlogged
      /\ stored_name' = stored_name /\ forgotten' = forgotten
      /\ rows' = <<>> /\ wiped' = turns
  BY DEF ClearHistory
<1>2. TypeOK'
  <2>1. <<>> \in Seq(Message) BY EmptySeq
  <2> QED BY <1>t, <1>m, <1>1, <2>1 DEF TypeOK
<1>3. \A i \in DOMAIN rows' : FALSE BY <1>1, ShortSequences
<1>4. UpToNow(rows)' /\ Ordered(rows') /\ After(rows', wiped')
  BY ONLY <1>3 DEF UpToNow, Ordered, After
<1>5. PromptFirst' /\ UpToNow(window)' /\ Ordered(window') /\ After(window', forgotten')
      /\ NotesAreCurrent'
  BY ONLY <1>t, <1>1 DEF PromptFirst, UpToNow, Ordered, After, NotesAreCurrent
<1>6. TurnUnderWay' BY <1>1 DEF TurnUnderWay
<1>7. ConversationOrdered' /\ ClearedStaysCleared'
  BY ONLY <1>4, <1>5 DEF ConversationOrdered, Ordered, ClearedStaysCleared, After
<1>8. TranscriptComplete'
  <2>1. \A i \in DOMAIN window : window[i] \in Entry BY <1>t, LenProperties, ElementOfSeq
  <2>2. \A i \in DOMAIN window :
           IsMessage(window[i]) => window[i].turn <= turns /\ window[i].turn \in Nat
    BY <1>t, <2>1, EntryFacts DEF UpToNow
  <2>3. \A i \in DOMAIN window : ~ (IsMessage(window[i]) /\ window[i].turn > turns)
    BY <1>m, <2>2
  <2> QED BY ONLY <1>1, <2>3 DEF TranscriptComplete
<1> QED BY <1>2, <1>4, <1>5, <1>6, <1>7, <1>8 DEF IInv

(* A rename is the last thing that the window says about the user's name. *)
LEMMA NameKeepsIInv == IInv /\ Name => IInv'
<1> SUFFICES ASSUME IInv, Name PROVE IInv' OBVIOUS
<1>r. PICK n \in Names : NameRefused(n) \/ NameSaved(n) BY DEF Name
<1>p. phase = "repl" BY DEF Name
<1>a. CASE NameRefused(n) BY <1>a, StutterKeepsIInv DEF NameRefused
<1>b. CASE NameSaved(n)
  <2>t. /\ TypeOK /\ Ordered(window) /\ UpToNow(window) /\ After(window, forgotten)
        /\ Ordered(rows) /\ UpToNow(rows) /\ After(rows, wiped) /\ TranscriptComplete
        /\ Len(window) > 0 /\ window \in Seq(Entry)
    BY <1>p DEF IInv, TypeOK, ConversationOrdered, ClearedStaysCleared, PromptFirst
  <2>e. window # <<>> /\ Len(window) \in Nat /\ DOMAIN window = 1..Len(window) BY <2>t
  <2> PICK x : x = window' OBVIOUS
  <2> DEFINE e == [role |-> "identity", name |-> n]
  <2>1. /\ stored_name' = n /\ user_name' = n /\ x \in Adding(window, IdentityNote(n))
        /\ phase' = phase /\ db_open' = db_open /\ rows' = rows /\ turns' = turns
        /\ unlogged' = unlogged /\ wiped' = wiped /\ forgotten' = forgotten
    BY <1>b DEF NameSaved, Store, RefreshNote
  <2>2. IdentityNote(n) = <<e>> BY SessionAssumption DEF IdentityNote
  <2>3. e \in Entry /\ ~ IsMessage(e) /\ IsIdentity(e) /\ e.name = n
    BY EntryFacts, IdentityNoteFacts
  <2> HIDE DEF e
  <2> PICK ms : ms = <<e>> OBVIOUS
  <2>4. /\ ms \in Seq(Entry) /\ Ordered(ms) /\ Len(ms) = 1 /\ \A i \in DOMAIN ms : ms[i] = e
    BY <2>3, ShortSequences
  <2>5. x \in Adding(window, ms) BY <2>1, <2>2
  <2>6. x \in Seq(Entry) /\ Len(x) > 0 /\ x[1] = SystemPrompt
    BY <2>t, <2>e, <2>4, <2>5, AddingShifts
  <2>7. Ordered(x) BY ZenonT(60), <2>t, <2>e, <2>3, <2>4, <2>5, AddingKeepsOrder
  <2>8. \A i \in DOMAIN x : IsMessage(x[i]) => \E j \in DOMAIN window : x[i] = window[j]
    <3>1. \A i \in DOMAIN x :
            \/ x[i] = SystemPrompt \/ (\E j \in DOMAIN window : x[i] = window[j])
            \/ (\E j \in DOMAIN ms : x[i] = ms[j])
      BY ZenonT(60), <2>t, <2>e, <2>4, <2>5, AddingTakes
    <3> QED BY <2>3, <2>4, <3>1, EntryFacts
  <2>9. ASSUME NEW i \in DOMAIN x, IsIdentity(x[i]),
               \A j \in (i + 1)..Len(x) : ~ IsIdentity(x[j])
        PROVE  x[i].name = n
    <3>1. PICK d \in 0..(Len(window) - 1 + Len(ms)) :
              /\ Len(x) = Len(window) + Len(ms) - d
              /\ \A k \in 2..Len(x) :
                   x[k] = IF k + d <= Len(window) THEN window[k + d]
                          ELSE ms[k + d - Len(window)]
      BY <2>t, <2>e, <2>4, <2>5, AddingShifts
    <3>2. d \in Nat /\ Len(x) \in Nat /\ Len(x) = Len(window) + 1 - d
          /\ DOMAIN x = 1..Len(x) /\ DOMAIN ms = 1..1
      BY <2>t, <2>e, <2>4, <2>6, <3>1
    <3>3. i # 1
      <4>1. IsIdentity(x[i]) /\ x[1] = SystemPrompt BY <2>6, <2>9
      <4> QED BY ONLY <4>1, EntryFacts
    <3>4. i \in 2..Len(x) /\ Len(x) \in 2..Len(x) BY <3>2, <3>3
    <3>5. x[Len(x)] = e
      <4>1. /\ ~ (Len(x) + d <= Len(window)) /\ Len(x) + d - Len(window) = 1
            /\ 1 \in DOMAIN ms
        BY <2>e, <3>2
      <4> QED BY <2>4, <3>1, <3>4, <4>1
    <3>6. i = Len(x)
      <4>1. ASSUME i # Len(x) PROVE FALSE
        <5>1. Len(x) \in (i + 1)..Len(x) BY <3>2, <3>4, <4>1
        <5> QED BY <2>3, <2>9, <3>5, <5>1
      <4> QED BY <4>1
    <3> QED BY <2>3, <3>5, <3>6
  <2>10. TypeOK' BY <2>t, <2>1, <2>6 DEF TypeOK
  <2>11. PromptFirst' BY <1>p, <2>1, <2>6 DEF PromptFirst
  <2>x. x = window' OBVIOUS
  <2>12. UpToNow(window)'
    <3>1. \A i \in DOMAIN x : IsMessage(x[i]) => x[i].turn <= turns
      BY <2>t, <2>8 DEF UpToNow
    <3> QED BY ONLY <1>p, <2>1, <2>x, <3>1 DEF UpToNow
  <2>13. UpToNow(rows)' BY ONLY <2>t, <2>1 DEF UpToNow
  <2>14. TurnUnderWay' BY <1>p, <2>1 DEF TurnUnderWay
  <2>15. ConversationOrdered'
    BY ONLY <2>t, <2>1, <2>7, <2>x DEF ConversationOrdered, Ordered
  <2>16. ClearedStaysCleared'
    <3>1. After(x, forgotten) BY <2>t, <2>8 DEF After
    <3> QED BY ONLY <2>t, <2>1, <2>x, <3>1 DEF ClearedStaysCleared, After
  <2>17. TranscriptComplete'
    <3>1. \A i \in DOMAIN x : IsMessage(x[i]) /\ x[i].turn > wiped =>
              x[i] \in unlogged \/ Stored(x[i])
      BY <2>t, <2>8 DEF TranscriptComplete
    <3> QED BY ONLY <2>1, <2>x, <3>1 DEF TranscriptComplete, Stored
  <2>18. NotesAreCurrent' BY ONLY <2>1, <2>9, <2>x DEF NotesAreCurrent
  <2> QED BY <2>10, <2>11, <2>12, <2>13, <2>14, <2>15, <2>16, <2>17, <2>18 DEF IInv
<1> QED BY <1>r, <1>a, <1>b

LEMMA NextKeepsIInv == IInv /\ [Next]_vars => IInv'
BY StartKeepsIInv, StopKeepsIInv, ChatKeepsIInv, GotKeepsIInv, AnsweredKeepsIInv,
   RequestFailsKeepsIInv, ClearKeepsIInv, ClearHistoryKeepsIInv, NameKeepsIInv,
   SetNameKeepsIInv, StutterKeepsIInv
DEF Next

-----------------------------------------------------------------------------
(* The inductive invariant holds in every state, over all sessions. *)
THEOREM Invariance == Spec => []IInv
BY InitIInv, NextKeepsIInv, PTL DEF Spec

(* Every variable keeps its type. *)
THEOREM TypeCorrect == Spec => []TypeOK
<1>1. IInv => TypeOK BY DEF IInv
<1> QED BY <1>1, Invariance, PTL

(* Window and table hold the conversation in its order, without repetition, *)
(* whatever failed, was evicted or was restored.                           *)
THEOREM OrderKept == Spec => []ConversationOrdered
<1>1. IInv => ConversationOrdered BY DEF IInv
<1> QED BY <1>1, Invariance, PTL

(* What was reported cleared is not shown or stored again. *)
THEOREM ClearingLasts == Spec => []ClearedStaysCleared
<1>1. IInv => ClearedStaysCleared BY DEF IInv
<1> QED BY <1>1, Invariance, PTL

(* What the model is shown is in the table, or known not to be. *)
THEOREM NothingShownUnstored == Spec => []TranscriptComplete
<1>1. IInv => TranscriptComplete BY DEF IInv
<1> QED BY <1>1, Invariance, PTL

(* The last identity note the model can see has the current name. *)
THEOREM ModelKnowsTheName == Spec => []NotesAreCurrent
<1>1. IInv => NotesAreCurrent BY DEF IInv
<1> QED BY <1>1, Invariance, PTL

-----------------------------------------------------------------------------
(* The end of a concatenation, taken in two steps. *)
LEMMA EndOfConcat ==
    ASSUME NEW S, NEW s \in Seq(S), NEW t \in Seq(S),
           NEW k \in 1..(Len(s) + 1), NEW j \in 1..(Len(s) - k + 1 + Len(t) + 1)
    PROVE  LET r == SubSeq(s, k, Len(s)) \o t
           IN  /\ Len(r) = Len(s) - k + 1 + Len(t)
               /\ SubSeq(r, j, Len(r)) = SubSeq(s \o t, j + k - 1, Len(s \o t))
<1> DEFINE e == SubSeq(s, k, Len(s))
           r == e \o t
           c == s \o t
<1>1. Len(s) \in Nat /\ Len(t) \in Nat /\ k \in Nat /\ j \in Nat /\ 1 <= k /\ 1 <= j
  OBVIOUS
<1>2. /\ e \in Seq(S) /\ Len(e) = Len(s) - k + 1
      /\ \A i \in 1..(Len(s) - k + 1) : e[i] = s[k + i - 1]
  <2>1. e \in Seq(S) /\ Len(e) = Len(s) - k + 1 BY <1>1
  <2>2. ASSUME NEW i \in 1..(Len(s) - k + 1) PROVE e[i] = s[k + i - 1]
    BY <1>1
  <2> QED BY <2>1, <2>2
<1> HIDE DEF e
<1>3. /\ r \in Seq(S) /\ Len(r) = Len(e) + Len(t)
      /\ \A i \in 1..(Len(e) + Len(t)) : r[i] = IF i <= Len(e) THEN e[i] ELSE t[i - Len(e)]
  BY <1>2, ConcatProperties
<1>4. /\ c \in Seq(S) /\ Len(c) = Len(s) + Len(t)
      /\ \A i \in 1..(Len(s) + Len(t)) : c[i] = IF i <= Len(s) THEN s[i] ELSE t[i - Len(s)]
  BY ConcatProperties
<1> HIDE DEF r, c
<1> DEFINE m == Len(e) + Len(t)
           n == Len(s) + Len(t)
           u == SubSeq(r, j, m)
           v == SubSeq(c, j + k - 1, n)
<1>5. \A i \in 1..m : r[i] = c[i + k - 1]
  <2>1. TAKE i \in 1..m
  <2>2. i + k - 1 \in 1..n /\ i \in Nat BY <1>1, <1>2
  <2>3. CASE i <= Len(e)
    <3>1. i \in 1..(Len(s) - k + 1) /\ i + k - 1 <= Len(s) /\ k + i - 1 = i + k - 1
      BY <2>2, <2>3, <1>1, <1>2
    <3>2. r[i] = e[i] /\ e[i] = s[k + i - 1] BY <2>3, <3>1, <1>2, <1>3
    <3> QED BY <2>2, <3>1, <3>2, <1>4
  <2>4. CASE ~ (i <= Len(e))
    <3>1. ~ (i + k - 1 <= Len(s)) /\ i - Len(e) = (i + k - 1) - Len(s)
      BY <2>2, <2>4, <1>1, <1>2
    <3> QED BY <2>2, <2>4, <3>1, <1>3, <1>4
  <2> QED BY <2>3, <2>4
<1>6. m \in Nat /\ n \in Nat /\ n = m + k - 1 /\ j \in 1..(m + 1) BY <1>1, <1>2
<1>7. /\ u \in Seq(S) /\ Len(u) = m - j + 1
      /\ \A i \in 1..(m - j + 1) : u[i] = r[j + i - 1]
  <2>1. u \in Seq(S) /\ Len(u) = m - j + 1
    <3>1. \A i \in j..m : i \in 1..Len(r) BY <1>1, <1>3, <1>6
    <3>2. (IF j <= m THEN m - j + 1 ELSE 0) = m - j + 1 BY <1>1, <1>6
    <3> QED BY <3>1, <3>2, <1>3, <1>6, SubSeqProperties
  <2>2. ASSUME NEW i \in 1..(m - j + 1) PROVE u[i] = r[j + i - 1] BY <1>1, <1>3, <1>6
  <2> QED BY <2>1, <2>2
<1>8. /\ v \in Seq(S) /\ Len(v) = m - j + 1
      /\ \A i \in 1..(m - j + 1) : v[i] = c[(j + k - 1) + i - 1]
  <2>0. j + k - 1 \in 1..(n + 1) /\ n - (j + k - 1) + 1 = m - j + 1 BY SMTT(40), <1>1, <1>6
  <2>1. v \in Seq(S) /\ Len(v) = m - j + 1
    <3>1. \A i \in (j + k - 1)..n : i \in 1..Len(c) BY <1>1, <1>4, <1>6
    <3>2. (IF j + k - 1 <= n THEN n - (j + k - 1) + 1 ELSE 0) = m - j + 1 BY SMTT(40), <1>1, <1>6
    <3>3. j + k - 1 \in Nat /\ n \in Nat BY <1>1, <1>6
    <3> QED BY <3>1, <3>2, <3>3, <1>4, SubSeqProperties
  <2>2. ASSUME NEW i \in 1..(m - j + 1) PROVE v[i] = c[(j + k - 1) + i - 1]
    BY <1>1, <1>4, <1>6, <2>0
  <2> QED BY <2>1, <2>2
<1>9. ASSUME NEW i \in 1..(m - j + 1) PROVE u[i] = v[i]
  <2>1. j + i - 1 \in 1..m /\ (j + i - 1) + k - 1 = (j + k - 1) + i - 1 BY <1>1, <1>6
  <2>2. r[j + i - 1] = c[(j + i - 1) + k - 1] BY <2>1, <1>5
  <2> HIDE DEF u, v
  <2> QED BY <2>1, <2>2, <1>7, <1>8
<1>10. u = v
  <2> HIDE DEF u, v
  <2> QED BY <1>7, <1>8, <1>9, SeqEqual
<1> QED BY <1>2, <1>3, <1>4, <1>10 DEF e, r, c

(* The window is the same set of windows whether messages are added one by   *)
(* one, each making room for itself, or all at once: a restore may add the   *)
(* whole history in one step (main restores message by message).             *)
THEOREM AddingOneByOne ==
    ASSUME NEW w \in Seq(Entry), w # <<>>, NEW a \in Seq(Entry), NEW b \in Seq(Entry)
    PROVE  Adding(w, a \o b) = UNION {Adding(x, b) : x \in Adding(w, a)}
<1> DEFINE A == Tail(w) \o a
           c == A \o b
           One(k) == <<SystemPrompt>> \o SubSeq(A, k, Len(A))
<1>1. Tail(w) \in Seq(Entry) BY HeadTailProperties
<1>2. A \in Seq(Entry) /\ Len(A) \in Nat /\ Len(b) \in Nat BY <1>1, ConcatProperties
<1>3. c \in Seq(Entry) /\ Len(c) = Len(A) + Len(b)
  <2> HIDE DEF A
  <2> QED BY <1>2, ConcatProperties
<1>4. Tail(w) \o (a \o b) = c BY <1>1, ConcatAssociative
<1>5. ASSUME NEW k \in 1..(Len(A) + 1)
      PROVE  /\ SubSeq(A, k, Len(A)) \in Seq(Entry) /\ Tail(One(k)) = SubSeq(A, k, Len(A))
  <2> HIDE DEF A
  <2> DEFINE r == SubSeq(A, k, Len(A))
  <2>1. r \in Seq(Entry) BY <1>2
  <2> HIDE DEF r
  <2>2. /\ <<SystemPrompt>> \o r \in Seq(Entry) /\ Len(<<SystemPrompt>> \o r) = 1 + Len(r)
        /\ \A i \in 1..(1 + Len(r)) :
              (<<SystemPrompt>> \o r)[i] = IF i <= 1 THEN <<SystemPrompt>>[i] ELSE r[i - 1]
    BY <2>1, SystemPromptOnly, ConcatProperties
  <2> DEFINE x == <<SystemPrompt>> \o r
  <2> HIDE DEF x
  <2>3. x \in Seq(Entry) /\ Len(x) = 1 + Len(r) /\ Len(r) \in Nat BY <2>1, <2>2 DEF x
  <2>4. /\ Tail(x) \in Seq(Entry) /\ Len(Tail(x)) = Len(r)
        /\ \A i \in 1..Len(r) : Tail(x)[i] = x[i + 1]
    BY <2>3, EmptySeq, HeadTailProperties
  <2>5. ASSUME NEW i \in 1..Len(r) PROVE Tail(x)[i] = r[i]
    <3>1. i + 1 \in 1..(1 + Len(r)) /\ ~ (i + 1 <= 1) /\ (i + 1) - 1 = i BY <2>3
    <3> QED BY <3>1, <2>2, <2>4 DEF x
  <2>6. Tail(x) = r BY <2>1, <2>4, <2>5, SeqEqual
  <2> QED BY <2>1, <2>6 DEF x, r
<1>6. ASSUME NEW k \in 1..(Len(A) + 1), NEW j \in 1..(Len(A) - k + 1 + Len(b) + 1)
      PROVE  LET r == Tail(One(k)) \o b
             IN  Len(r) = Len(A) - k + 1 + Len(b)
                 /\ SubSeq(r, j, Len(r)) = SubSeq(c, j + k - 1, Len(c))
  <2> HIDE DEF A, One
  <2> QED BY <1>2, <1>5, EndOfConcat
<1>7. Adding(w, a) = {One(k) : k \in 1..(Len(A) + 1)} BY DEF Adding, Sliding!Adding
<1>8. ASSUME NEW k \in 1..(Len(A) + 1)
      PROVE  Adding(One(k), b) = {<<SystemPrompt>> \o SubSeq(c, j + k - 1, Len(c)) :
                                     j \in 1..(Len(A) - k + 1 + Len(b) + 1)}
  <2> HIDE DEF A, One, c
  <2> DEFINE r == Tail(One(k)) \o b
             m == Len(A) - k + 1 + Len(b)
  <2>0. k \in Nat /\ k <= Len(A) + 1 BY <1>2
  <2>1. 1 \in 1..(m + 1) BY <1>2, <2>0
  <2>2. Len(r) = m BY <1>6, <2>1
  <2>3. Adding(One(k), b) = {<<SystemPrompt>> \o SubSeq(r, j, Len(r)) : j \in 1..(Len(r) + 1)}
    BY DEF Adding, Sliding!Adding
  <2>4. \A j \in 1..(m + 1) : SubSeq(r, j, Len(r)) = SubSeq(c, j + k - 1, Len(c)) BY <1>6
  <2> HIDE DEF r
  <2> QED BY <2>2, <2>3, <2>4
<1>9. Adding(w, a \o b) = {<<SystemPrompt>> \o SubSeq(c, d, Len(c)) : d \in 1..(Len(c) + 1)}
  BY <1>4 DEF Adding, Sliding!Adding
<1> HIDE DEF A, One, c
<1>10. ASSUME NEW y \in Adding(w, a \o b) PROVE \E x \in Adding(w, a) : y \in Adding(x, b)
  <2>1. PICK d \in 1..(Len(c) + 1) : y = <<SystemPrompt>> \o SubSeq(c, d, Len(c)) BY <1>9
  <2>2. 1 \in 1..(Len(A) + 1) /\ d \in 1..(Len(A) - 1 + 1 + Len(b) + 1) /\ d + 1 - 1 = d
    BY <1>2, <1>3
  <2>3. y \in Adding(One(1), b) BY <2>1, <2>2, <1>8
  <2> QED BY <2>2, <2>3, <1>7
<1>11. ASSUME NEW x \in Adding(w, a), NEW y \in Adding(x, b) PROVE y \in Adding(w, a \o b)
  <2>1. PICK k \in 1..(Len(A) + 1) : x = One(k) BY <1>7
  <2>2. PICK j \in 1..(Len(A) - k + 1 + Len(b) + 1) :
           y = <<SystemPrompt>> \o SubSeq(c, j + k - 1, Len(c))
    BY <2>1, <1>8
  <2>3. j + k - 1 \in 1..(Len(c) + 1) BY <1>2, <1>3
  <2> QED BY <2>2, <2>3, <1>9
<1> QED BY <1>10, <1>11
=============================================================================
