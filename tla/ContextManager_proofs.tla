------------------------ MODULE ContextManager_proofs ------------------------
(***************************************************************************)
(* Theorems about ContextManager, for every budget, scan width, set of     *)
(* token counts and scores, and number of messages.                        *)
(***************************************************************************)
EXTENDS ContextManager, Operators_proofs

LEMMA ThresholdsOrdered == Target \in Nat /\ Trigger \in Nat /\ Target <= Trigger
BY ContextAssumption DEF Target, Trigger

(* A message's token count is a natural number. *)
LEMMA MessageTokens == \A m \in Message : m.tokens \in Nat
BY DEF Message

LEMMA SystemMessageType == SystemMessage \in Message
BY ContextAssumption DEF SystemMessage, Message

(* The count of a window of one message, and of two. *)
LEMMA SmallWindows ==
    /\ \A m \in Message : TokensOf(<<m>>) = m.tokens
    /\ \A m, n \in Message : TokensOf(<<m, n>>) = m.tokens + n.tokens
<1>1. <<>> \in Seq(Message) OBVIOUS
<1>2. \A m \in Message : TokensOf(<<m>>) = m.tokens
  <2>1. TAKE m \in Message
  <2>2. <<m>> = Append(<<>>, m) OBVIOUS
  <2>3. TokensOf(Append(<<>>, m)) = TokensOf(<<>>) + m.tokens
    BY <1>1, MessageTokens, TokensOfAppend
  <2> QED BY <2>2, <2>3, TokensOfEmpty, MessageTokens
<1>3. \A m, n \in Message : TokensOf(<<m, n>>) = m.tokens + n.tokens
  <2>1. TAKE m, n \in Message
  <2>2. <<m, n>> = Append(<<m>>, n) /\ <<m>> \in Seq(Message) OBVIOUS
  <2>3. TokensOf(Append(<<m>>, n)) = TokensOf(<<m>>) + n.tokens
    BY <2>2, MessageTokens, TokensOfAppend
  <2> QED BY <2>2, <2>3, <1>2
<1> QED BY <1>2, <1>3

LEMMA InitIInv == Init => IInv
<1> SUFFICES ASSUME Init PROVE IInv OBVIOUS
<1>1. TypeOK
  <2>1. <<SystemMessage>> \in Seq(Message) BY SystemMessageType
  <2>2. <<>> \in Seq(Message) /\ <<>> \in Seq(Chunk) OBVIOUS
  <2> QED BY <2>1, <2>2, ContextAssumption DEF Init, TypeOK
<1>2. TokenAccounting
  BY SystemMessageType, SmallWindows DEF Init, TokenAccounting, SystemMessage
<1>3. BudgetRestored BY DEF Init, BudgetRestored
<1>4. WindowInTurnOrder BY DEF Init, WindowInTurnOrder
<1>5. IdsBounded BY DEF Init, IdsBounded, SystemMessage
<1>6. ThreadsConsistent BY DEF Init, ThreadsConsistent
<1>7. ChunksNumbered BY DEF Init, ChunksNumbered
<1>8. FlushDrains /\ ShutdownDrains BY DEF Init, FlushDrains, ShutdownDrains
<1> QED BY <1>1, <1>2, <1>3, <1>4, <1>5, <1>6, <1>7, <1>8 DEF IInv

(* The steps that leave the window alone. *)
LEMMA WindowUntouched ==
    ASSUME IInv, UNCHANGED <<window, active_tokens, added>>,
           phase' # "evicting" => phase # "evicting" \/ ~ OverTarget
    PROVE  TokenAccounting' /\ BudgetRestored' /\ WindowInTurnOrder' /\ IdsBounded'
<1> USE DEF IInv
<1>1. TokenAccounting' /\ WindowInTurnOrder' /\ IdsBounded'
  BY DEF TokenAccounting, WindowInTurnOrder, IdsBounded
<1>2. BudgetRestored'
  <2>1. active_tokens \in Nat /\ Len(window) \in Nat /\ Len(window) # 0
    BY DEF TypeOK, WindowInTurnOrder
  <2>2. active_tokens' = active_tokens /\ Len(window') = Len(window) OBVIOUS
  <2>3. CASE phase # "evicting" BY <2>2, <2>3 DEF BudgetRestored
  <2>4. CASE ~ OverTarget
    <3>1. active_tokens <= Target \/ Len(window) = 1
      BY <2>1, <2>4, ThresholdsOrdered DEF OverTarget
    <3> QED BY <2>1, <2>2, <3>1, ThresholdsOrdered DEF BudgetRestored, Trigger
  <2> QED BY <2>3, <2>4 DEF BudgetRestored
<1> QED BY <1>1, <1>2

LEMMA AddMessageKeepsIInv == IInv /\ AddMessage => IInv'
<1> SUFFICES ASSUME IInv, AddMessage PROVE IInv' OBVIOUS
<1> USE ContextAssumption DEF IInv
<1>1. PICK t \in TokenCounts, imp \in Importances :
         /\ window' = Append(window, [id |-> added', tokens |-> t, importance |-> imp])
         /\ active_tokens' = active_tokens + t
  BY DEF AddMessage
<1> DEFINE m == [id |-> added', tokens |-> t, importance |-> imp]
<1>2. /\ m \in Message /\ m.tokens = t /\ m.id = added + 1
      /\ window \in Seq(Message) /\ active_tokens \in Nat /\ added \in Nat
  BY DEF AddMessage, TypeOK, Message
<1> HIDE DEF m
<1>3. /\ window' \in Seq(Message) /\ Len(window') = Len(window) + 1
      /\ window'[Len(window) + 1] = m
      /\ \A i \in 1..Len(window) : window'[i] = window[i]
  BY <1>1, <1>2 DEF m
<1>4. TypeOK' BY <1>1, <1>2, <1>3 DEF AddMessage, TypeOK, writerVars, dbVars
<1>5. TokenAccounting'
  BY <1>1, <1>2, MessageTokens, TokensOfAppend DEF TokenAccounting, m
<1>6. BudgetRestored'
  BY <1>3, <1>2, ThresholdsOrdered DEF AddMessage, BudgetRestored, OverTrigger, TypeOK
<1>7. \A i \in 1..Len(window) : window[i].id \in Nat /\ window[i].id <= added
  <2>1. \A i \in 1..Len(window) : window[i] \in Message BY <1>2
  <2> QED BY SMTT(40), <2>1, <1>2 DEF IdsBounded, Message
<1>8. IdsBounded'
  <2>1. added' = added + 1 BY DEF AddMessage
  <2>2. \A i \in 1..(Len(window) + 1) : window'[i].id <= added + 1
    <3>1. TAKE i \in 1..(Len(window) + 1)
    <3>2. CASE i = Len(window) + 1 BY <3>2, <1>2, <1>3
    <3>3. CASE i # Len(window) + 1
      <4>1. i \in 1..Len(window) BY <3>3
      <4> QED BY <4>1, <1>2, <1>3, <1>7
    <3> QED BY <3>2, <3>3
  <2> QED BY <2>1, <2>2, <1>3 DEF IdsBounded
<1>9. WindowInTurnOrder'
  <2>1. window' # <<>> /\ window'[1] = SystemMessage
    BY <1>2, <1>3 DEF WindowInTurnOrder
  <2>2. \A i, j \in 1..(Len(window) + 1) : i < j => window'[i].id < window'[j].id
    <3>1. TAKE i, j \in 1..(Len(window) + 1)
    <3>2. HAVE i < j
    <3>3. i \in 1..Len(window) BY <3>2
    <3>4. CASE j = Len(window) + 1 BY <3>3, <3>4, <1>2, <1>3, <1>7
    <3>5. CASE j # Len(window) + 1
      <4>1. j \in 1..Len(window) BY <3>5
      <4> QED BY <4>1, <3>2, <3>3, <1>2, <1>3 DEF WindowInTurnOrder
    <3> QED BY <3>4, <3>5
  <2> QED BY <2>1, <2>2, <1>3 DEF WindowInTurnOrder
<1>10. /\ ThreadsConsistent' /\ ChunksNumbered' /\ FlushDrains' /\ ShutdownDrains'
  BY DEF AddMessage, ThreadsConsistent, ChunksNumbered, FlushDrains,
         ShutdownDrains, writerVars
<1> QED BY <1>4, <1>5, <1>6, <1>8, <1>9, <1>10

LEMMA EvictOneKeepsIInv == IInv /\ EvictOne => IInv'
<1> SUFFICES ASSUME IInv, EvictOne PROVE IInv' OBVIOUS
<1> USE DEF IInv
<1>1. window \in Seq(Message) /\ active_tokens \in Nat /\ Len(window) > 1
  BY DEF EvictOne, OverTarget, TypeOK
<1>2. PICK p \in Scanned(window) :
         /\ active_tokens' = active_tokens - window[p].tokens
         /\ evicted' = Append(evicted, window[p])
         /\ window' = RemoveAt(window, p)
  BY DEF EvictOne, Freed
<1>3. p \in 2..Len(window) /\ p \in 1..Len(window) BY <1>1 DEF Scanned
<1>4. /\ window' \in Seq(Message) /\ Len(window') = Len(window) - 1
      /\ \A i \in 1..(Len(window) - 1) :
            window'[i] = IF i < p THEN window[i] ELSE window[i + 1]
  BY <1>1, <1>2, <1>3, RemoveAtFacts
<1>5. window[p] \in Message /\ window[p].tokens \in Nat BY <1>1, <1>3, MessageTokens
<1>6. TokensOf(window) = TokensOf(window') + window[p].tokens
  BY <1>1, <1>2, <1>3, MessageTokens, TokensOfRemoveAt
<1>7. TokensOf(window') \in Nat BY <1>4, MessageTokens, TokensOfNat
<1>8. TokenAccounting' /\ active_tokens' \in Nat
  BY <1>2, <1>5, <1>6, <1>7 DEF TokenAccounting
<1>9. TypeOK'
  BY <1>2, <1>4, <1>5, <1>8 DEF EvictOne, TypeOK, writerVars, dbVars
<1>10. BudgetRestored' BY DEF EvictOne, BudgetRestored
<1>11. IdsBounded'
  <2>1. added' = added /\ DOMAIN window' = 1..(Len(window) - 1) BY <1>4 DEF EvictOne
  <2>2. \A i \in 1..(Len(window) - 1) : window'[i].id <= added
    <3>1. TAKE i \in 1..(Len(window) - 1)
    <3>2. i \in 1..Len(window) /\ i + 1 \in 1..Len(window) BY <1>1
    <3>3. window[i].id <= added /\ window[i + 1].id <= added BY <1>1, <3>2 DEF IdsBounded
    <3>4. window'[i] = window[i] \/ window'[i] = window[i + 1] BY <1>4
    <3> QED BY <3>3, <3>4
  <2> QED BY <2>1, <2>2 DEF IdsBounded
<1>12. WindowInTurnOrder'
  <2>1. window' # <<>> /\ window'[1] = SystemMessage
    BY <1>1, <1>3, <1>4 DEF WindowInTurnOrder
  <2>2. \A i, j \in 1..(Len(window) - 1) : i < j => window'[i].id < window'[j].id
    <3>1. TAKE i, j \in 1..(Len(window) - 1)
    <3>2. HAVE i < j
    <3>3. i \in 1..Len(window) /\ i + 1 \in 1..Len(window)
          /\ j \in 1..Len(window) /\ j + 1 \in 1..Len(window)
      BY <1>1
    <3>4. \A k, l \in 1..Len(window) : k < l => window[k].id < window[l].id
      BY <1>1 DEF WindowInTurnOrder
    <3>5. /\ window'[i] = IF i < p THEN window[i] ELSE window[i + 1]
          /\ window'[j] = IF j < p THEN window[j] ELSE window[j + 1]
      BY <1>4
    <3>6. i < j + 1 /\ i + 1 < j + 1 /\ (j < p => i < p) BY <3>2, <3>3, <1>3
    <3> QED BY <3>2, <3>3, <3>4, <3>5, <3>6
  <2> QED BY <2>1, <2>2, <1>4 DEF WindowInTurnOrder
<1>13. /\ ThreadsConsistent' /\ ChunksNumbered' /\ FlushDrains' /\ ShutdownDrains'
  BY DEF EvictOne, ThreadsConsistent, ChunksNumbered, FlushDrains,
         ShutdownDrains, writerVars
<1> QED BY <1>8, <1>9, <1>10, <1>11, <1>12, <1>13

LEMMA ClearKeepsIInv == IInv /\ Clear => IInv'
<1> SUFFICES ASSUME IInv, Clear PROVE IInv' OBVIOUS
<1> USE DEF IInv
<1>1. window' = <<SystemMessage>> /\ active_tokens' = SysTokens
  BY DEF Clear, ClearedTokens
<1>2. TypeOK'
  <2>1. window' \in Seq(Message) BY <1>1, SystemMessageType
  <2>2. cleared' \subseteq Nat
    <3>1. Ids(window) \subseteq Nat
      <4>1. \A i \in DOMAIN window : window[i] \in Message BY DEF TypeOK
      <4>2. \A i \in DOMAIN window : window[i].id \in Nat BY <4>1 DEF Message
      <4> QED BY <4>2 DEF Ids
    <3> QED BY <3>1 DEF Clear, TypeOK
  <2> QED BY <1>1, <2>1, <2>2, ContextAssumption
          DEF Clear, TypeOK, writerVars, dbVars
<1>3. TokenAccounting'
  BY <1>1, SystemMessageType, SmallWindows DEF TokenAccounting, SystemMessage
<1>4. BudgetRestored' BY <1>1 DEF BudgetRestored
<1>5. IdsBounded' BY <1>1 DEF Clear, IdsBounded, TypeOK, SystemMessage
<1>6. WindowInTurnOrder' BY <1>1 DEF WindowInTurnOrder
<1>7. /\ ThreadsConsistent' /\ ChunksNumbered' /\ FlushDrains' /\ ShutdownDrains'
  BY DEF Clear, ThreadsConsistent, ChunksNumbered, FlushDrains,
         ShutdownDrains, writerVars
<1> QED BY <1>2, <1>3, <1>4, <1>5, <1>6, <1>7

LEMMA EnqueueChunkKeepsIInv == IInv /\ EnqueueChunk => IInv'
<1> SUFFICES ASSUME IInv, EnqueueChunk PROVE IInv' OBVIOUS
<1> USE DEF IInv
<1>1. TokenAccounting' /\ BudgetRestored' /\ WindowInTurnOrder' /\ IdsBounded'
  BY WindowUntouched DEF EnqueueChunk
<1> DEFINE c == [no |-> chunk_count', turns |-> evicted]
<1>2. /\ c \in Chunk /\ c.no = chunk_count + 1 /\ queue \in Seq(Chunk)
      /\ chunk_count \in Nat
  BY DEF EnqueueChunk, TypeOK, Chunk
<1>3. queue' = Append(queue, c) BY DEF EnqueueChunk
<1> HIDE DEF c
<1>4. /\ queue' \in Seq(Chunk) /\ Len(queue') = Len(queue) + 1
      /\ queue'[Len(queue) + 1] = c
      /\ \A i \in 1..Len(queue) : queue'[i] = queue[i]
  BY <1>2, <1>3
<1>5. TypeOK' BY <1>2, <1>4 DEF EnqueueChunk, TypeOK, dbVars
<1>6. ChunksNumbered'
  <2>1. chunk_count' = chunk_count + 1 /\ current' = current /\ Len(current) \in Nat
    BY DEF EnqueueChunk, TypeOK
  <2>2. \A i \in 1..(Len(queue) + 1) :
           queue'[i].no = (chunk_count + 1) - (Len(queue) + 1) + i
    BY SMTT(40), <1>2, <1>4 DEF ChunksNumbered
  <2> QED BY <1>2, <1>4, <2>1, <2>2 DEF ChunksNumbered
<1>7. ThreadsConsistent' /\ FlushDrains' /\ ShutdownDrains'
  BY DEF EnqueueChunk, ThreadsConsistent, FlushDrains, ShutdownDrains
<1> QED BY <1>1, <1>5, <1>6, <1>7

LEMMA MainStepsKeepIInv ==
    ASSUME IInv, \/ NotifyWriter \/ LogTurn \/ LogTurnDone \/ Flush
                 \/ FlushWakes \/ Stop \/ StopNotify \/ Join
    PROVE  IInv'
<1> USE DEF IInv
<1>1. TokenAccounting' /\ BudgetRestored' /\ WindowInTurnOrder' /\ IdsBounded'
  BY WindowUntouched
  DEF NotifyWriter, LogTurn, LogTurnDone, Flush, FlushWakes, Stop, StopNotify,
      Join, windowVars
<1>2. TypeOK'
  BY ZenonT(60) DEF NotifyWriter, LogTurn, LogTurnDone, Flush, FlushWakes, Stop, StopNotify,
         Join, windowVars, writerVars, dbVars, TypeOK, WakeWriter
<1>3. ThreadsConsistent'
  BY DEF NotifyWriter, LogTurn, LogTurnDone, Flush, FlushWakes, Stop, StopNotify,
         Join, writerVars, WakeWriter, ThreadsConsistent, TypeOK, WriterIdle
<1>4. ChunksNumbered'
  BY DEF NotifyWriter, LogTurn, LogTurnDone, Flush, FlushWakes, Stop, StopNotify,
         Join, writerVars, WakeWriter, ChunksNumbered
<1>5. FlushDrains'
  BY DEF NotifyWriter, LogTurn, LogTurnDone, Flush, FlushWakes, Stop, StopNotify,
         Join, writerVars, WakeWriter, FlushDrains, WriterIdle, ThreadsConsistent,
         TypeOK
<1>6. ShutdownDrains'
  <2>1. CASE Join
    <3>1. UNCHANGED <<queue, current, worker_ready, worker>> BY <2>1 DEF Join, writerVars
    <3>2. worker_ready => worker = "exited" BY <2>1 DEF Join, ThreadsConsistent
    <3>3. worker_ready => queue = <<>> /\ Len(current) = 0
      BY <3>2 DEF ThreadsConsistent
    <3>4. Len(current) = 0 => current = <<>> BY DEF TypeOK
    <3> QED BY <3>1, <3>3, <3>4 DEF ShutdownDrains
  <2>2. CASE ~ Join
    <3>1. phase' # "done"
      BY <2>2 DEF NotifyWriter, LogTurn, LogTurnDone, Flush, FlushWakes, Stop,
                  StopNotify
    <3> QED BY <3>1 DEF ShutdownDrains
  <2> QED BY <2>1, <2>2
<1> QED BY <1>1, <1>2, <1>3, <1>4, <1>5, <1>6

LEMMA WorkerTakesKeepsIInv == IInv /\ WorkerTakes => IInv'
<1> SUFFICES ASSUME IInv, WorkerTakes PROVE IInv' OBVIOUS
<1> USE DEF IInv
<1>1. TokenAccounting' /\ BudgetRestored' /\ WindowInTurnOrder' /\ IdsBounded'
  BY WindowUntouched DEF WorkerTakes, windowVars
<1>2. queue \in Seq(Chunk) /\ queue # <<>> /\ chunk_count \in Nat
  BY DEF WorkerTakes, HasWork, TypeOK
<1>3. /\ queue' \in Seq(Chunk) /\ Len(queue') = Len(queue) - 1
      /\ \A i \in 1..(Len(queue) - 1) : queue'[i] = queue[i + 1]
      /\ current' \in Seq(Chunk) /\ Len(current') = 1 /\ current'[1] = queue[1]
  BY <1>2 DEF WorkerTakes, NextChunk, QueueAfterPop
<1>4. TypeOK' BY <1>3 DEF WorkerTakes, TypeOK, windowVars, dbVars
<1>5. ThreadsConsistent' BY <1>3 DEF WorkerTakes, ThreadsConsistent
<1>6. ChunksNumbered'
  <2>1. chunk_count' = chunk_count /\ Len(current) = 0
    BY DEF WorkerTakes, ThreadsConsistent
  <2>2. 1 \in 1..Len(queue) BY <1>2
  <2>3. current'[1].no = chunk_count - Len(queue')
    BY <1>2, <1>3, <2>2 DEF ChunksNumbered
  <2>4. \A i \in 1..(Len(queue) - 1) : queue'[i].no = chunk_count - Len(queue') + i
    <3>1. TAKE i \in 1..(Len(queue) - 1)
    <3>2. i + 1 \in 1..Len(queue) /\ Len(queue) \in Nat BY <1>2
    <3>3. queue[i + 1].no = chunk_count - Len(queue) + (i + 1)
      <4>1. DOMAIN queue = 1..Len(queue) BY <1>2
      <4> QED BY <3>2, <4>1 DEF ChunksNumbered
    <3> QED BY <1>2, <1>3, <3>2, <3>3
  <2>5. Len(queue') + Len(current') <= chunk_count'
    BY <1>2, <1>3, <2>1 DEF ChunksNumbered
  <2>6. DOMAIN queue' = 1..(Len(queue) - 1) /\ DOMAIN current' = 1..1 BY <1>3
  <2> QED BY <2>1, <2>3, <2>4, <2>5, <2>6 DEF ChunksNumbered
<1>7. FlushDrains' BY <1>2 DEF WorkerTakes, FlushDrains
<1>8. ShutdownDrains' BY <1>2 DEF WorkerTakes, ShutdownDrains, ThreadsConsistent
<1> QED BY <1>1, <1>4, <1>5, <1>6, <1>7, <1>8

LEMMA InsertEndsKeepsIInv == IInv /\ (InsertBusy \/ InsertCommits) => IInv'
<1> SUFFICES ASSUME IInv, InsertBusy \/ InsertCommits PROVE IInv' OBVIOUS
<1> USE DEF IInv
<1>1. TokenAccounting' /\ BudgetRestored' /\ WindowInTurnOrder' /\ IdsBounded'
  BY WindowUntouched DEF InsertBusy, InsertCommits, windowVars
<1>2. Head(current) \in Chunk
  BY DEF InsertBusy, InsertCommits, ThreadsConsistent, TypeOK
<1>3. l3' \in Seq(Chunk) /\ lost' \in Seq(Chunk) /\ current' \in Seq(Chunk)
  <2>1. l3 \in Seq(Chunk) /\ lost \in Seq(Chunk) /\ <<>> \in Seq(Chunk) BY DEF TypeOK
  <2>2. Append(l3, Head(current)) \in Seq(Chunk) /\ Append(lost, Head(current)) \in Seq(Chunk)
    BY <2>1, <1>2
  <2> QED BY <2>1, <2>2 DEF InsertBusy, InsertCommits
<1>4. TypeOK' BY <1>3 DEF InsertBusy, InsertCommits, TypeOK, windowVars
<1>5. ThreadsConsistent' BY DEF InsertBusy, InsertCommits, ThreadsConsistent
<1>6. ChunksNumbered'
  BY DEF InsertBusy, InsertCommits, ChunksNumbered, TypeOK, ThreadsConsistent
<1>7. FlushDrains' /\ ShutdownDrains'
  BY DEF InsertBusy, InsertCommits, FlushDrains, ShutdownDrains
<1> QED BY <1>1, <1>4, <1>5, <1>6, <1>7

LEMMA OtherStepsKeepIInv ==
    ASSUME IInv, \/ WorkerOpens \/ WorkerSleeps \/ WorkerDrained \/ InsertBegins
                 \/ SpuriousWake
    PROVE  IInv'
<1> USE DEF IInv
<1>1. TokenAccounting' /\ BudgetRestored' /\ WindowInTurnOrder' /\ IdsBounded'
  BY WindowUntouched
  DEF WorkerOpens, WorkerSleeps, WorkerDrained, InsertBegins, SpuriousWake,
      WakeFlush, windowVars
<1>2. TypeOK'
  BY ZenonT(60) DEF WorkerOpens, WorkerSleeps, WorkerDrained, InsertBegins, SpuriousWake,
         WakeFlush, windowVars, writerVars, dbVars, TypeOK
<1>3. ThreadsConsistent'
  BY DEF WorkerOpens, WorkerSleeps, WorkerDrained, InsertBegins, SpuriousWake,
         WakeFlush, writerVars, ThreadsConsistent, HasWork, TypeOK
<1>4. ChunksNumbered'
  BY DEF WorkerOpens, WorkerSleeps, WorkerDrained, InsertBegins, SpuriousWake,
         writerVars, ChunksNumbered
<1>5. FlushDrains'
  BY DEF WorkerOpens, WorkerSleeps, WorkerDrained, InsertBegins, SpuriousWake,
         WakeFlush, writerVars, FlushDrains
<1>6. ShutdownDrains'
  BY DEF WorkerOpens, WorkerSleeps, WorkerDrained, InsertBegins, SpuriousWake,
         WakeFlush, writerVars, ShutdownDrains, ThreadsConsistent
<1> QED BY <1>1, <1>2, <1>3, <1>4, <1>5, <1>6

LEMMA NextKeepsIInv == IInv /\ [Next]_vars => IInv'
<1> SUFFICES ASSUME IInv, [Next]_vars PROVE IInv' OBVIOUS
<1>1. CASE AddMessage BY <1>1, AddMessageKeepsIInv
<1>2. CASE Clear BY <1>2, ClearKeepsIInv
<1>3. CASE EvictOne BY <1>3, EvictOneKeepsIInv
<1>4. CASE EnqueueChunk BY <1>4, EnqueueChunkKeepsIInv
<1>5. CASE \/ NotifyWriter \/ LogTurn \/ LogTurnDone \/ Flush
           \/ FlushWakes \/ Stop \/ StopNotify \/ Join
  BY <1>5, MainStepsKeepIInv
<1>6. CASE WorkerTakes BY <1>6, WorkerTakesKeepsIInv
<1>7. CASE InsertBusy \/ InsertCommits BY <1>7, InsertEndsKeepsIInv
<1>8. CASE WorkerOpens \/ WorkerSleeps \/ WorkerDrained \/ InsertBegins \/ SpuriousWake
  BY <1>8, OtherStepsKeepIInv
<1>9. CASE UNCHANGED vars
  <2> USE <1>9 DEF IInv, vars, windowVars, writerVars, dbVars
  <2>1. TokenAccounting' /\ BudgetRestored' /\ WindowInTurnOrder' /\ IdsBounded'
    BY DEF TokenAccounting, BudgetRestored, WindowInTurnOrder, IdsBounded
  <2>2. TypeOK' BY DEF TypeOK
  <2>3. ThreadsConsistent' /\ ChunksNumbered' /\ FlushDrains' /\ ShutdownDrains'
    BY DEF ThreadsConsistent, ChunksNumbered, FlushDrains, ShutdownDrains
  <2> QED BY <2>1, <2>2, <2>3
<1> QED BY <1>1, <1>2, <1>3, <1>4, <1>5, <1>6, <1>7, <1>8, <1>9
        DEF Next, MainWorks, WriterWorks, Over

(* The inductive invariant holds in every reachable state: every conjunct of *)
(* it is a property of context_manager.cpp for all parameters.               *)
THEOREM Invariance == SafeSpec => []IInv
BY InitIInv, NextKeepsIInv, PTL DEF SafeSpec

(* Every variable keeps its type; active_tokens_ never wraps below zero.     *)
THEOREM TypeCorrect == SafeSpec => []TypeOK
<1>1. IInv => TypeOK BY DEF IInv
<1> QED BY <1>1, Invariance, PTL

(* active_tokens_, kept by add_message, evict_if_needed and clear, is the    *)
(* token count of the window.                                                *)
THEOREM TokensAccounted == SafeSpec => []TokenAccounting
<1>1. IInv => TokenAccounting BY DEF IInv
<1> QED BY <1>1, Invariance, PTL

(* After every add_message the window is within the eviction threshold, or   *)
(* nothing but the system prompt is left.                                    *)
THEOREM WindowWithinBudget == SafeSpec => []BudgetRestored
<1>1. IInv => BudgetRestored BY DEF IInv
<1> QED BY <1>1, Invariance, PTL

(* The system prompt is pinned and the turns are sent in the order they were *)
(* added.                                                                    *)
THEOREM TurnsInOrder == SafeSpec => []WindowInTurnOrder
<1>1. IInv => WindowInTurnOrder BY DEF IInv
<1> QED BY <1>1, Invariance, PTL

(* A successful flush() leaves the writer nothing to do.                     *)
THEOREM FlushIsComplete == SafeSpec => []FlushDrains
<1>1. IInv => FlushDrains BY DEF IInv
<1> QED BY <1>1, Invariance, PTL

(* The destructor returns only after a ready writer drained the queue.       *)
THEOREM ShutdownIsComplete == SafeSpec => []ShutdownDrains
<1>1. IInv => ShutdownDrains BY DEF IInv
<1> QED BY <1>1, Invariance, PTL

(* evict_if_needed never picks the newest turn while another is left, so     *)
(* the newest goes only if it and the system prompt exceed the target.       *)
THEOREM NewestTurnKept == SafeSpec => NewestKept
<1>1. IInv /\ [Next]_vars => [KeepsNewest]_vars
  <2> SUFFICES ASSUME IInv, Next, phase = "evicting", window' # window
               PROVE  \/ window'[Len(window')] = window[Len(window)]
                      \/ SysTokens + window[Len(window)].tokens > Target
    BY DEF KeepsNewest
  <2>1. EvictOne
    BY DEF Next, MainWorks, WriterWorks, Over, AddMessage, Clear, LogTurn, Flush,
           EnqueueChunk, NotifyWriter, LogTurnDone, FlushWakes, Stop, StopNotify,
           Join, WorkerOpens, WorkerTakes, WorkerSleeps, WorkerDrained,
           InsertBegins, InsertBusy, InsertCommits, SpuriousWake, windowVars, vars
  <2>2. window \in Seq(Message) /\ Len(window) > 1 /\ active_tokens > Target
    BY <2>1 DEF EvictOne, OverTarget, IInv, TypeOK
  <2>3. PICK p \in Scanned(window) : window' = RemoveAt(window, p)
    BY <2>1 DEF EvictOne
  <2>4. p \in 1..Len(window) BY <2>2, <2>3 DEF Scanned
  <2>5. CASE p < Len(window)
    <3>1. /\ Len(window') = Len(window) - 1
          /\ window'[Len(window) - 1] = window[(Len(window) - 1) + 1]
      BY SMTT(40), <2>2, <2>3, <2>4, <2>5, RemoveAtFacts
    <3>2. (Len(window) - 1) + 1 = Len(window) BY <2>2
    <3> QED BY <3>1, <3>2
  <2>6. CASE p = Len(window)
    <3>1. Len(window) = 2 BY <2>2, <2>3, <2>6 DEF Scanned
    <3>2. window = <<window[1], window[2]>> /\ window[1] \in Message /\ window[2] \in Message
      BY <2>2, <3>1
    <3>3. TokensOf(window) = window[1].tokens + window[2].tokens
      BY <3>2, SmallWindows
    <3>4. window[1].tokens = SysTokens
      BY DEF IInv, WindowInTurnOrder, SystemMessage
    <3> QED BY <2>2, <3>1, <3>3, <3>4 DEF IInv, TokenAccounting
  <2> QED BY <2>4, <2>5, <2>6
<1> QED BY <1>1, Invariance, PTL DEF SafeSpec, NewestKept

(* Every step of the manager is a step of EvictionChannel or leaves it       *)
(* unchanged: chunks reach L3 in eviction order, each at most once.          *)
THEOREM ImplementsChannel == SafeSpec => ChannelSpec
<1>1. Init => Channel!Init
  <2> SUFFICES ASSUME Init PROVE Channel!Init OBVIOUS
  <2>1. l3 = <<>> /\ queue = <<>> /\ current = <<>> /\ chunk_count = 0 BY DEF Init
  <2>2. [i \in DOMAIN l3 |-> l3[i].no] = <<>>
    <3>1. Len(<<>>) = 0 /\ <<>> \in Seq(Nat) OBVIOUS
    <3>2. <<>> = [i \in 1..0 |-> <<>>[i]] BY <3>1
    <3> QED BY <2>1, <3>2
  <2>3. chunk_count - Len(queue) - Len(current) = 0
    <3>1. chunk_count = 0 /\ Len(queue) = 0 /\ Len(current) = 0 BY <2>1
    <3> QED BY ONLY <3>1
  <2> QED BY <2>1, <2>2, <2>3 DEF Channel!Init
<1>2. IInv /\ [Next]_vars => [Channel!Next]_(Channel!chanVars)
  <2> SUFFICES ASSUME IInv, [Next]_vars PROVE [Channel!Next]_(Channel!chanVars)
    OBVIOUS
  <2>1. CASE UNCHANGED <<chunk_count, queue, current, l3>>
    BY <2>1 DEF Channel!chanVars
  <2>2. CASE EnqueueChunk
    <3>1. /\ chunk_count' = chunk_count + 1 /\ current' = current /\ l3' = l3
          /\ Len(queue') = Len(queue) + 1
      BY <2>2 DEF EnqueueChunk, IInv, TypeOK, dbVars
    <3>2. chunk_count \in Nat /\ Len(queue) \in Nat /\ Len(current) \in Nat
      BY DEF IInv, TypeOK
    <3>3. Channel!Offer BY <3>1, <3>2 DEF Channel!Offer
    <3> QED BY <3>3 DEF Channel!Next
  <2>3. CASE WorkerTakes
    <3>1. /\ queue \in Seq(Chunk) /\ queue # <<>> /\ Len(current) = 0
          /\ chunk_count \in Nat
      BY <2>3 DEF WorkerTakes, HasWork, IInv, TypeOK, ThreadsConsistent
    <3>2. /\ Len(queue') = Len(queue) - 1 /\ Len(current') = 1
          /\ chunk_count' = chunk_count /\ l3' = l3
      BY <2>3, <3>1 DEF WorkerTakes, QueueAfterPop, dbVars
    <3> QED BY <3>1, <3>2 DEF Channel!chanVars
  <2>4. CASE InsertBusy \/ InsertCommits
    <3>1. /\ Len(current) = 1 /\ Len(current') = 0 /\ chunk_count' = chunk_count
          /\ queue' = queue /\ Len(queue) \in Nat /\ chunk_count \in Nat
          /\ Len(queue) + 1 <= chunk_count /\ current[1].no = chunk_count - Len(queue)
          /\ l3 \in Seq(Chunk) /\ current \in Seq(Chunk)
      BY <2>4 DEF InsertBusy, InsertCommits, IInv, TypeOK, ThreadsConsistent,
                  ChunksNumbered
    <3>2. CASE InsertBusy
      <4>1. l3' = l3 BY <3>2 DEF InsertBusy
      <4>2. Channel!Drop BY <3>1, <4>1 DEF Channel!Drop
      <4> QED BY <4>2 DEF Channel!Next
    <3>3. CASE InsertCommits
      <4>1. l3' = Append(l3, current[1]) BY <3>3, <3>1 DEF InsertCommits
      <4> DEFINE nos == [i \in DOMAIN l3 |-> l3[i].no]
                 k == chunk_count - Len(queue)
      <4>2. [i \in DOMAIN l3 |-> l3[i].no]' = Append(nos, k)
        <5>1. /\ Len(l3') = Len(l3) + 1 /\ l3'[Len(l3) + 1] = current[1]
              /\ DOMAIN l3' = 1..(Len(l3) + 1) /\ DOMAIN l3 = 1..Len(l3)
              /\ \A i \in 1..Len(l3) : l3'[i] = l3[i]
          BY <3>1, <4>1
        <5>2. nos \in Seq({c.no : c \in Chunk}) /\ Len(nos) = Len(l3)
          BY <3>1
        <5> QED BY <3>1, <5>1, <5>2
      <4>3. /\ chunk_count - Len(queue) - Len(current) < chunk_count
            /\ chunk_count' - Len(queue') - Len(current')
                  = (chunk_count - Len(queue) - Len(current)) + 1
            /\ chunk_count' - Len(queue') - Len(current') = k
        BY <3>1
      <4> HIDE DEF k, nos
      <4>4. Channel!Store BY <3>1, <4>2, <4>3 DEF Channel!Store, nos
      <4> QED BY <4>4 DEF Channel!Next
    <3> QED BY <2>4, <3>2, <3>3
  <2>5. ~ (EnqueueChunk \/ WorkerTakes \/ InsertBusy \/ InsertCommits)
           => UNCHANGED <<chunk_count, queue, current, l3>>
    BY DEF Next, MainWorks, WriterWorks, Over, AddMessage, Clear, LogTurn, Flush,
           EvictOne, NotifyWriter, LogTurnDone, FlushWakes, Stop, StopNotify, Join,
           WorkerOpens, WorkerSleeps, WorkerDrained, InsertBegins, SpuriousWake,
           writerVars, dbVars, vars
  <2> QED BY <2>1, <2>2, <2>3, <2>4, <2>5
<1> QED BY <1>1, <1>2, Invariance, PTL DEF SafeSpec, ChannelSpec, Channel!Spec
-----------------------------------------------------------------------------
(* Where the turns are.                                                    *)

(* q is a place where turn id is. *)
At(q, id) ==
    \/ \E i \in DOMAIN window : q = <<"window", 0, i>> /\ window[i].id = id
    \/ \E i \in DOMAIN evicted : q = <<"evicted", 0, i>> /\ evicted[i].id = id
    \/ \E c \in DOMAIN queue : \E i \in DOMAIN queue[c].turns :
          q = <<"queue", c, i>> /\ queue[c].turns[i].id = id
    \/ \E c \in DOMAIN current : \E i \in DOMAIN current[c].turns :
          q = <<"current", c, i>> /\ current[c].turns[i].id = id
    \/ \E c \in DOMAIN l3 : \E i \in DOMAIN l3[c].turns :
          q = <<"l3", c, i>> /\ l3[c].turns[i].id = id
    \/ \E c \in DOMAIN lost : \E i \in DOMAIN lost[c].turns :
          q = <<"lost", c, i>> /\ lost[c].turns[i].id = id

LEMMA PlacesAreAt == \A id, q : q \in Places(id) <=> At(q, id)
BY DEF Places, TurnsAt, ChunksAt, At

LEMMA PlacesAreAtNext == \A id, q : q \in Places(id)' <=> At(q, id)'
BY DEF Places, TurnsAt, ChunksAt, At

(* A step that moves turns, each from its place to one other place, and that *)
(* adds and clears none keeps every turn in one place.                       *)
LEMMA MovesKeepPlaced ==
    ASSUME TurnsPlaced, UNCHANGED <<added, cleared>>,
           \A id : \E f : Places(id)' = {f[q] : q \in Places(id)}
    PROVE  TurnsPlaced'
<1>1. ASSUME NEW id \in 1..MaxMessages
      PROVE  IF id \in 1..added /\ id \notin cleared
             THEN \E p \in Places(id)' : Places(id)' = {p}
             ELSE Places(id)' = {}
  <2>1. PICK f : Places(id)' = {f[q] : q \in Places(id)} OBVIOUS
  <2>2. CASE id \in 1..added /\ id \notin cleared
    <3>1. PICK p : Places(id) = {p} BY <2>2 DEF TurnsPlaced
    <3>2. Places(id)' = {f[p]} BY ONLY <2>1, <3>1
    <3> QED BY <2>2, <3>2
  <2>3. CASE ~ (id \in 1..added /\ id \notin cleared)
    <3>1. Places(id) = {} BY <2>3 DEF TurnsPlaced
    <3> QED BY <2>1, <2>3, <3>1
  <2> QED BY <2>2, <2>3
<1> QED BY <1>1 DEF TurnsPlaced

LEMMA InitPlaced == Init => TurnsPlaced
<1> SUFFICES ASSUME Init PROVE TurnsPlaced OBVIOUS
<1>1. /\ added = 0 /\ cleared = {} /\ window = <<SystemMessage>> /\ evicted = <<>>
      /\ queue = <<>> /\ current = <<>> /\ l3 = <<>> /\ lost = <<>>
  BY DEF Init
<1>2. \A id \in 1..MaxMessages : Places(id) = {}
  <2>1. \A id \in 1..MaxMessages : \A q : ~ At(q, id)
    BY <1>1, ContextAssumption DEF At, SystemMessage
  <2> QED BY <2>1, PlacesAreAt
<1> QED BY <1>1, <1>2, ContextAssumption DEF TurnsPlaced

LEMMA AddMessageKeepsPlaced == IInv /\ TurnsPlaced /\ AddMessage => TurnsPlaced'
<1> SUFFICES ASSUME IInv, TurnsPlaced, AddMessage PROVE TurnsPlaced' OBVIOUS
<1>1. PICK t \in TokenCounts, imp \in Importances :
         window' = Append(window, [id |-> added', tokens |-> t, importance |-> imp])
  BY DEF AddMessage
<1>2. /\ added \in Nat /\ added' = added + 1 /\ added < MaxMessages
      /\ cleared' = cleared /\ window \in Seq(Message)
      /\ UNCHANGED <<evicted, queue, current, l3, lost>>
  BY DEF AddMessage, IInv, TypeOK, writerVars, dbVars
<1>3. /\ DOMAIN window = 1..Len(window) /\ DOMAIN window' = 1..(Len(window) + 1)
      /\ Len(window) \in Nat
      /\ \A i \in 1..Len(window) : window'[i] = window[i]
      /\ window'[Len(window) + 1].id = added + 1
  <2> DEFINE m == [id |-> added', tokens |-> t, importance |-> imp]
  <2>1. m.id = added + 1 /\ m \in Message
    BY <1>2, ContextAssumption DEF Message
  <2> HIDE DEF m
  <2>2. window' = Append(window, m) BY <1>1 DEF m
  <2> QED BY <1>2, <2>1, <2>2
<1>4. PICK new \in Nat : new = added + 1 BY <1>2
<1>5. \A id \in Nat \ {new} : Places(id)' = Places(id)
  <2>1. \A id \in Nat \ {new} : \A q : At(q, id)' <=> At(q, id)
    BY <1>2, <1>3, <1>4 DEF At
  <2> QED BY <2>1, PlacesAreAt, PlacesAreAtNext
<1>6. new \notin cleared /\ \E p \in Places(new)' : Places(new)' = {p}
  <2>1. Places(new) = {} /\ new \notin cleared
    BY <1>2, <1>4, ContextAssumption DEF TurnsPlaced
  <2>2. \A q : ~ At(q, new) BY <2>1, PlacesAreAt
  <2>3. \A q : At(q, new)' <=> q = <<"window", 0, Len(window) + 1>>
    BY <1>2, <1>3, <1>4, <2>2 DEF At
  <2>4. \A q : q \in Places(new)' <=> q = <<"window", 0, Len(window) + 1>>
    BY <1>2, <2>3, PlacesAreAtNext
  <2>5. Places(new)' = {<<"window", 0, Len(window) + 1>>} BY <2>4
  <2> QED BY <2>1, <2>5
<1>7. ASSUME NEW id \in 1..MaxMessages
      PROVE  IF id \in 1..added' /\ id \notin cleared'
             THEN \E p \in Places(id)' : Places(id)' = {p}
             ELSE Places(id)' = {}
  <2>1. CASE id = new BY <2>1, <1>2, <1>4, <1>6
  <2>2. CASE id # new
    <3>1. Places(id)' = Places(id) BY <2>2, <1>5
    <3>2. id \in 1..added' <=> id \in 1..added BY <2>2, <1>2, <1>4
    <3> QED BY <3>1, <3>2, <1>2 DEF TurnsPlaced
  <2> QED BY <2>1, <2>2
<1>8. added' <= MaxMessages /\ cleared' \subseteq 1..added'
  BY <1>2, ContextAssumption DEF TurnsPlaced
<1> QED BY <1>7, <1>8 DEF TurnsPlaced

LEMMA EvictOneKeepsPlaced == IInv /\ TurnsPlaced /\ EvictOne => TurnsPlaced'
<1> SUFFICES ASSUME IInv, TurnsPlaced, EvictOne PROVE TurnsPlaced' OBVIOUS
<1>1. /\ window \in Seq(Message) /\ Len(window) > 1 /\ evicted \in Seq(Message)
      /\ UNCHANGED <<added, cleared, queue, current, l3, lost>>
  BY DEF EvictOne, OverTarget, IInv, TypeOK, writerVars, dbVars
<1>2. PICK p \in Scanned(window) :
         /\ evicted' = Append(evicted, window[p])
         /\ window' = RemoveAt(window, p)
  BY DEF EvictOne
<1>3. p \in 2..Len(window) /\ p \in 1..Len(window) BY <1>1 DEF Scanned, IInv
<1>4. /\ DOMAIN window' = 1..(Len(window) - 1) /\ DOMAIN window = 1..Len(window)
      /\ \A i \in 1..(Len(window) - 1) :
            window'[i] = IF i < p THEN window[i] ELSE window[i + 1]
  BY <1>1, <1>2, <1>3, RemoveAtFacts
<1>5. /\ DOMAIN evicted = 1..Len(evicted) /\ DOMAIN evicted' = 1..(Len(evicted) + 1)
      /\ \A i \in 1..Len(evicted) : evicted'[i] = evicted[i]
      /\ evicted'[Len(evicted) + 1] = window[p] /\ Len(evicted) \in Nat
  BY <1>1, <1>2, <1>3
<1>6. PICK n \in Nat : n = Len(evicted) + 1 BY <1>5
<1>7. ASSUME NEW id
      PROVE  \E f : Places(id)' = {f[q] : q \in Places(id)}
  <2> DEFINE Move(q) == IF q[1] # "window" \/ q[3] < p THEN q
                        ELSE IF q[3] = p THEN <<"evicted", 0, n>>
                        ELSE <<"window", 0, q[3] - 1>>
  <2>1. ASSUME NEW q, At(q, id) PROVE At(Move(q), id)'
    <3>1. CASE \E i \in DOMAIN window : q = <<"window", 0, i>> /\ window[i].id = id
      <4>1. PICK i \in 1..Len(window) : q = <<"window", 0, i>> /\ window[i].id = id
        BY <3>1, <1>4
      <4>2. q[1] = "window" /\ q[3] = i BY <4>1
      <4>3. CASE i < p
        <5>1. Move(q) = <<"window", 0, i>> BY <4>1, <4>2, <4>3
        <5>2. i \in DOMAIN window' /\ window'[i].id = id BY <1>1, <1>3, <1>4, <4>1, <4>3
        <5> QED BY <5>1, <5>2 DEF At
      <4>4. CASE i = p
        <5>1. Move(q) = <<"evicted", 0, n>> BY <4>2, <4>4, <1>3
        <5>2. n \in DOMAIN evicted' /\ evicted'[n].id = id
          BY <1>5, <1>6, <4>1, <4>4
        <5> QED BY <5>1, <5>2 DEF At
      <4>5. CASE i > p
        <5>1. Move(q) = <<"window", 0, i - 1>> BY <4>2, <4>5, <1>3
        <5>2. i - 1 \in DOMAIN window' /\ window'[i - 1].id = id
          BY <1>1, <1>3, <1>4, <4>1, <4>5
        <5> QED BY <5>1, <5>2 DEF At
      <4> QED BY <4>3, <4>4, <4>5, <1>3
    <3>2. CASE \E i \in DOMAIN evicted : q = <<"evicted", 0, i>> /\ evicted[i].id = id
      <4>1. PICK i \in DOMAIN evicted : q = <<"evicted", 0, i>> /\ evicted[i].id = id
        BY <3>2
      <4>2. Move(q) = <<"evicted", 0, i>> BY <4>1
      <4>3. i \in DOMAIN evicted' /\ evicted'[i].id = id BY <4>1, <1>5
      <4> QED BY <4>2, <4>3 DEF At
    <3>3. CASE /\ ~ \E i \in DOMAIN window : q = <<"window", 0, i>> /\ window[i].id = id
               /\ ~ \E i \in DOMAIN evicted : q = <<"evicted", 0, i>> /\ evicted[i].id = id
      <4>1. q[1] # "window" /\ At(q, id)' BY <2>1, <3>3, <1>1 DEF At
      <4>2. Move(q) = q BY <4>1
      <4> QED BY <4>1, <4>2
    <3> QED BY <3>1, <3>2, <3>3
  <2>2. ASSUME NEW q, At(q, id)' PROVE \E r : At(r, id) /\ q = Move(r)
    <3>1. CASE \E i \in DOMAIN window' : q = <<"window", 0, i>> /\ window'[i].id = id
      <4>1. PICK i \in 1..(Len(window) - 1) : q = <<"window", 0, i>> /\ window'[i].id = id
        BY <3>1, <1>4
      <4>2. CASE i < p
        <5>1. At(q, id) BY <4>1, <4>2, <1>1, <1>4 DEF At
        <5>2. Move(q) = q BY <4>1, <4>2
        <5> QED BY <5>1, <5>2
      <4>3. CASE i >= p
        <5> DEFINE r == <<"window", 0, i + 1>>
        <5>1. At(r, id) BY <4>1, <4>3, <1>1, <1>3, <1>4 DEF At
        <5>2. Move(r) = q BY <4>1, <4>3, <1>3
        <5> QED BY <5>1, <5>2
      <4> QED BY <4>2, <4>3, <1>3
    <3>2. CASE \E i \in DOMAIN evicted' : q = <<"evicted", 0, i>> /\ evicted'[i].id = id
      <4>1. PICK i \in 1..n : q = <<"evicted", 0, i>> /\ evicted'[i].id = id
        BY <3>2, <1>5, <1>6
      <4>2. CASE i = n
        <5> DEFINE r == <<"window", 0, p>>
        <5>1. At(r, id) BY <4>1, <4>2, <1>3, <1>4, <1>5, <1>6 DEF At
        <5>2. Move(r) = q BY <4>1, <4>2, <1>3
        <5> QED BY <5>1, <5>2
      <4>3. CASE i # n
        <5>1. At(q, id) BY <4>1, <4>3, <1>5, <1>6 DEF At
        <5>2. Move(q) = q BY <4>1
        <5> QED BY <5>1, <5>2
      <4> QED BY <4>2, <4>3
    <3>3. CASE /\ ~ \E i \in DOMAIN window' : q = <<"window", 0, i>> /\ window'[i].id = id
               /\ ~ \E i \in DOMAIN evicted' : q = <<"evicted", 0, i>> /\ evicted'[i].id = id
      <4>1. q[1] # "window" /\ At(q, id) BY <2>2, <3>3, <1>1 DEF At
      <4>2. Move(q) = q BY <4>1
      <4> QED BY <4>1, <4>2
    <3> QED BY <3>1, <3>2, <3>3
  <2> HIDE DEF Move
  <2>3. Places(id)' = {Move(q) : q \in Places(id)}
    BY <2>1, <2>2, PlacesAreAt, PlacesAreAtNext
  <2> DEFINE f == [q \in Places(id) |-> Move(q)]
  <2>4. Places(id)' = {f[q] : q \in Places(id)} BY <2>3
  <2> QED BY <2>4
<1> QED BY <1>1, <1>7, MovesKeepPlaced

LEMMA ClearKeepsPlaced == IInv /\ TurnsPlaced /\ Clear => TurnsPlaced'
<1> SUFFICES ASSUME IInv, TurnsPlaced, Clear PROVE TurnsPlaced' OBVIOUS
<1>1. /\ added \in Nat /\ window \in Seq(Message) /\ window' = <<SystemMessage>>
      /\ cleared' = cleared \cup (Ids(window) \ {0})
      /\ UNCHANGED <<evicted, added, queue, current, l3, lost>>
  BY DEF Clear, IInv, TypeOK, writerVars, dbVars
<1>2. Ids(window) \ {0} \subseteq 1..added
  <2>1. \A i \in DOMAIN window : window[i].id \in Nat /\ window[i].id <= added
    <3>1. \A i \in DOMAIN window : window[i] \in Message BY <1>1
    <3> QED BY <3>1 DEF Message, IInv, IdsBounded
  <2> QED BY <1>1, <2>1 DEF Ids
<1>3. ASSUME NEW id \in 1..MaxMessages, NEW q
      PROVE  At(q, id)' <=> At(q, id) /\ ~ \E i \in DOMAIN window :
                                 q = <<"window", 0, i>> /\ window[i].id = id
  BY <1>1 DEF At, SystemMessage
<1>4. ASSUME NEW id \in 1..MaxMessages
      PROVE  IF id \in 1..added' /\ id \notin cleared'
             THEN \E p \in Places(id)' : Places(id)' = {p}
             ELSE Places(id)' = {}
  <2>1. CASE id \in Ids(window)
    <3>1. PICK i \in DOMAIN window : window[i].id = id BY <2>1 DEF Ids
    <3>2. <<"window", 0, i>> \in Places(id) BY <3>1, PlacesAreAt DEF At
    <3>3. Places(id) = {<<"window", 0, i>>} BY <3>2 DEF TurnsPlaced
    <3>4. \A q : ~ At(q, id)' BY <1>3, <3>1, <3>3, PlacesAreAt
    <3>5. Places(id)' = {} BY <3>4, PlacesAreAtNext
    <3> QED BY <1>1, <2>1, <3>5
  <2>2. CASE id \notin Ids(window)
    <3>1. \A q : At(q, id)' <=> At(q, id) BY <1>3, <2>2 DEF Ids
    <3>2. Places(id)' = Places(id) BY <3>1, PlacesAreAt, PlacesAreAtNext
    <3>3. id \in cleared' <=> id \in cleared BY <1>1, <2>2
    <3> QED BY <1>1, <3>2, <3>3 DEF TurnsPlaced
  <2> QED BY <2>1, <2>2
<1>5. added' <= MaxMessages /\ cleared' \subseteq 1..added'
  BY <1>1, <1>2 DEF TurnsPlaced
<1> QED BY <1>4, <1>5 DEF TurnsPlaced

LEMMA EnqueueChunkKeepsPlaced == IInv /\ TurnsPlaced /\ EnqueueChunk => TurnsPlaced'
<1> SUFFICES ASSUME IInv, TurnsPlaced, EnqueueChunk PROVE TurnsPlaced' OBVIOUS
<1>1. /\ UNCHANGED <<window, added, cleared, current, l3, lost>>
      /\ evicted \in Seq(Message) /\ evicted' = <<>> /\ queue \in Seq(Chunk)
  BY DEF EnqueueChunk, IInv, TypeOK, dbVars
<1>2. PICK n \in Nat : n = Len(queue) + 1 BY <1>1
<1>3. /\ DOMAIN queue = 1..(n - 1) /\ DOMAIN queue' = 1..n
      /\ \A c \in 1..(n - 1) : queue'[c] = queue[c]
      /\ queue'[n].turns = evicted
  <2> DEFINE new == [no |-> chunk_count', turns |-> evicted]
  <2>1. new \in Chunk /\ new.turns = evicted
    BY DEF EnqueueChunk, IInv, TypeOK, Chunk
  <2>2. queue' = Append(queue, new) BY DEF EnqueueChunk
  <2> HIDE DEF new
  <2> QED BY <1>1, <1>2, <2>1, <2>2
<1>4. ASSUME NEW id
      PROVE  \E f : Places(id)' = {f[q] : q \in Places(id)}
  <2> DEFINE Move(q) == IF q[1] = "evicted" THEN <<"queue", n, q[3]>> ELSE q
  <2>1. ASSUME NEW q, At(q, id) PROVE At(Move(q), id)'
    <3>1. CASE \E i \in DOMAIN evicted : q = <<"evicted", 0, i>> /\ evicted[i].id = id
      <4>1. PICK i \in DOMAIN evicted : q = <<"evicted", 0, i>> /\ evicted[i].id = id
        BY <3>1
      <4>2. Move(q) = <<"queue", n, i>> BY <4>1
      <4>3. n \in DOMAIN queue' /\ i \in DOMAIN queue'[n].turns BY <1>2, <1>3, <4>1
      <4> QED BY <4>1, <4>2, <4>3, <1>3 DEF At
    <3>2. CASE \E c \in DOMAIN queue : \E i \in DOMAIN queue[c].turns :
                  q = <<"queue", c, i>> /\ queue[c].turns[i].id = id
      <4>1. PICK c \in 1..(n - 1) : \E i \in DOMAIN queue[c].turns :
                  q = <<"queue", c, i>> /\ queue[c].turns[i].id = id
        BY <3>2, <1>3
      <4>2. Move(q) = q /\ c \in DOMAIN queue' /\ queue'[c] = queue[c]
        BY <4>1, <1>2, <1>3
      <4> QED BY <4>1, <4>2 DEF At
    <3>3. CASE /\ ~ \E i \in DOMAIN evicted : q = <<"evicted", 0, i>> /\ evicted[i].id = id
               /\ ~ \E c \in DOMAIN queue : \E i \in DOMAIN queue[c].turns :
                       q = <<"queue", c, i>> /\ queue[c].turns[i].id = id
      <4>1. q[1] # "evicted" /\ At(q, id)' BY <2>1, <3>3, <1>1 DEF At
      <4>2. Move(q) = q BY <4>1
      <4> QED BY <4>1, <4>2
    <3> QED BY <3>1, <3>2, <3>3
  <2>2. ASSUME NEW q, At(q, id)' PROVE \E r : At(r, id) /\ q = Move(r)
    <3>1. CASE \E c \in DOMAIN queue' : \E i \in DOMAIN queue'[c].turns :
                  q = <<"queue", c, i>> /\ queue'[c].turns[i].id = id
      <4>1. PICK c \in 1..n : \E i \in DOMAIN queue'[c].turns :
                  q = <<"queue", c, i>> /\ queue'[c].turns[i].id = id
        BY <3>1, <1>3
      <4>2. PICK i \in DOMAIN queue'[c].turns :
                  q = <<"queue", c, i>> /\ queue'[c].turns[i].id = id
        BY <4>1
      <4>3. CASE c = n
        <5> DEFINE r == <<"evicted", 0, i>>
        <5>1. At(r, id) BY <4>2, <4>3, <1>3 DEF At
        <5>2. Move(r) = q BY <4>2, <4>3
        <5> QED BY <5>1, <5>2
      <4>4. CASE c # n
        <5>1. c \in 1..(n - 1) BY <4>4, <1>2
        <5>2. At(q, id) BY <4>2, <5>1, <1>3 DEF At
        <5>3. Move(q) = q BY <4>2
        <5> QED BY <5>2, <5>3
      <4> QED BY <4>3, <4>4
    <3>2. CASE ~ \E c \in DOMAIN queue' : \E i \in DOMAIN queue'[c].turns :
                    q = <<"queue", c, i>> /\ queue'[c].turns[i].id = id
      <4>1. q[1] # "evicted" /\ At(q, id) BY <2>2, <3>2, <1>1 DEF At
      <4>2. Move(q) = q BY <4>1
      <4> QED BY <4>1, <4>2
    <3> QED BY <3>1, <3>2
  <2> HIDE DEF Move
  <2>3. Places(id)' = {Move(q) : q \in Places(id)}
    BY <2>1, <2>2, PlacesAreAt, PlacesAreAtNext
  <2> DEFINE f == [q \in Places(id) |-> Move(q)]
  <2>4. Places(id)' = {f[q] : q \in Places(id)} BY <2>3
  <2> QED BY <2>4
<1> QED BY <1>1, <1>4, MovesKeepPlaced

LEMMA WorkerTakesKeepsPlaced == IInv /\ TurnsPlaced /\ WorkerTakes => TurnsPlaced'
<1> SUFFICES ASSUME IInv, TurnsPlaced, WorkerTakes PROVE TurnsPlaced' OBVIOUS
<1>1. /\ UNCHANGED <<window, evicted, added, cleared, l3, lost>>
      /\ queue \in Seq(Chunk) /\ queue # <<>> /\ current = <<>>
  BY DEF WorkerTakes, HasWork, IInv, TypeOK, ThreadsConsistent, windowVars, dbVars
<1>2. /\ DOMAIN queue = 1..Len(queue) /\ DOMAIN queue' = 1..(Len(queue) - 1)
      /\ Len(queue) \in Nat /\ Len(queue) # 0
      /\ \A c \in 1..(Len(queue) - 1) : queue'[c] = queue[c + 1]
      /\ DOMAIN current' = {1} /\ current'[1] = queue[1]
  BY <1>1 DEF WorkerTakes, NextChunk, QueueAfterPop
<1>3. ASSUME NEW id
      PROVE  \E f : Places(id)' = {f[q] : q \in Places(id)}
  <2> DEFINE Move(q) == IF q[1] # "queue" THEN q
                        ELSE IF q[2] = 1 THEN <<"current", 1, q[3]>>
                        ELSE <<"queue", q[2] - 1, q[3]>>
  <2>1. ASSUME NEW q, At(q, id) PROVE At(Move(q), id)'
    <3>1. CASE \E c \in DOMAIN queue : \E i \in DOMAIN queue[c].turns :
                  q = <<"queue", c, i>> /\ queue[c].turns[i].id = id
      <4>1. PICK c \in 1..Len(queue) : \E i \in DOMAIN queue[c].turns :
                  q = <<"queue", c, i>> /\ queue[c].turns[i].id = id
        BY <3>1, <1>2
      <4>2. PICK i \in DOMAIN queue[c].turns :
                  q = <<"queue", c, i>> /\ queue[c].turns[i].id = id
        BY <4>1
      <4>3. CASE c = 1
        <5>1. Move(q) = <<"current", 1, i>> BY <4>2, <4>3
        <5>2. 1 \in DOMAIN current' /\ current'[1] = queue[1] BY <1>2
        <5> QED BY <4>2, <4>3, <5>1, <5>2 DEF At
      <4>4. CASE c # 1
        <5>1. Move(q) = <<"queue", c - 1, i>> BY <4>2, <4>4
        <5>2. c - 1 \in DOMAIN queue' /\ queue'[c - 1] = queue[c] BY <1>2, <4>4
        <5> QED BY <4>2, <5>1, <5>2 DEF At
      <4> QED BY <4>3, <4>4
    <3>2. CASE ~ \E c \in DOMAIN queue : \E i \in DOMAIN queue[c].turns :
                    q = <<"queue", c, i>> /\ queue[c].turns[i].id = id
      <4>1. q[1] # "queue" /\ At(q, id)' BY <2>1, <3>2, <1>1 DEF At
      <4>2. Move(q) = q BY <4>1
      <4> QED BY <4>1, <4>2
    <3> QED BY <3>1, <3>2
  <2>2. ASSUME NEW q, At(q, id)' PROVE \E r : At(r, id) /\ q = Move(r)
    <3>1. CASE \E c \in DOMAIN queue' : \E i \in DOMAIN queue'[c].turns :
                  q = <<"queue", c, i>> /\ queue'[c].turns[i].id = id
      <4>1. PICK c \in 1..(Len(queue) - 1) : \E i \in DOMAIN queue'[c].turns :
                  q = <<"queue", c, i>> /\ queue'[c].turns[i].id = id
        BY <3>1, <1>2
      <4>2. PICK i \in DOMAIN queue'[c].turns :
                  q = <<"queue", c, i>> /\ queue'[c].turns[i].id = id
        BY <4>1
      <4> DEFINE r == <<"queue", c + 1, i>>
      <4>3. c + 1 \in DOMAIN queue /\ queue'[c] = queue[c + 1] BY <1>2
      <4>4. At(r, id) BY <4>2, <4>3 DEF At
      <4>5. Move(r) = q BY <4>2, <1>2
      <4> QED BY <4>4, <4>5
    <3>2. CASE \E i \in DOMAIN queue[1].turns :
                  q = <<"current", 1, i>> /\ queue[1].turns[i].id = id
      <4>1. PICK i \in DOMAIN queue[1].turns :
                  q = <<"current", 1, i>> /\ queue[1].turns[i].id = id
        BY <3>2
      <4> DEFINE r == <<"queue", 1, i>>
      <4>2. 1 \in DOMAIN queue BY <1>2
      <4>3. At(r, id) BY <4>1, <4>2 DEF At
      <4>4. Move(r) = q BY <4>1
      <4> QED BY <4>3, <4>4
    <3>3. CASE /\ ~ \E c \in DOMAIN queue' : \E i \in DOMAIN queue'[c].turns :
                       q = <<"queue", c, i>> /\ queue'[c].turns[i].id = id
               /\ ~ \E i \in DOMAIN queue[1].turns :
                       q = <<"current", 1, i>> /\ queue[1].turns[i].id = id
      <4>1. q[1] # "queue" /\ At(q, id) BY <2>2, <3>3, <1>1, <1>2 DEF At
      <4>2. Move(q) = q BY <4>1
      <4> QED BY <4>1, <4>2
    <3> QED BY <3>1, <3>2, <3>3
  <2> HIDE DEF Move
  <2>3. Places(id)' = {Move(q) : q \in Places(id)}
    BY <2>1, <2>2, PlacesAreAt, PlacesAreAtNext
  <2> DEFINE f == [q \in Places(id) |-> Move(q)]
  <2>4. Places(id)' = {f[q] : q \in Places(id)} BY <2>3
  <2> QED BY <2>4
<1> QED BY <1>1, <1>3, MovesKeepPlaced

(* An insert that ended moves the writer's chunk to table, l3 or lost.       *)
LEMMA InsertEndsKeepsPlaced ==
    IInv /\ TurnsPlaced /\ (InsertBusy \/ InsertCommits) => TurnsPlaced'
<1> SUFFICES ASSUME IInv, TurnsPlaced, InsertBusy \/ InsertCommits
             PROVE  TurnsPlaced'
  OBVIOUS
<1>1. /\ UNCHANGED <<window, evicted, added, cleared, queue>> /\ current' = <<>>
      /\ current \in Seq(Chunk) /\ Len(current) = 1
      /\ l3 \in Seq(Chunk) /\ lost \in Seq(Chunk)
  BY DEF InsertBusy, InsertCommits, IInv, TypeOK, ThreadsConsistent, windowVars
<1>2. DOMAIN current = {1} /\ current[1] \in Chunk /\ Head(current) = current[1]
  <2>1. DOMAIN current = 1..Len(current) /\ Len(current) = 1 BY <1>1
  <2>2. current \in Seq(Chunk) BY <1>1
  <2>3. DOMAIN current = 1..1 /\ 1 \in 1..1 BY <2>1
  <2>4. DOMAIN current = {1} BY <2>3
  <2>5. current[1] \in Chunk BY ONLY <2>1, <2>2
  <2>6. Head(current) = current[1] BY ONLY <2>1, <2>2
  <2> QED BY <2>4, <2>5, <2>6
<1>3. PICK table \in {"l3", "lost"}, n \in Nat :
         /\ n = Len(IF table = "l3" THEN l3 ELSE lost) + 1
         /\ l3' = (IF table = "l3" THEN Append(l3, current[1]) ELSE l3)
         /\ lost' = (IF table = "lost" THEN Append(lost, current[1]) ELSE lost)
  BY <1>1, <1>2 DEF InsertBusy, InsertCommits
<1>4. /\ table = "l3" => /\ DOMAIN l3 = 1..(n - 1) /\ DOMAIN l3' = 1..n
                         /\ l3'[n] = current[1] /\ lost' = lost
                         /\ \A c \in 1..(n - 1) : l3'[c] = l3[c]
      /\ table = "lost" => /\ DOMAIN lost = 1..(n - 1) /\ DOMAIN lost' = 1..n
                           /\ lost'[n] = current[1] /\ l3' = l3
                           /\ \A c \in 1..(n - 1) : lost'[c] = lost[c]
      /\ n \in 1..n
  BY <1>1, <1>2, <1>3
<1>5. ASSUME NEW id
      PROVE  \E f : Places(id)' = {f[q] : q \in Places(id)}
  <2> DEFINE Move(q) == IF q[1] = "current" THEN <<table, n, q[3]>> ELSE q
             Wrote(q) == \E i \in DOMAIN current[1].turns :
                            q = <<table, n, i>> /\ current[1].turns[i].id = id
  <2>1. ASSUME NEW q PROVE At(q, id)' <=> (q[1] # "current" /\ At(q, id)) \/ Wrote(q)
    <3>1. CASE table = "l3" BY <3>1, <1>1, <1>4 DEF At
    <3>2. CASE table = "lost" BY <3>2, <1>1, <1>4 DEF At
    <3> QED BY <3>1, <3>2
  <2>2. ASSUME NEW q, At(q, id) PROVE At(Move(q), id)'
    <3>1. CASE q[1] = "current"
      <4>1. PICK i \in DOMAIN current[1].turns :
                  q = <<"current", 1, i>> /\ current[1].turns[i].id = id
        BY <2>2, <3>1, <1>2 DEF At
      <4>2. Move(q) = <<table, n, i>> BY <4>1
      <4>3. Wrote(Move(q)) BY <4>1, <4>2
      <4> QED BY <2>1, <4>3
    <3>2. CASE q[1] # "current" BY <2>1, <2>2, <3>2
    <3> QED BY <3>1, <3>2
  <2>3. ASSUME NEW q, At(q, id)' PROVE \E r : At(r, id) /\ q = Move(r)
    <3>1. CASE Wrote(q)
      <4>1. PICK i \in DOMAIN current[1].turns :
                  q = <<table, n, i>> /\ current[1].turns[i].id = id
        BY <3>1
      <4> DEFINE r == <<"current", 1, i>>
      <4>2. At(r, id) BY <4>1, <1>2 DEF At
      <4>3. Move(r) = q BY <4>1
      <4> QED BY <4>2, <4>3
    <3>2. CASE ~ Wrote(q)
      <4>1. q[1] # "current" /\ At(q, id) BY <2>1, <2>3, <3>2
      <4>2. Move(q) = q BY <4>1
      <4> QED BY <4>1, <4>2
    <3> QED BY <3>1, <3>2
  <2> HIDE DEF Move
  <2>4. Places(id)' = {Move(q) : q \in Places(id)}
    BY <2>2, <2>3, PlacesAreAt, PlacesAreAtNext
  <2> DEFINE f == [q \in Places(id) |-> Move(q)]
  <2>5. Places(id)' = {f[q] : q \in Places(id)} BY <2>4
  <2> QED BY <2>5
<1> QED BY <1>1, <1>5, MovesKeepPlaced

LEMMA NextKeepsPlaced == IInv /\ TurnsPlaced /\ [Next]_vars => TurnsPlaced'
<1> SUFFICES ASSUME IInv, TurnsPlaced, [Next]_vars PROVE TurnsPlaced' OBVIOUS
<1>1. CASE AddMessage BY <1>1, AddMessageKeepsPlaced
<1>2. CASE EvictOne BY <1>2, EvictOneKeepsPlaced
<1>3. CASE Clear BY <1>3, ClearKeepsPlaced
<1>4. CASE EnqueueChunk BY <1>4, EnqueueChunkKeepsPlaced
<1>5. CASE WorkerTakes BY <1>5, WorkerTakesKeepsPlaced
<1>6. CASE InsertBusy \/ InsertCommits BY <1>6, InsertEndsKeepsPlaced
<1>7. CASE UNCHANGED <<window, evicted, added, cleared, queue, current, l3, lost>>
  <2>1. \A id : Places(id)' = Places(id)
    BY <1>7 DEF Places, TurnsAt, ChunksAt
  <2> QED BY <1>7, <2>1 DEF TurnsPlaced
<1> QED
  BY <1>1, <1>2, <1>3, <1>4, <1>5, <1>6, <1>7
  DEF Next, MainWorks, WriterWorks, Over, LogTurn, Flush, NotifyWriter, LogTurnDone,
      FlushWakes, Stop, StopNotify, Join, WorkerOpens, WorkerSleeps, WorkerDrained,
      InsertBegins, SpuriousWake, windowVars, writerVars, dbVars, vars

(* Evictions and the hand-over to the writer neither lose a turn silently    *)
(* nor store it twice: each is in one place, or was cleared.                 *)
THEOREM TurnsNeitherLostNorDoubled == SafeSpec => []EveryTurnInOnePlace
<1>1. IInv /\ TurnsPlaced => EveryTurnInOnePlace
  <2> SUFFICES ASSUME TurnsPlaced, added \in Nat, NEW id \in 1..added
               PROVE  Cardinality(Places(id)) = IF id \in cleared THEN 0 ELSE 1
    BY DEF EveryTurnInOnePlace, IInv, TypeOK
  <2>1. id \in 1..MaxMessages BY ContextAssumption DEF TurnsPlaced
  <2>2. CASE id \in cleared BY <2>1, <2>2, FS_EmptySet DEF TurnsPlaced
  <2>3. CASE id \notin cleared
    <3>1. PICK p : Places(id) = {p} BY <2>1, <2>3 DEF TurnsPlaced
    <3> QED BY <2>3, <3>1, FS_Singleton
  <2> QED BY <2>2, <2>3
<1> QED BY <1>1, InitPlaced, NextKeepsPlaced, Invariance, PTL DEF SafeSpec

-----------------------------------------------------------------------------
(* Messages of equal importance leave the window oldest first.              *)

(* A sequence whose elements are in T. *)
LEMMA SeqOfElements ==
    ASSUME NEW S, NEW T, NEW s \in Seq(S), \A i \in 1..Len(s) : s[i] \in T
    PROVE  s \in Seq(T)
<1>1. s \in [1..Len(s) -> T] /\ Len(s) \in Nat OBVIOUS
<1> QED BY <1>1, SeqDef

LEMMA TurnsAreMessages == Turns \subseteq Message
<1> SUFFICES ASSUME NEW m \in Turns PROVE m \in Message OBVIOUS
<1>1. 1..MaxMessages \subseteq Nat BY ContextAssumption
<1>2. m.id \in Nat /\ m.tokens \in Nat /\ m.importance \in Nat
  BY <1>1, ContextAssumption DEF Turns
<1>3. m = [id |-> m.id, tokens |-> m.tokens, importance |-> m.importance] BY DEF Turns
<1> QED BY <1>2, <1>3 DEF Message

LEMMA InitTurnsTyped == Init => TurnsTyped
BY DEF Init, TurnsTyped

LEMMA NextTurnsTyped == IInv /\ TurnsTyped /\ [Next]_vars => TurnsTyped'
<1> SUFFICES ASSUME IInv, TurnsTyped, [Next]_vars PROVE TurnsTyped' OBVIOUS
<1>t. window \in Seq(Message) /\ Len(window) \in Nat /\ added \in Nat
  BY DEF IInv, TypeOK
<1>1. CASE AddMessage
  <2>1. PICK t \in TokenCounts, imp \in Importances :
           window' = Append(window, [id |-> added', tokens |-> t, importance |-> imp])
    BY <1>1 DEF AddMessage
  <2>2. added' = added + 1 /\ added < MaxMessages /\ evicted' = evicted /\ evicted = <<>>
    BY <1>1 DEF AddMessage, TurnsTyped
  <2> DEFINE m == [id |-> added', tokens |-> t, importance |-> imp]
  <2>3. m \in Turns BY <2>2, <1>t, ContextAssumption DEF Turns
  <2> HIDE DEF m
  <2>4. window' = Append(window, m) BY <2>1 DEF m
  <2>5. ASSUME NEW i \in 2..Len(window') PROVE window'[i] \in Turns
    <3>1. Len(window') = Len(window) + 1 BY <2>4, <1>t
    <3>2. CASE i = Len(window) + 1 BY <3>2, <2>3, <2>4, <1>t
    <3>3. CASE i # Len(window) + 1
      <4>1. i \in 2..Len(window) /\ i \in 1..Len(window) BY <3>1, <3>3, <1>t
      <4>2. window'[i] = window[i] BY <4>1, <2>4, <1>t
      <4> QED BY <4>1, <4>2 DEF TurnsTyped
    <3> QED BY <3>2, <3>3
  <2> QED BY <2>2, <2>5 DEF TurnsTyped
<1>2. CASE EvictOne
  <2>1. Len(window) > 1 /\ phase = "evicting" /\ phase' = phase
    BY <1>2, <1>t DEF EvictOne, OverTarget
  <2>2. PICK p \in Scanned(window) :
           evicted' = Append(evicted, window[p]) /\ window' = RemoveAt(window, p)
    BY <1>2 DEF EvictOne
  <2>3. p \in 2..Len(window) /\ p \in 1..Len(window) BY <2>1, <1>t DEF Scanned
  <2>4. /\ Len(window') = Len(window) - 1
        /\ \A i \in 1..(Len(window) - 1) :
              window'[i] = IF i < p THEN window[i] ELSE window[i + 1]
    BY <1>t, <2>2, <2>3, RemoveAtFacts
  <2>5. ASSUME NEW i \in 2..Len(window') PROVE window'[i] \in Turns
    <3>1. /\ i \in 2..Len(window) /\ i + 1 \in 2..Len(window)
          /\ i \in 1..(Len(window) - 1)
      BY <2>1, <2>4, <1>t
    <3> QED BY <3>1, <2>4 DEF TurnsTyped
  <2>6. window[p] \in Turns BY <2>3 DEF TurnsTyped
  <2>7. evicted' \in Seq(Turns) BY <2>2, <2>6 DEF TurnsTyped
  <2> QED BY <2>1, <2>5, <2>7 DEF TurnsTyped
<1>3. CASE EnqueueChunk
  <2>1. evicted' = <<>> /\ window' = window BY <1>3 DEF EnqueueChunk
  <2> QED BY <2>1 DEF TurnsTyped
<1>4. CASE Clear
  <2>1. /\ window' = <<SystemMessage>> /\ evicted' = evicted /\ phase' = phase
    BY <1>4 DEF Clear
  <2>2. 2..Len(window') = {} BY <2>1
  <2> QED BY <2>1, <2>2 DEF TurnsTyped
<1>5. CASE UNCHANGED <<window, evicted>> /\ (phase' = "evicting" <=> phase = "evicting")
  BY <1>5 DEF TurnsTyped
<1> QED
  BY <1>1, <1>2, <1>3, <1>4, <1>5
  DEF Next, MainWorks, WriterWorks, Over, LogTurn, Flush, NotifyWriter, LogTurnDone,
      FlushWakes, Stop, StopNotify, Join, WorkerOpens, WorkerTakes, WorkerSleeps,
      WorkerDrained, WakeFlush, InsertBegins, InsertBusy, InsertCommits, SpuriousWake,
      windowVars, writerVars, dbVars, vars

(* What the loop works on are turns, and what it took is enqueued before      *)
(* anything else happens (evict_if_needed).                                  *)
THEOREM EvictionsEnqueued == SafeSpec => []TurnsTyped
BY InitTurnsTyped, NextTurnsTyped, Invariance, PTL DEF SafeSpec

(* While the loop runs: the evicted turns, then those that are left. *)
AllTurns == <<SystemMessage>> \o evicted \o Tail(window)

LEMMA AllTurnsFacts ==
    ASSUME IInv, TurnsTyped
    PROVE  /\ Tail(window) \in Seq(Turns) /\ Len(Tail(window)) = Len(window) - 1
           /\ \A i \in 1..(Len(window) - 1) : Tail(window)[i] = window[i + 1]
           /\ window = <<SystemMessage>> \o Tail(window)
           /\ evicted \in Seq(Turns) /\ evicted \o Tail(window) \in Seq(Turns)
           /\ Len(evicted \o Tail(window)) = Len(evicted) + Len(window) - 1
           /\ AllTurns = <<SystemMessage>> \o (evicted \o Tail(window))
<1>1. window \in Seq(Message) /\ window # <<>> /\ window[1] = SystemMessage
      /\ Len(window) \in Nat /\ Len(window) # 0
  BY DEF IInv, TypeOK, WindowInTurnOrder
<1>2. /\ Tail(window) \in Seq(Message) /\ Len(Tail(window)) = Len(window) - 1
      /\ \A i \in 1..(Len(window) - 1) : Tail(window)[i] = window[i + 1]
  BY <1>1
<1>3. \A i \in 1..(Len(window) - 1) : Tail(window)[i] \in Turns
  <2>1. \A i \in 1..(Len(window) - 1) : i + 1 \in 2..Len(window) BY <1>1
  <2> QED BY <1>2, <2>1 DEF TurnsTyped
<1>4. Tail(window) \in Seq(Turns) BY <1>2, <1>3, SeqOfElements
<1>5. window = <<SystemMessage>> \o Tail(window)
  <2> DEFINE w == <<SystemMessage>> \o Tail(window)
  <2>1. <<SystemMessage>> \in Seq(Message) /\ Len(<<SystemMessage>>) = 1
        /\ <<SystemMessage>>[1] = SystemMessage
    BY SystemMessageType
  <2>2. w \in Seq(Message) /\ Len(w) = Len(window)
        /\ \A i \in 1..Len(window) :
              w[i] = IF i <= 1 THEN <<SystemMessage>>[i] ELSE Tail(window)[i - 1]
    BY <2>1, <1>1, <1>2, ConcatProperties
  <2> HIDE DEF w
  <2>3. ASSUME NEW i \in 1..Len(window) PROVE w[i] = window[i]
    <3>1. CASE i = 1 BY <3>1, <2>1, <2>2, <1>1
    <3>2. CASE i # 1
      <4>1. i - 1 \in 1..(Len(window) - 1) /\ (i - 1) + 1 = i /\ ~ (i <= 1) BY <3>2, <1>1
      <4> QED BY <4>1, <2>2, <1>2
    <3> QED BY <3>1, <3>2
  <2>4. w = window BY <2>2, <2>3, <1>1, SeqEqual
  <2> QED BY <2>4 DEF w
<1>6. evicted \in Seq(Turns) BY DEF TurnsTyped
<1>7. /\ evicted \o Tail(window) \in Seq(Turns)
      /\ Len(evicted \o Tail(window)) = Len(evicted) + Len(window) - 1
  <2>1. Len(evicted) \in Nat BY <1>6
  <2> QED BY <1>1, <1>2, <1>4, <1>6, <2>1, ConcatProperties
<1>8. AllTurns = <<SystemMessage>> \o (evicted \o Tail(window))
  <2>1. <<SystemMessage>> \in Seq(Message) /\ evicted \in Seq(Message)
    BY <1>6, SystemMessageType, TurnsAreMessages
  <2> QED BY <2>1, <1>2, ConcatAssociative DEF AllTurns
<1> QED BY <1>2, <1>4, <1>5, <1>6, <1>7, <1>8

(* An eviction moves the oldest turn from the front of the window to the end *)
(* of what was evicted.                                                      *)
LEMMA EvictsOldest ==
    ASSUME EqualScores, IInv, TurnsTyped, EvictOne
    PROVE  phase' = "evicting" /\ AllTurns' = AllTurns
<1>1. /\ window \in Seq(Message) /\ Len(window) \in Nat /\ Len(window) > 1
      /\ phase' = "evicting" /\ window[1] = SystemMessage
  BY DEF EvictOne, OverTarget, IInv, TypeOK, WindowInTurnOrder
<1>2. PICK p \in Scanned(window) :
         /\ LeastImportant(p, window)
         /\ evicted' = Append(evicted, window[p]) /\ window' = RemoveAt(window, p)
  BY DEF EvictOne
<1>3. p \in 2..Len(window) /\ 2 \in 2..Len(window) /\ p \in 1..Len(window)
  BY <1>1 DEF Scanned
<1>4. p = 2
  <2>1. window[p].importance \in Importances /\ window[2].importance \in Importances
    BY <1>3 DEF TurnsTyped, Turns
  <2>2. window[p].importance = window[2].importance /\ window[2].importance \in Nat
    BY <2>1, ContextAssumption DEF EqualScores
  <2>3. p <= 2
    <3>1. 2 \in Scanned(window) BY DEF Scanned
    <3>2. window[p].importance < window[2].importance \/ p <= 2
      BY <1>2, <3>1 DEF LeastImportant
    <3> QED BY <2>2, <3>2
  <2> QED BY <1>3, <2>3
<1> DEFINE m == window[2]
           old == Tail(window)
           new == Tail(window')
<1>5. /\ Len(window') = Len(window) - 1 /\ window' \in Seq(Message)
      /\ \A i \in 1..(Len(window) - 1) :
            window'[i] = IF i < 2 THEN window[i] ELSE window[i + 1]
  BY <1>1, <1>2, <1>3, <1>4, RemoveAtFacts
<1>6. /\ old \in Seq(Turns) /\ Len(old) = Len(window) - 1
      /\ \A i \in 1..(Len(window) - 1) : old[i] = window[i + 1]
      /\ evicted \in Seq(Turns)
  BY AllTurnsFacts
<1>7. m \in Turns BY <1>3 DEF TurnsTyped
<1>8. /\ new \in Seq(Message) /\ Len(new) = Len(window) - 2
      /\ \A i \in 1..(Len(window) - 2) : new[i] = window'[i + 1]
  <2>1. window' # <<>> BY <1>1, <1>5
  <2> QED BY <1>1, <1>5, <2>1
<1>9. <<m>> \o new = old
  <2>1. <<m>> \in Seq(Message) /\ Len(<<m>>) = 1 /\ <<m>>[1] = m
    BY <1>7, TurnsAreMessages
  <2> DEFINE s == <<m>> \o new
  <2>2. /\ s \in Seq(Message) /\ Len(s) = Len(window) - 1
        /\ \A i \in 1..(Len(window) - 1) : s[i] = IF i <= 1 THEN <<m>>[i] ELSE new[i - 1]
    <3> HIDE DEF new
    <3> QED BY <1>1, <1>8, <2>1, ConcatProperties
  <2>3. ASSUME NEW i \in 1..(Len(window) - 1) PROVE s[i] = old[i]
    <3>1. CASE i = 1 BY <3>1, <2>1, <2>2, <1>6
    <3>2. CASE i # 1
      <4>1. /\ i - 1 \in 1..(Len(window) - 2) /\ (i - 1) + 1 = i /\ ~ (i <= 1)
            /\ i \in 1..(Len(window) - 1) /\ ~ (i < 2)
        BY <3>2, <1>1
      <4>2. s[i] = window'[i] BY <4>1, <2>2, <1>8
      <4>3. window'[i] = window[i + 1] BY <4>1, <1>5
      <4> QED BY <4>2, <4>3, <1>6
    <3> QED BY <3>1, <3>2
  <2>4. old \in Seq(Message) BY <1>6, TurnsAreMessages
  <2> HIDE DEF s, old, new
  <2>5. s = old BY <2>2, <2>3, <2>4, <1>6, SeqEqual
  <2> QED BY <2>5 DEF s
<1>10. evicted' \o new = evicted \o old
  <2>1. evicted' = evicted \o <<m>> BY <1>2, <1>4, <1>6, <1>7
  <2>2. evicted \in Seq(Message) /\ <<m>> \in Seq(Message)
    BY <1>6, <1>7, TurnsAreMessages
  <2>3. (evicted \o <<m>>) \o new = evicted \o (<<m>> \o new)
    <3> HIDE DEF new, m
    <3> QED BY <2>2, <1>8, ConcatAssociative
  <2> QED BY <2>1, <2>3, <1>9
<1>11. /\ (<<SystemMessage>> \o evicted') \o new = <<SystemMessage>> \o (evicted' \o new)
       /\ (<<SystemMessage>> \o evicted) \o old = <<SystemMessage>> \o (evicted \o old)
  <2>1. <<SystemMessage>> \in Seq(Message) /\ evicted \in Seq(Message)
        /\ old \in Seq(Message)
    BY <1>6, SystemMessageType, TurnsAreMessages
  <2>2. evicted' \in Seq(Message)
    <3>1. m \in Message BY <1>7, TurnsAreMessages
    <3> QED BY <1>2, <1>4, <2>1, <3>1
  <2> HIDE DEF new, old
  <2> QED BY SMTT(40), <2>1, <2>2, <1>8, ConcatAssociative
<1>12. SystemMessage' = SystemMessage BY DEF SystemMessage
<1> QED BY <1>1, <1>10, <1>11, <1>12 DEF AllTurns

(* What the window was when the message came, with that message. *)
LEMMA FrontAndLast ==
    ASSUME NEW S, NEW a \in S, NEW b \in S, NEW s \in Seq(S)
    PROVE  /\ Front(<<a>> \o Append(s, b)) = <<a>> \o s
           /\ Tail(<<a>> \o s) = s
<1> DEFINE t == <<a>> \o Append(s, b)
           u == <<a>> \o s
<1>1. /\ Append(s, b) \in Seq(S) /\ Len(Append(s, b)) = Len(s) + 1 /\ Len(s) \in Nat
      /\ \A i \in 1..Len(s) : Append(s, b)[i] = s[i]
      /\ <<a>> \in Seq(S) /\ Len(<<a>>) = 1 /\ <<a>>[1] = a
  OBVIOUS
<1>2. /\ t \in Seq(S) /\ Len(t) = Len(s) + 2
      /\ \A i \in 1..(Len(s) + 2) : t[i] = IF i <= 1 THEN <<a>>[i] ELSE Append(s, b)[i - 1]
  BY <1>1, ConcatProperties
<1>3. /\ u \in Seq(S) /\ Len(u) = Len(s) + 1
      /\ \A i \in 1..(Len(s) + 1) : u[i] = IF i <= 1 THEN <<a>>[i] ELSE s[i - 1]
  BY <1>1, ConcatProperties
<1> HIDE DEF t, u
<1>4. Front(t) = u
  <2> DEFINE f == SubSeq(t, 1, Len(t) - 1)
  <2>1. f \in Seq(S) /\ Len(f) = Len(s) + 1 /\ \A i \in 1..(Len(s) + 1) : f[i] = t[i]
    BY <1>1, <1>2
  <2> HIDE DEF f
  <2>2. ASSUME NEW i \in 1..(Len(s) + 1) PROVE f[i] = u[i]
    <3>1. i \in 1..(Len(s) + 2) /\ (~ (i <= 1) => i - 1 \in 1..Len(s)) BY <1>1
    <3> QED BY <3>1, <2>1, <1>1, <1>2, <1>3
  <2>3. f = u BY <2>1, <2>2, <1>3, SeqEqual
  <2> QED BY <2>3 DEF f, Front
<1>5. Tail(u) = s
  <2>1. Tail(u) \in Seq(S) /\ Len(Tail(u)) = Len(s)
        /\ \A i \in 1..Len(s) : Tail(u)[i] = u[i + 1]
    BY <1>1, <1>3
  <2>2. ASSUME NEW i \in 1..Len(s) PROVE Tail(u)[i] = s[i]
    <3>1. i + 1 \in 1..(Len(s) + 1) /\ ~ (i + 1 <= 1) /\ (i + 1) - 1 = i BY <1>1
    <3> QED BY <3>1, <2>1, <1>3
  <2> QED BY <2>1, <2>2, SeqEqual
<1> QED BY <1>4, <1>5 DEF t, u

(* The chunk that leaves ends with the turn evicted last; what is left is the *)
(* rest of the window and the new message.                                   *)
LEMMA EnqueueAdds ==
    ASSUME IInv, TurnsTyped, EnqueueChunk
    PROVE  \E m \in Turns : window' \in Sliding!Adding(Front(AllTurns), <<m>>)
<1>1. window' = window /\ evicted # <<>> BY DEF EnqueueChunk
<1> DEFINE rest == Tail(window)
           all  == evicted \o rest
           n    == Len(evicted) + Len(rest)
<1>2. /\ rest \in Seq(Turns) /\ window = <<SystemMessage>> \o rest
      /\ evicted \in Seq(Turns) /\ AllTurns = <<SystemMessage>> \o all
  BY AllTurnsFacts
<1> HIDE DEF rest
<1>3. Len(evicted) \in Nat /\ Len(evicted) # 0 /\ Len(rest) \in Nat BY <1>1, <1>2
<1>4. /\ all \in Seq(Turns) /\ Len(all) = n
      /\ \A i \in 1..n :
            all[i] = IF i <= Len(evicted) THEN evicted[i] ELSE rest[i - Len(evicted)]
  BY <1>2, ConcatProperties
<1> HIDE DEF all
<1> DEFINE s == SubSeq(all, 1, n - 1)
           m == all[n]
<1>5. n \in 1..n /\ m \in Turns /\ s \in Seq(Turns) /\ Len(s) = n - 1
      /\ \A i \in 1..(n - 1) : s[i] = all[i]
  BY <1>3, <1>4
<1>6. all = Append(s, m)
  <2> DEFINE t == Append(s, m)
  <2>1. t \in Seq(Turns) /\ Len(t) = n /\ t[n] = m
        /\ \A i \in 1..(n - 1) : t[i] = s[i]
    <3> HIDE DEF s, m
    <3> QED BY <1>3, <1>5
  <2>2. ASSUME NEW i \in 1..n PROVE t[i] = all[i]
    <3>1. i = n \/ i \in 1..(n - 1) BY <1>3
    <3> QED BY <3>1, <2>1, <1>5
  <2> HIDE DEF s, m, t
  <2>3. t = all BY <2>1, <2>2, <1>4, SeqEqual
  <2> QED BY <2>3 DEF t
<1>7. Front(AllTurns) = <<SystemMessage>> \o s /\ Tail(<<SystemMessage>> \o s) = s
  <2>1. s \in Seq(Message) /\ m \in Message BY <1>5, TurnsAreMessages
  <2> HIDE DEF s, m
  <2> QED BY <2>1, <1>2, <1>6, SystemMessageType, FrontAndLast
<1>8. s \o <<m>> = all BY <1>5, <1>6
<1>9. SubSeq(all, Len(evicted) + 1, Len(all)) = rest
  <2> DEFINE f == SubSeq(all, Len(evicted) + 1, n)
  <2>1. f \in Seq(Turns) /\ Len(f) = Len(rest)
        /\ \A i \in 1..Len(rest) : f[i] = all[Len(evicted) + i]
    <3>1. /\ Len(evicted) + 1 \in 1..(n + 1) /\ n - (Len(evicted) + 1) + 1 = Len(rest)
      BY <1>3
    <3>2. f \in Seq(Turns) BY <1>3, <1>4, <3>1
    <3>3. Len(f) = Len(rest) BY <1>3, <1>4, <3>1
    <3>4. ASSUME NEW i \in 1..Len(rest) PROVE f[i] = all[Len(evicted) + i]
      <4>1. /\ i \in 1..(n - (Len(evicted) + 1) + 1)
            /\ (Len(evicted) + 1) + i - 1 = Len(evicted) + i
        BY <1>3
      <4> QED BY <4>1, <1>3, <1>4
    <3> QED BY <3>2, <3>3, <3>4
  <2>2. ASSUME NEW i \in 1..Len(rest) PROVE f[i] = rest[i]
    <3>1. /\ Len(evicted) + i \in 1..n /\ ~ (Len(evicted) + i <= Len(evicted))
          /\ (Len(evicted) + i) - Len(evicted) = i
      BY <1>3
    <3> QED BY <3>1, <2>1, <1>4
  <2> HIDE DEF f
  <2>3. f = rest BY <2>1, <2>2, <1>2, SeqEqual
  <2> QED BY <2>3, <1>4 DEF f
<1>10. window' \in Sliding!Adding(Front(AllTurns), <<m>>)
  <2>1. Len(evicted) + 1 \in 1..(Len(all) + 1) BY <1>3, <1>4
  <2>2. Tail(Front(AllTurns)) \o <<m>> = all BY <1>7, <1>8
  <2>3. window' = <<SystemMessage>> \o SubSeq(all, Len(evicted) + 1, Len(all))
    BY <1>1, <1>2, <1>9
  <2> HIDE DEF m, s
  <2> QED BY <2>1, <2>2, <2>3 DEF Sliding!Adding
<1> QED BY <1>5, <1>10

(* A message that evicts nothing. *)
LEMMA AddMessageAdds ==
    ASSUME IInv, TurnsTyped, AddMessage
    PROVE  /\ phase' # "evicting" =>
                 \E m \in Turns : window' \in Sliding!Adding(window, <<m>>)
           /\ phase' = "evicting" => Front(AllTurns') = window
<1>1. PICK t \in TokenCounts, imp \in Importances :
         window' = Append(window, [id |-> added', tokens |-> t, importance |-> imp])
  BY DEF AddMessage
<1>2. /\ added' = added + 1 /\ added < MaxMessages /\ added \in Nat
      /\ evicted' = evicted /\ evicted = <<>>
  BY DEF AddMessage, TurnsTyped, IInv, TypeOK
<1> DEFINE m == [id |-> added', tokens |-> t, importance |-> imp]
           rest == Tail(window)
<1>3. m \in Turns BY <1>2, ContextAssumption DEF Turns
<1> HIDE DEF m
<1>4. window' = Append(window, m) BY <1>1 DEF m
<1>5. /\ rest \in Seq(Turns) /\ window = <<SystemMessage>> \o rest BY AllTurnsFacts
<1> HIDE DEF rest
<1>6. /\ rest \o <<m>> = Append(rest, m) /\ Append(rest, m) \in Seq(Turns)
      /\ Append(rest, m) \in Seq(Message) /\ m \in Message /\ rest \in Seq(Message)
      /\ Len(Append(rest, m)) \in Nat
      /\ SubSeq(Append(rest, m), 1, Len(Append(rest, m))) = Append(rest, m)
  BY <1>3, <1>5, TurnsAreMessages
<1>7. window' = <<SystemMessage>> \o Append(rest, m)
  <2>1. <<SystemMessage>> \in Seq(Message) /\ <<m>> \in Seq(Message)
    BY <1>6, SystemMessageType
  <2>2. (<<SystemMessage>> \o rest) \o <<m>> = <<SystemMessage>> \o (rest \o <<m>>)
    BY <2>1, <1>6, ConcatAssociative
  <2>3. Append(window, m) = window \o <<m>>
    <3>1. window \in Seq(Message) BY DEF IInv, TypeOK
    <3> QED BY <3>1, <1>6
  <2> QED BY <2>2, <2>3, <1>4, <1>5, <1>6
<1>8. Tail(window) = rest BY DEF rest
<1>9. window' \in Sliding!Adding(window, <<m>>)
  <2>1. 1 \in 1..(Len(Append(rest, m)) + 1) BY <1>6
  <2> QED BY <2>1, <1>6, <1>7, <1>8 DEF Sliding!Adding
<1>10. Front(AllTurns') = window
  <2>1. Tail(window') = Append(rest, m) BY <1>6, <1>7, SystemMessageType, FrontAndLast
  <2>2. AllTurns' = <<SystemMessage>> \o Append(rest, m)
    <3>1. <<SystemMessage>> \o <<>> = <<SystemMessage>>
      <4>1. <<SystemMessage>> \in Seq(Message) BY SystemMessageType
      <4> QED BY <4>1, ConcatEmptySeq
    <3> QED BY <1>2, <2>1, <3>1 DEF AllTurns, SystemMessage
  <2> QED BY <2>2, <1>5, <1>6, SystemMessageType, FrontAndLast
<1> QED BY <1>3, <1>9, <1>10

LEMMA ShownAtStart == Init => Sliding!Init
BY DEF Init, ShownWindow, Sliding!Init

LEMMA StepsSlide ==
    ASSUME EqualScores, IInv, TurnsTyped, [Next]_vars
    PROVE  [Sliding!Next]_ShownWindow
<1>d. /\ ShownWindow = IF phase = "evicting" THEN Front(AllTurns) ELSE window
      /\ ShownWindow' = IF phase' = "evicting" THEN Front(AllTurns') ELSE window'
  BY DEF ShownWindow, AllTurns, Front, SystemMessage
<1>1. CASE AddMessage
  <2>1. phase # "evicting" BY <1>1 DEF AddMessage
  <2>2. CASE phase' = "evicting" BY <2>1, <2>2, <1>1, <1>d, AddMessageAdds
  <2>3. CASE phase' # "evicting"
    <3>1. PICK m \in Turns : window' \in Sliding!Adding(window, <<m>>)
      BY <2>3, <1>1, AddMessageAdds
    <3>2. Sliding!Add BY <3>1, <2>1, <2>3, <1>d DEF Sliding!Add
    <3> QED BY <3>2 DEF Sliding!Next
  <2> QED BY <2>2, <2>3
<1>2. CASE EvictOne
  <2>1. phase = "evicting" /\ phase' = "evicting" /\ AllTurns' = AllTurns
    BY <1>2, EvictsOldest DEF EvictOne
  <2> QED BY <2>1, <1>d
<1>3. CASE EnqueueChunk
  <2>1. phase = "evicting" /\ phase' # "evicting" BY <1>3 DEF EnqueueChunk
  <2>2. PICK m \in Turns : window' \in Sliding!Adding(Front(AllTurns), <<m>>)
    BY <1>3, EnqueueAdds
  <2>3. Sliding!Add BY <2>1, <2>2, <1>d DEF Sliding!Add
  <2> QED BY <2>3 DEF Sliding!Next
<1>4. CASE Clear
  <2>1. phase # "evicting" /\ phase' # "evicting" /\ window' = <<SystemMessage>>
    BY <1>4 DEF Clear
  <2>2. Sliding!Clear BY <2>1, <1>d DEF Sliding!Clear
  <2> QED BY <2>2 DEF Sliding!Next
<1>5. CASE UNCHANGED <<window, evicted>> /\ (phase' = "evicting" <=> phase = "evicting")
  <2>1. AllTurns' = AllTurns BY <1>5 DEF AllTurns, SystemMessage
  <2> QED BY <1>5, <2>1, <1>d
<1> QED
  BY <1>1, <1>2, <1>3, <1>4, <1>5
  DEF Next, MainWorks, WriterWorks, Over, LogTurn, Flush, NotifyWriter, LogTurnDone,
      FlushWakes, Stop, StopNotify, Join, WorkerOpens, WorkerTakes, WorkerSleeps,
      WorkerDrained, WakeFlush, InsertBegins, InsertBusy, InsertCommits, SpuriousWake,
      windowVars, writerVars, dbVars, vars

(* As long as all messages are equally important, which the REPL's are, the   *)
(* whole of add_message is one step that lets the oldest turns go: the        *)
(* window that ChatSession assumes (add_message, evict_if_needed, clear).     *)
THEOREM ImplementsSlidingWindow ==
    ASSUME EqualScores
    PROVE  SafeSpec => SlidingSpec
<1>1. IInv /\ TurnsTyped /\ [Next]_vars => [Sliding!Next]_ShownWindow
  BY StepsSlide
<1> QED BY <1>1, ShownAtStart, Invariance, EvictionsEnqueued, PTL
        DEF SafeSpec, SlidingSpec, Sliding!Spec
=============================================================================
