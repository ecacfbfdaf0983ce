--------------------------- MODULE ContextManager ---------------------------
(***************************************************************************)
(* The sliding-window memory of the REPL (src/memory/context_manager.cpp). *)
(*                                                                         *)
(* The main thread appends messages to a window that starts with the       *)
(* system prompt.  When the window's token count passes 80% of the budget, *)
(* it evicts messages until the count is at most 60%, packs them into one  *)
(* chunk and queues the chunk for a background thread, which inserts it    *)
(* into the SQLite table l2_summaries ("L3").  On exit the main thread     *)
(* waits for the queue (flush) and joins the thread (~ContextManager).     *)
(*                                                                         *)
(* Each thread is a program counter (phase, worker); a step is what the    *)
(* thread does between two points where the other can run: one iteration   *)
(* of the eviction loop, one critical section of q_mutex_, one SQLite      *)
(* statement taking or giving up the database's write lock.  A thread      *)
(* blocked in q_cv_.wait is in "asleep"; a notify moves it to where it     *)
(* re-evaluates its predicate.                                             *)
(***************************************************************************)
EXTENDS Integers, Sequences, SequencesExt, TokenSum

CONSTANTS MaxTokens,     \* options_.max_l1_tokens
          ChunkSize,     \* options_.chunk_size: a scan looks at indices below it
          SysTokens,     \* estimate_tokens(system_prompt_)
          TokenCounts,   \* token counts a message may have
          Importances,   \* importance scores a message may have
          MaxMessages    \* bound: messages added in a session

ASSUME ContextAssumption ==
    /\ MaxTokens \in Nat
    /\ ChunkSize \in Nat
    /\ SysTokens \in Nat
    /\ TokenCounts \subseteq Nat
    /\ Importances \subseteq Nat
    /\ MaxMessages \in Nat

VARIABLES
    window,           \* window_: the messages sent with each request
    active_tokens,    \* active_tokens_
    evicted,          \* the local vector of evict_if_needed
    added,            \* history: messages added, which is also the last id
    cleared,          \* history: ids of the messages dropped by clear()
    phase,            \* where the main thread is
    flushed,          \* the result of flush(): "none" before it returns
    queue,            \* queue_
    chunk_count,      \* evicted_chunk_count_
    worker,           \* where the writer thread is
    current,          \* the writer's local chunk c, as a sequence of length <= 1
    worker_ready,     \* worker_ready_
    worker_busy,      \* worker_busy_
    stop,             \* stop_
    write_lock,       \* which connection holds the database's write lock
    l3,               \* the rows of l2_summaries, in insertion order
    lost              \* history: the chunks whose insert failed

windowVars == <<window, active_tokens, evicted, added, cleared>>
writerVars == <<queue, chunk_count, worker, current, worker_ready, worker_busy,
                stop>>
dbVars     == <<write_lock, l3, lost>>
vars       == <<windowVars, phase, flushed, writerVars, dbVars>>

-----------------------------------------------------------------------------
(* Messages, chunks and the thresholds.                                    *)

Message == [id : Nat, tokens : Nat, importance : Nat]
Chunk   == [no : Nat, turns : Seq(Message)]

(* The system prompt's score 1.0 matters to no scan: index 0 is not scanned. *)
SystemMessage == [id |-> 0, tokens |-> SysTokens, importance |-> 1]

(* 0.80 and 0.60 of the budget, converted to size_t (truncated). *)
Trigger == (4 * MaxTokens) \div 5
Target  == (3 * MaxTokens) \div 5

Ids(w) == {w[i].id : i \in DOMAIN w}

ScannedFromFront(w) == {k \in 1..(Len(w) - 1) : k <= ChunkSize}
ScannedWithNewest(w) == {2} \cup {k \in 2..Len(w) : k <= ChunkSize}

(* The positions one iteration chooses from: those of the ChunkSize - 1      *)
(* oldest turns, but the newest turn's only if no other turn is left.        *)
Scanned(w) == {2} \cup {k \in 2..(Len(w) - 1) : k <= ChunkSize}

(* The first of the least important turns scanned. *)
LeastImportant(p, w) ==
    \A k \in Scanned(w) :
        \/ w[p].importance < w[k].importance
        \/ w[p].importance = w[k].importance /\ p <= k

OverTriggerBefore(w, n) == Len(w) > 1 /\ active_tokens > Trigger

(* evict_if_needed has something to do, with window w of n tokens. *)
OverTrigger(w, n) == Len(w) > 1 /\ n > Trigger

(* The eviction loop goes on. *)
OverTarget == active_tokens > Target /\ Len(window) > 1

(* What evicting window_[p] takes off active_tokens_. *)
Freed(p) == window[p].tokens

-----------------------------------------------------------------------------
(* The main thread.                                                        *)

Init ==
    /\ window = <<SystemMessage>>
    /\ active_tokens = SysTokens
    /\ evicted = <<>>
    /\ added = 0
    /\ cleared = {}
    /\ phase = "idle"
    /\ flushed = "none"
    /\ queue = <<>>
    /\ chunk_count = 0
    \* std::thread's constructor may throw: the session goes on without a writer.
    /\ worker \in {"absent", "opening"}
    /\ current = <<>>
    /\ worker_ready = FALSE
    /\ worker_busy = FALSE
    /\ stop = FALSE
    /\ write_lock = "free"
    /\ l3 = <<>>
    /\ lost = <<>>

(* add_message up to the eviction loop. *)
AddMessage ==
    /\ phase = "idle"
    /\ added < MaxMessages
    /\ added' = added + 1
    /\ \E t \in TokenCounts, imp \in Importances :
         /\ window' = Append(window, [id |-> added', tokens |-> t, importance |-> imp])
         /\ active_tokens' = active_tokens + t
    /\ phase' = IF OverTrigger(window', active_tokens') THEN "evicting" ELSE "idle"
    /\ UNCHANGED <<evicted, cleared, flushed, writerVars, dbVars>>

(* One iteration of the loop of evict_if_needed. *)
EvictOne ==
    /\ phase = "evicting"
    /\ OverTarget
    /\ \E p \in Scanned(window) :
         /\ LeastImportant(p, window)
         /\ active_tokens' = active_tokens - Freed(p)
         /\ evicted' = Append(evicted, window[p])
         /\ window' = RemoveAt(window, p)
    /\ UNCHANGED <<added, cleared, phase, flushed, writerVars, dbVars>>

(* The loop is over: pack the evicted turns and enqueue_chunk them.  The     *)
(* loop ran at least once: Target <= Trigger < active_tokens on entry.       *)
EnqueueChunk ==
    /\ phase = "evicting"
    /\ ~ OverTarget
    /\ evicted # <<>>
    /\ chunk_count' = chunk_count + 1
    /\ queue' = Append(queue, [no |-> chunk_count', turns |-> evicted])
    /\ evicted' = <<>>
    /\ phase' = "notifying"
    /\ UNCHANGED <<window, active_tokens, added, cleared, flushed, worker,
                   current, worker_ready, worker_busy, stop, dbVars>>

WakeNobody == UNCHANGED worker

(* q_cv_.notify_one or notify_all, as the writer sees it. *)
WakeWriter == worker' = IF worker = "asleep" THEN "waking" ELSE worker

(* enqueue_chunk's notify_one, after it gave up q_mutex_. *)
NotifyWriter ==
    /\ phase = "notifying"
    /\ WakeWriter
    /\ phase' = "idle"
    /\ UNCHANGED <<windowVars, flushed, queue, chunk_count, current,
                   worker_ready, worker_busy, stop, dbVars>>

ClearedTokensKept == active_tokens

(* clear() counts the fresh window: the system prompt alone. *)
ClearedTokens == SysTokens

(* clear(): back to the system prompt.  Queued chunks stay queued. *)
Clear ==
    /\ phase = "idle"
    /\ window # <<SystemMessage>>
    /\ cleared' = cleared \cup (Ids(window) \ {0})
    /\ window' = <<SystemMessage>>
    /\ active_tokens' = ClearedTokens
    /\ UNCHANGED <<evicted, added, phase, flushed, writerVars, dbVars>>

(* The REPL logs each turn to chat_history through its own connection, which *)
(* holds the write lock for the time of the INSERT.  If the writer holds it, *)
(* the INSERT fails with SQLITE_BUSY at once and the REPL goes on.           *)
LogTurn ==
    /\ phase = "idle"
    /\ write_lock = "free"
    /\ write_lock' = "repl"
    /\ phase' = "logging"
    /\ UNCHANGED <<windowVars, flushed, writerVars, l3, lost>>

LogTurnDone ==
    /\ phase = "logging"
    /\ write_lock' = "free"
    /\ phase' = "idle"
    /\ UNCHANGED <<windowVars, flushed, writerVars, l3, lost>>

WriterIdleByQueue == queue = <<>>

(* flush()'s predicate: nothing queued and no insert under way. *)
WriterIdle == queue = <<>> /\ ~ worker_busy

(* flush(), called once when the REPL ends: fail, return or sleep. *)
Flush ==
    /\ phase = "idle"
    /\ \/ /\ ~ worker_ready /\ queue # <<>>
          /\ flushed' = "failed"
          /\ phase' = "flushed"
       \/ /\ worker_ready \/ queue = <<>>
          /\ WriterIdle
          /\ flushed' = "ok"
          /\ phase' = "flushed"
       \/ /\ worker_ready \/ queue = <<>>
          /\ ~ WriterIdle
          /\ phase' = "asleep"
          /\ UNCHANGED flushed
    /\ UNCHANGED <<windowVars, writerVars, dbVars>>

(* flush() was woken: it returns or sleeps again. *)
FlushWakes ==
    /\ phase = "waking"
    /\ \/ WriterIdle /\ flushed' = "ok" /\ phase' = "flushed"
       \/ ~ WriterIdle /\ phase' = "asleep" /\ UNCHANGED flushed
    /\ UNCHANGED <<windowVars, writerVars, dbVars>>

(* ~ContextManager: set stop_ under the mutex, notify_all, join. *)
Stop ==
    /\ phase = "flushed"
    /\ stop' = TRUE
    /\ phase' = "stopping"
    /\ UNCHANGED <<windowVars, flushed, queue, chunk_count, worker, current,
                   worker_ready, worker_busy, dbVars>>

StopNotify ==
    /\ phase = "stopping"
    /\ WakeWriter
    /\ phase' = "joining"
    /\ UNCHANGED <<windowVars, flushed, queue, chunk_count, current,
                   worker_ready, worker_busy, stop, dbVars>>

Join ==
    /\ phase = "joining"
    /\ worker \in {"absent", "exited"}
    /\ phase' = "done"
    /\ UNCHANGED <<windowVars, flushed, writerVars, dbVars>>

-----------------------------------------------------------------------------
(* The writer thread (worker_main).                                        *)

(* Opening the database or creating the schema may fail; the thread ends. *)
WorkerOpens ==
    /\ worker = "opening"
    /\ \/ worker_ready' = TRUE /\ worker' = "waking"
       \/ worker_ready' = worker_ready /\ worker' = "exited"
    /\ UNCHANGED <<windowVars, phase, flushed, queue, chunk_count, current,
                   worker_busy, stop, dbVars>>

HasWorkUntilStop == queue # <<>> /\ ~ stop

(* The inner while of worker_main: drain the queue whatever stop_ says. *)
HasWork == queue # <<>>

NewestChunk == Last(queue)

(* queue_.front(). *)
NextChunk == Head(queue)

QueueAfterPeek == queue

(* queue_.pop_front(). *)
QueueAfterPop == Tail(queue)

(* With q_mutex_ held, after waking or after an insert: take the next chunk. *)
WorkerTakes ==
    /\ worker \in {"waking", "inserted"}
    /\ HasWork
    /\ current' = <<NextChunk>>
    /\ queue' = QueueAfterPop
    /\ worker_busy' = TRUE
    /\ worker' = "inserting"
    /\ UNCHANGED <<windowVars, phase, flushed, chunk_count, worker_ready, stop,
                   dbVars>>

(* Woken (or just started) with nothing to do: sleep. *)
WorkerSleeps ==
    /\ worker = "waking"
    /\ queue = <<>>
    /\ ~ stop
    /\ worker' = "asleep"
    /\ UNCHANGED <<windowVars, phase, flushed, queue, chunk_count, current,
                   worker_ready, worker_busy, stop, dbVars>>

WakeNoFlush == UNCHANGED phase

(* q_cv_.notify_all, as a main thread asleep in flush() sees it. *)
WakeFlush == phase' = IF phase = "asleep" THEN "waking" ELSE phase

(* The queue is drained: notify_all, then end or sleep. *)
WorkerDrained ==
    /\ ~ HasWork
    /\ \/ worker = "inserted"
       \/ worker = "waking" /\ stop
    /\ worker_busy' = FALSE
    /\ worker' = IF stop THEN "exited" ELSE "asleep"
    /\ WakeFlush
    /\ UNCHANGED <<windowVars, flushed, queue, chunk_count, current,
                   worker_ready, stop, dbVars>>

(* insert_l2_summary asks for the database's write lock. *)
InsertBegins ==
    /\ worker = "inserting"
    /\ write_lock = "free"
    /\ write_lock' = "writer"
    /\ worker' = "committing"
    /\ UNCHANGED <<windowVars, phase, flushed, queue, chunk_count, current,
                   worker_ready, worker_busy, stop, l3, lost>>

(* The connection has no busy timeout: a held lock fails the insert at once. *)
(* The failure is printed on stderr and the chunk is gone.                   *)
InsertBusy ==
    /\ worker = "inserting"
    /\ write_lock # "free"
    /\ lost' = Append(lost, Head(current))
    /\ current' = <<>>
    /\ worker' = "inserted"
    /\ UNCHANGED <<windowVars, phase, flushed, queue, chunk_count,
                   worker_ready, worker_busy, stop, write_lock, l3>>

InsertCommits ==
    /\ worker = "committing"
    /\ l3' = Append(l3, Head(current))
    /\ write_lock' = "free"
    /\ current' = <<>>
    /\ worker' = "inserted"
    /\ UNCHANGED <<windowVars, phase, flushed, queue, chunk_count,
                   worker_ready, worker_busy, stop, lost>>

-----------------------------------------------------------------------------
(* The main thread is inside a call it has to finish. *)
MainWorks ==
    \/ EvictOne \/ EnqueueChunk \/ NotifyWriter \/ LogTurnDone
    \/ FlushWakes \/ Stop \/ StopNotify \/ Join

WriterWorks ==
    \/ WorkerOpens \/ WorkerTakes \/ WorkerSleeps \/ WorkerDrained
    \/ InsertBegins \/ InsertBusy \/ InsertCommits

(* A condition variable may wake a sleeper that nobody notified. *)
SpuriousWake ==
    \/ /\ worker = "asleep" /\ worker' = "waking"
       /\ UNCHANGED <<windowVars, phase, flushed, queue, chunk_count, current,
                      worker_ready, worker_busy, stop, dbVars>>
    \/ /\ phase = "asleep" /\ phase' = "waking"
       /\ UNCHANGED <<windowVars, flushed, writerVars, dbVars>>

(* The session is over; nothing runs. *)
Over == phase = "done" /\ UNCHANGED vars

Next ==
    \/ AddMessage \/ Clear \/ LogTurn \/ Flush
    \/ MainWorks \/ WriterWorks \/ SpuriousWake \/ Over

SafeSpec == Init /\ [][Next]_vars

(* Both threads are scheduled; the user need not type anything. *)
Spec == SafeSpec /\ WF_vars(MainWorks) /\ WF_vars(WriterWorks)

-----------------------------------------------------------------------------
(* Properties.                                                             *)

(* Every variable holds a value of its type; in particular active_tokens_,   *)
(* a size_t, never wraps below zero.                                         *)
TypeOK ==
    /\ window \in Seq(Message) /\ active_tokens \in Nat
    /\ evicted \in Seq(Message)
    /\ added \in Nat /\ cleared \subseteq Nat
    /\ phase \in {"idle", "evicting", "notifying", "logging", "asleep", "waking",
                  "flushed", "stopping", "joining", "done"}
    /\ flushed \in {"none", "ok", "failed"}
    /\ queue \in Seq(Chunk) /\ chunk_count \in Nat
    /\ worker \in {"absent", "opening", "waking", "asleep", "inserting",
                   "committing", "inserted", "exited"}
    /\ current \in Seq(Chunk)
    /\ worker_ready \in BOOLEAN /\ worker_busy \in BOOLEAN /\ stop \in BOOLEAN
    /\ write_lock \in {"free", "repl", "writer"}
    /\ l3 \in Seq(Chunk) /\ lost \in Seq(Chunk)

(* active_tokens_, kept incrementally by three functions, is always the      *)
(* token count of the window: evictions stop neither early nor late.         *)
TokenAccounting == active_tokens = TokensOf(window)

(* Outside evict_if_needed the window fits the eviction threshold, or only   *)
(* the system prompt is left.                                                *)
BudgetRestored == phase # "evicting" => active_tokens <= Trigger \/ Len(window) = 1

(* The window starts with the system prompt and its turns stay in the order  *)
(* they were added, whatever the scores made the evictions pick.             *)
WindowInTurnOrder ==
    /\ window # <<>> /\ window[1] = SystemMessage
    /\ \A i, j \in DOMAIN window : i < j => window[i].id < window[j].id

(* Where turn id is: the sequence, the chunk in it (0: none) and the index.  *)
TurnsAt(name, c, turns, id) ==
    {<<name, c, i>> : i \in {j \in DOMAIN turns : turns[j].id = id}}
ChunksAt(name, chunks, id) ==
    UNION {TurnsAt(name, c, chunks[c].turns, id) : c \in DOMAIN chunks}
Places(id) ==
    TurnsAt("window", 0, window, id) \cup TurnsAt("evicted", 0, evicted, id)
        \cup ChunksAt("queue", queue, id) \cup ChunksAt("current", current, id)
        \cup ChunksAt("l3", l3, id) \cup ChunksAt("lost", lost, id)

(* A turn that was added and not cleared is in exactly one place: the        *)
(* window, the loop's vector, one chunk in the queue, in the writer's hands, *)
(* in L3, or in a failed insert.  Evictions and hand-overs neither lose a    *)
(* turn silently nor store it twice.                                         *)
EveryTurnInOnePlace ==
    \A id \in 1..added :
        Cardinality(Places(id)) = IF id \in cleared THEN 0 ELSE 1

(* A flush() that reports success leaves nothing queued and no insert under  *)
(* way, although the writer may be between pop_front and the insert's end    *)
(* when flush looks at an empty queue.                                       *)
FlushDrains == flushed = "ok" => queue = <<>> /\ current = <<>>

(* When the destructor returns, a writer that ever got ready has taken every *)
(* chunk, also the ones flush() refused to wait for because the writer was   *)
(* still opening the database.                                               *)
ShutdownDrains == phase = "done" /\ worker_ready => queue = <<>> /\ current = <<>>

(* The message just added is evicted only if it could not stay beside the    *)
(* system prompt: a turn is answered with the turn itself in the request.    *)
KeepsNewest ==
    (phase = "evicting" /\ window' # window)
        => \/ window'[Len(window')] = window[Len(window)]
           \/ SysTokens + window[Len(window)].tokens > Target
NewestKept == [][KeepsNewest]_vars

(* Detail implements promise: chunks leave oldest first, each once.          *)
Channel == INSTANCE EvictionChannel
           WITH offered <- chunk_count,
                settled <- chunk_count - Len(queue) - Len(current),
                stored  <- [i \in DOMAIN l3 |-> l3[i].no]

ChannelSpec == Channel!Spec

(* The window between two calls: while the eviction loop runs, the one that  *)
(* add_message found, which is what was evicted since and what is left.      *)
ShownWindow ==
    IF phase = "evicting" THEN Front(<<SystemMessage>> \o evicted \o Tail(window))
    ELSE window

Turns == [id : 1..MaxMessages, tokens : TokenCounts, importance : Importances]

(* Detail implements promise: messages of equal importance leave oldest      *)
(* first, as ChatSession assumes.                                            *)
Sliding == INSTANCE SlidingWindow
           WITH Prompt <- SystemMessage, Messages <- Turns, shown <- ShownWindow

EqualScores == \A i, j \in Importances : i = j

SlidingSpec == Sliding!Spec

(* A flush() that sleeps is woken and returns. *)
FlushReturns == phase = "asleep" ~> phase = "flushed"

(* The destructor's join ends, whatever the writer was doing. *)
SessionEnds == phase = "flushed" ~> phase = "done"

(* Once the writer is ready, every chunk is inserted or given up, even if    *)
(* the user never types again: the notify after an enqueue is not missed.    *)
ChunksSettle ==
    \A n \in 1..MaxMessages :
        (worker_ready /\ chunk_count >= n)
            ~> (chunk_count - Len(queue) - Len(current) >= n)

(* What main.cpp prints when flush() succeeds: "<evicted_chunk_count> eviction *)
(* chunks persisted to L3".  A failed insert refutes it.                       *)
FlushedChunksPersisted == flushed = "ok" => Len(l3) = chunk_count

-----------------------------------------------------------------------------
(* The inductive invariant behind the safety properties.                   *)

(* Where the threads are, and what that says about the flags. *)
ThreadsConsistent ==
    /\ worker_ready => worker \notin {"absent", "opening"}
    /\ ~ worker_ready => worker \in {"absent", "opening", "exited"}
    /\ worker_busy <=> worker \in {"inserting", "committing", "inserted"}
    /\ Len(current) = IF worker \in {"inserting", "committing"} THEN 1 ELSE 0
    /\ (worker = "exited" /\ worker_ready) => stop /\ queue = <<>>
    /\ stop <=> phase \in {"stopping", "joining", "done"}
    /\ flushed = "none" <=> phase \notin {"flushed", "stopping", "joining", "done"}
    /\ phase = "done" => worker \in {"absent", "exited"}

(* The newest id is the number of messages added. *)
IdsBounded == \A i \in DOMAIN window : window[i].id <= added

(* Chunks are numbered in the order they were enqueued; the queue holds the  *)
(* latest of them and the writer the one before.                             *)
ChunksNumbered ==
    /\ Len(queue) + Len(current) <= chunk_count
    /\ \A i \in DOMAIN queue : queue[i].no = chunk_count - Len(queue) + i
    /\ \A i \in DOMAIN current : current[i].no = chunk_count - Len(queue)

IInv ==
    /\ TypeOK
    /\ TokenAccounting
    /\ BudgetRestored
    /\ WindowInTurnOrder
    /\ IdsBounded
    /\ ThreadsConsistent
    /\ ChunksNumbered
    /\ FlushDrains
    /\ ShutdownDrains

(* The turns' whereabouts, stated so that it is inductive: the ids still to  *)
(* be given are nowhere, and clear() forgets only ids that were given.       *)
TurnsPlaced ==
    /\ added <= MaxMessages /\ cleared \subseteq 1..added
    /\ \A id \in 1..MaxMessages :
          IF id \in 1..added /\ id \notin cleared
          THEN \E p \in Places(id) : Places(id) = {p}
          ELSE Places(id) = {}

(* What the loop works on: turns behind the system prompt, and outside it    *)
(* nothing that was evicted.                                                 *)
TurnsTyped ==
    /\ \A i \in 2..Len(window) : window[i] \in Turns
    /\ evicted \in Seq(Turns)
    /\ phase # "evicting" => evicted = <<>>
=============================================================================
