# A verification project for DDCI

DDCI is a command-line chat agent. A REPL keeps a sliding window of messages,
sends it to a hosted model, streams the answer, and stores evicted turns and the
chat history in SQLite. This directory holds TLA+ models of its stateful parts,
the TLC configurations that check them, and TLAPS proofs of what holds for every
budget, limit and length of session.

Paths below are relative to the repository root (`src/` there is
`src/src/` in `PROJECT.json`, which is relative to the directory above the
repository).

## 1. Inventory

| Component | State | Operations | Interacts with | What makes it correct |
|---|---|---|---|---|
| ContextManager `src/memory/context_manager.cpp` | window, token counter, chunk queue, flags of the writer thread | `add_message`, `evict_if_needed`, `clear`, `flush`, destructor, `worker_main` | REPL (calls), writer thread (mutex, condition variable), SQLite (own connection) | the counter agrees with the window; the budget is restored; no turn lost or doubled on the way to L3; flush and exit complete |
| RateGovernor `src/governor/rate_governor.cpp` | records of the last minute | `is_allowed`, `wait_time_ms`, `record` | REPL, before and after each request | the limits hold in every minute; the session recovers |
| SpeculativeDAG `src/runtime/dag_executor.cpp` | nodes, dependency bits, ring of tickets, counters | `add_node`, `run_parallel`, `run_serial` | its own pool of threads | each node once, after its dependencies; the run ends |
| REPL and `main` `src/main.cpp` | user name, session objects | command dispatch, chat turn, `/got`, `/clear`, restore, shutdown | everything | history, window and records stay consistent through errors |
| DatabaseClient `src/storage/db_client.cpp` | one SQLite connection | schema, config, history, summaries | three connections to one file | failures are reported; nothing is half-written |
| GoTEngine `src/engine/got_engine.cpp` | thought slots, edges, metrics | `run` and its branch workers | APIClient on several threads, SQLite | the graph it persists matches the branches it used |
| APIClient `src/network/api_client.cpp` | usage, cache | chat, history, stream | curl, UsageTracker, SemanticCache | the answer is the concatenation of the events received |
| SemanticCache `src/memory/simd_cache.cpp` | entries and embeddings | `lookup`, `store`, `reset` | APIClient | a hit returns what was stored for a close prompt |
| MemoryManager, Agent `src/memory/memory_manager.cpp`, `src/engine/agent.cpp` | active and staging buffers | `add_message`, `flush_to_storage` | DatabaseClient | no message lost, doubled or reordered; a request ends with the line typed |
| Config, key wizard `src/core/config.cpp`, `src/main.cpp` | key, model, limits | `load_from_env`, `discover_api_key`, wizard | `.env`, environment | the strongest source wins; what the wizard writes is read back |
| EndpointHealth `src/net/endpoint_health.cpp` | window of samples, monitor thread | `report`, `status`, `start`, `stop` | REPL, APIClient | the counters are the window's; stop returns |
| Ledgers `src/net/timing_log.cpp`, `src/telemetry/*` | files | `record`, `append` | GoT branches, REPL | one header, whole rows, in order |
| ConnectionManager `src/net/connection_manager.cpp` | adaptive timeout | `perform` | curl | the timeout stays in its range |
| SIMD matcher `src/core/simd_matcher.cpp` | none | byte search, count, tokens | APIClient's lines | a kernel finds and counts what the scalar loop does |
| Sanitizer `src/security/sanitizer.cpp` | none | `sanitize_terminal_output` | APIClient's pieces | no control byte reaches the terminal |
| Pruner `src/memory/pruner.cpp` | none | `compress_context` | ContextManager's chunks | words are kept |
| ArenaAllocator, Vibe, workspace, UI | none or local | | | |

The behaviours that are hard to test: the two threads of ContextManager around one
condition variable; SQLite's write lock taken by three connections with no busy
timeout; the lock-free hand-over in SpeculativeDAG; GoT's branch threads over shared
services; a minute that passes while a request is under way; a session that fails
half-way through a turn; a notify that meets the monitor between its test and its sleep;
files that several threads, or a start after a kill, continue. `PROJECT.json` lists
them as hazards, at their lines, with the properties that cover them.

The headers under `include/ddci/` that `src/runtime`, `src/net` and others include are
not in the repository; where a model needs a constant or a type of theirs
(`kMaxNodes`, `kRingSlots`, `kEmptyToken`), it is a CONSTANT or is taken from its use.

## 2. Plan

1. ContextManager, with EvictionChannel and SlidingWindow as its abstract specifications. *Modelled, checked;
   every safety property and both refinements proved.*
2. RateGovernor with the REPL's protocol. *Modelled, checked; all three invariants proved.*
3. SpeculativeDAG, with DagRun as its abstract specification. *Modelled, checked; its
   invariants and the refinement proved.*
4. GoTEngine: branch threads, launch failure and fallback, collection, aggregation,
   metrics. *Modelled, checked; all four invariants proved.*
5. ChatSession: the REPL over abstract window, history table and governor; failures of
   each step, `/clear`, restart and restore, the report of offloaded turns. *Modelled,
   checked; all four invariants proved, and that ContextManager's window is the one it assumes.*
6. APIClient with SemanticCache: fragments to lines to answer, the cache around it, the
   accounting of every path. *Modelled, checked; its invariants and the action property proved.*
7. MemoryManager and Agent; EndpointHealth; Config and key wizard; Ledgers. *Modelled,
   checked; every safety property proved.*
8. Pruner, Sanitizer and SimdMatcher as operators, checked against references. *Modelled,
   checked; proved that the kernels agree (NEON's byte search excepted), that no control byte is
   shown and that compression keeps the words.*

The runs stay small: two or three threads, three to five messages or nodes, every
interleaving.

## 3. Modules

| Module | Role |
|---|---|
| `ContextManager` | the window, both threads, the write lock and the table |
| `EvictionChannel` | abstract: chunks leave oldest first, stored or dropped, each once |
| `SlidingWindow` | abstract: the window between two calls, the oldest turns leaving; what ChatSession is built on |
| `TokenSum` | the reference sum of token counts |
| `Operators_proofs` | what the operators compute for sequences of any length: token sums, loops, compression |
| `ContextManager_proofs` | theorems of `ContextManager` |
| `RateGovernor`, `RateGovernor_proofs` | the governor and the REPL's use of it; theorems |
| `SpeculativeDAG`, `SpeculativeDAG_proofs` | the executor, one atomic access per step; theorems |
| `DagRun` | abstract: each node once, after its dependencies, all before the return |
| `GoTEngine`, `GoTEngine_proofs` | runs of `/got`: branch workers and the collecting main thread; theorems |
| `ChatSession`, `ChatSession_proofs` | the REPL over sessions: window, history table, name, failures, restarts; theorems |
| `APIClient`, `APIClient_proofs` | requests, streamed answers and the semantic cache; theorems |
| `MemoryManager` | the second memory and the agent that drives it |
| `EndpointHealth` | the window of samples, `stop()` and the monitor thread |
| `KeySetup` | environment, `.env` file, `--model` and key wizard over many starts |
| `Ledger` | the two CSV files: threads, partial writes, later sessions |
| `SimdMatcher`, `Sanitizer`, `Pruner` | operators: byte search, terminal filter, compression |
| `TextKernels` | a streamed text through these three |
| `MCComponents` | one instance of MemoryManager, EndpointHealth, KeySetup, Ledger and TextKernels, side by side |
| `Components_proofs` | theorems of these five, as parts of `MCComponents` |
| `MC...` | values of the constants for TLC |

### ContextManager

The main thread is `phase`, the writer `worker`. A step is what a thread does between
two points where the other can interfere: an iteration of the eviction loop, a critical
section of `q_mutex_`, an SQLite statement taking or giving up the write lock.
`q_cv_.wait` is a place `asleep`; a notify moves a sleeper to `waking`, where it evaluates
its predicate again; `SpuriousWake` does so without a notify. `notify_one` after
`enqueue_chunk` and the destructor's `notify_all` are steps of their own because the code
gives up the mutex before them. `worker = "absent"` is a `std::thread` constructor that
threw; `WorkerOpens` may fail as opening the database or creating the schema may.

A message is an id, a token count and an importance; a chunk is its ordinal and its turns.
`estimate_tokens`, the role tags and `compress_context` are abstracted: no property is
about the text. The thresholds 0.8 and 0.6 are the integer fractions 4/5 and 3/5. `LogTurn` is the REPL's `log_message` on its own connection; the
INSERT holds the lock between two steps, and a log that finds the lock taken changes
nothing, so it is a stuttering step.

`added`, `cleared`, `l3` and `lost` are history variables that the properties are
about; no guard reads them except the bound `MaxMessages`.

`ShownWindow` is the window as the caller sees it: while `evict_if_needed` is at work, the one before
the call, put together from what is left and what was taken out. `SlidingSpec` is about it, and
holds where all importances are equal (`EqualScores`), as the REPL's are; with two scores an
old important turn outlives a newer one.

### RateGovernor

One variable is the clock, in units of which `Minute` makes 60 s; `Tick` may come between
any two steps, so a request takes any time. `Ask` is the REPL's `is_allowed` (which prunes)
followed by `wait_time_ms` on a denial; `Recorded` is `record`; `ChatFails` is the error path
of a chat turn, which skips `record`, while `/got` records either way. Sums are taken
modulo `Wrap` (2^32). `log` is the history of all records. The assumption
`Tpm + e < Wrap` says that a prompt is shorter than 16 GiB.

### SpeculativeDAG

Each thread has a place `pc` and the local variables of the functions it is in. The ring's
sequence numbers, positions and tokens are modelled access by access: a producer takes a
ticket, waits for its slot, stores the token, publishes; a consumer loads the position,
checks the slot's number, exchanges the position (weakly: `LosePos` may fail for no
reason), reads the token, frees the slot. `process_node`'s two exchanges, `fetch_or` and
the completion count are steps as well. Atomics are sequentially consistent in the model.
`run_parallel` seeds the ring before any other thread exists, so that loop's
`runnable_or_done` is one step. `run_serial` uses the same `process_node`; the tokens it
leaves in the ring are never read. Task functions are the stay in `running`.
An object is run once: `deps_seen` and `state` are never reset by the code, and nothing
in the repository runs one twice.

### GoTEngine

`pc` is the main thread's place in `run()`; a branch's worker is one step,
`BranchAnswers`, that may come at any moment after its launch, with any outcome (not ok,
ok without content, ok with content). `nodes` and `edges` are the counted parts of the
arrays; `agg_conf` is the aggregate's confidence while the aggregate is written but not
counted. An answer is what the scores look at (balanced, closed, share of the prompt's
words, density), and scores are integers in hundredths, so that the threshold is met
exactly; rounding of doubles is not modelled. `EngineAssumption` excludes thresholds of 0.40
and less, at which an empty answer could pass; the code's is 0.70 and nothing changes it. When a thread
cannot be created the branch is a deferred task whose reference to the launch loop's
counter is dangling: `CollectDeferred` finds the collecting loop's counter there or
one past the last client, which ends the process (`crashed`).

### ChatSession

A message is its role and the number of its turn; the notes about the name and the
workspace are window entries too. `Start` is `main` up to the prompt, `Stop` both an
ordered exit and a crash, since they leave the same database. `Chat`, `Got`, `Answered` and
`RequestFails` are the parts of a turn before and after the request; a request the
governor refuses changes nothing and is a stutter. The REPL never passes an importance, so
ContextManager evicts the oldest messages first; `Adding`, which is SlidingWindow's, lets it evict
any number of them. That ContextManager does no more is proved there (`ImplementsSlidingWindow`). A statement fails nondeterministically. Commands that only read (`/history`,
`/name`, `/help`) are stutters. `SetName` is a second process started with `--set-name`;
two chats at once on one database are not modelled.
`unlogged`, `wiped` and `forgotten` are history variables.

### APIClient

`request` is answered from `cache` in one step (`AskHit`), or `pc` waits for a reply
(`post_and_extract`) or a stream. The server's stream is `script`, chosen when the request
is sent; a line is two units, and `Receive(n)` is `on_data` with the next n, which puts them
into `buffer`, handles the whole lines and keeps the `Rest`. A piece of the answer is the
number of its line, so a lost, doubled or reordered piece shows. A stream that ends without
its end mark but with content is returned, and cached, as the code does. Embeddings are a
symmetric `Similarity`.

Not every request leaves a timing. Without a key (`has_key`) the two places that send one return
before there is a timing (`AskWithoutKey`, lines 117-120 and 313-316); `main` asks for a key or exits,
but the client looks for itself. And a request can end with an exception
(`Throws`): `payload.dump()` throws on messages that are not UTF-8
(`src/net/connection_manager.cpp:37`), `json::parse` throws `out_of_range` on a number too large for a double,
where only `parse_error` is caught (line 161), and a usage figure in a stream that is no number throws in `UsageTracker::record` or `get<uint64_t>` (lines 507-515), after the
answer was received and shown and before its timing at 527. The figures of a plain reply are read inside a
`try` (lines 170-202) and end in `ReplyFails`. A usage that throws is a line `oddusage`: `StreamEnds`
needs a usage that is `Countable`. Nothing in `main` catches an exception, so the REPL ends there (`Over`);
GoT's workers catch all (`src/engine/got_engine.cpp:407`), which makes it an answer that is not ok for
`GoTEngine`. The model's client has a usage tracker, as `main` gives it one.

Statistics (`hits_`, `dropped_`) and the copy printed to the terminal
are left out. The cache's key is the last user message only and `/clear` leaves it alone:
the clearing that `ChatSession` checks is that of the window and of the table.

### MemoryManager

`AddMessage` is `add_message` with the `flush_to_storage` it may call: messages are taken from
the front until the rest fits, all of them are staged, then a row is inserted for each until
one fails (`saved`). The agent is `phase`; a failed `add_message` ends the restoring, ends the
agent at the system prompt, and drops the line typed, as in the code, although the message
itself is in the window then. The budget is the integer part of 17/20 of `MaxTokens`. A row's
text is `"empty"`: the strings were moved into the staging buffer before they are bound.
`added` and `unsaved` are history.

### EndpointHealth

`main` and `monitor` are the two threads. `stop()` is three steps: the flag under
`cv_mutex_`, the notify without it, and the join. `wait_for` is the test under the mutex
(`Test`), the sleep (`Sleep`), and the test after a notify (`Wake`) or when the interval has passed
(`Timeout`). A probe ends by its own timeout at the latest. Any request may report at any time
while the session runs. Whether there is an interval is a choice at `Start`, since its
default is in a header that is not in the repository.

### KeySetup

`lines` is the file, `ended` whether its last line has its newline. A start reads the
environment and the file into `cfg`, lets `--model` overrule the model (`model_override`: not given, or a name,
which may be empty) and goes to the wizard without a key. `WriteEnvFile` may
fail before anything is written, or after a part of the line, which stays in the file.
Between starts the user appends lines, with or without a newline. Something appended to an
unterminated line continues it (`Continued`). `saved` is the last key reported as saved, `clean`
whether it began a line of its own. The wizard writes the key as it was typed and its own session uses
it so (`stage = "saved"`), but `parse_env_line` takes a pair of quotes off a value: a later start
reads `Unquoted[key]`, which is the key itself unless it was typed in quotes, and
nothing for two quote marks. `load_from_env` is the reading loop as a function of the number
of lines read. The names of settings and the values the model itself writes are assumed to be
strings (`Words`); that is no restriction, but the provers do not know it of a literal.

### Ledger

A row is two units, and a `write()` takes one or both. `todo` is what is left of the
`append()` a thread is in. `O_APPEND` puts the bytes at the end whoever wrote before. For the
usage ledger only the main thread records. `Stop` is an ordered end and a kill. The two
loops differ only in a `write()` that returns 0, which a regular file does not do.

### SimdMatcher, Sanitizer, Pruner, TextKernels

Offsets are the code's. The bytes of a tail's buffer behind the text, `junk`, are chosen
freely. Register and chunk lengths are constants with small values: what matters is a text
shorter than, equal to and longer than a block. The Sanitizer's bytes are classes that
the code tells apart; the Pruner's characters are letters, marks, a space and a newline: two letters
and two marks in the run, any characters in the proof. The reference for compression finds each
word by its position and judges each mark by its neighbours; it knows no passes.
`TextKernels` shows a text in pieces of any length; `KernelsAgree`, `TerminalSafe` and
`CompressedAsWords` compare the operators with direct definitions (`Words`, `Visible`, `Squeezed`) on
every text.

## 4. Runs

| Run | Instance | Shows |
|---|---|---|
| `cm` | budget 10 (trigger 8, target 6), scan limit 4, turns of 2 or 9 tokens, scores 0 or 1, four turns | over every interleaving: the safety properties, `EvictionChannel`, and `FlushReturns`, `SessionEnds`, `ChunksSettle` |
| `cm_persisted` | three turns | violation: the exit report counts dropped chunks |
| `governor` | rpm 3, tpm 6, minute 3 units, estimates 1, 3, 7, eight units | both limits, `Recovers` |
| `governor_retry` | the same | violation: the retry hint |
| `dag_safety` | every graph of up to three nodes, pool of one or two threads and the caller, four slots | safety and `DagRun` |
| `dag_live` | the same with a pool of one | `Terminates` |
| `got` | three branches, threshold 0.70, answers excellent, at the threshold, just below, worst; failed and blank ones; run after run | the four invariants of `GoTEngine` |
| `chat` | three turns over any number of sessions, restore of two rows, two names, up to two notes | the four invariants of `ChatSession` |
| `client` | with and without a key; streams of up to three lines, every fragmentation and end, usage that counts or throws; cache of two, five prompts, two of them exactly at the threshold | the three invariants of `APIClient` and `CacheKeepsAnswers` |
| `chat_offload` | two turns | violation: the report of offloaded turns is one short |
| `components` | five parts side by side, see below | the ten properties of the modules from MemoryManager to TextKernels |
| `key_saved` | files of up to three lines, two keys without quotes | violation: a key reported as saved is not found |

The parts of `components` share no state, so they are checked in one run: its variable
`part` says which one moves in a behaviour, and the others stay in an initial state.
`MCComponents` states their assumptions once more as `ComponentsAssumption`, for the
constants it gives them.

Each run checks properties that need the interplay of several steps. The type
invariants `TypeOK` stay in their modules as the base of the proofs, which show them for every
value of the constants.

Why the bounds are enough. Four turns give two evictions, one while an earlier chunk is
queued or in the writer's hands, a turn too large for the budget, and a scan that
has a choice and stops at its limit. Eight clock units are
nearly three minutes: records become stale one by one, all at once, and while
a request is under way; an estimate of 7 never passes and 3 fills the tokens in two
requests. Three nodes include two dependencies finishing at once, a chain, and
independent nodes; three threads let a third take the token two others raced for.
Three branches let one pass, one fall below and one fail, in every order; the arrays
are exactly full when all three pass, and a second run starts from the first one's arrays.
Three turns fill the history past a restore of two rows, with a hole anywhere;
`MaxNotes` bounds `/name`, which costs no turn. Names are interchangeable
(`NameSymmetry`, safety only). Three lines allow a cut inside any line, several lines in one fragment, and lines
after the end mark; a cache of two gets full and refuses. Four slots for three nodes keep the ratio of the code (128 for 64): a ticket never
needs a slot twice. `PoolSymmetry` permutes the pool's threads, which nothing
tells apart; the run that uses it checks safety only.
In `components`, a budget of 4 meets messages that fit exactly, are one short, and do not
fit alone; four reports turn a window of two over twice; three rows of three threads
interleave, with a restart in between; a file of three lines has room for what a failed
wizard left, for the user and for the key that is saved, and of the typed keys one loses its quotes and one is
nothing but quotes; texts of up to five bytes are shorter than,
equal to and longer than the blocks of 2, 3 and 4, with every content of the buffer behind them, and those of
four classes hold every cut of an escape sequence with its terminator.

Fairness. `cm` assumes that the operating system runs both threads: a call the main thread is inside
(`MainWorks`) and the writer's step (`WriterWorks`) are weakly fair. The user is not
fair: `AddMessage`, `Clear`, `LogTurn` and `Flush` need never come. `dag_live` assumes
weak fairness for each thread, that task functions return, and strong fairness of
`TakePos`: a weak compare-exchange does not fail forever without a reason.
Deadlock is checked in every run; a finished session or run stutters in `Over`, and
`RateGovernor` ends at its bound `MaxTime` with `Ask` still possible.

`components` assumes that the operating system runs the two threads of the monitor (`Notify`, `Join`,
`MonitorStep`) and that a probe ends; nothing is assumed of the interval (`Timeout`), so that
`StopReturns` says `stop()` does not wait for it. Deadlock is not checked there: each part
ends at its bound or when its program stops.

`got`, `chat` and `client` check safety only and assume no fairness.

Findings. All four are statements the program prints that the code does not keep; see
`PROJECT.json`. A chunk whose insert fails is counted as persisted; a retry after
the announced time can be denied; "n turns offloaded" is one less than the turns that left; a
key "Saved to .env" is glued to an unterminated last line.

Noticed while modelling, without a run of their own:
- `find_byte_neon` (`src/core/simd_matcher.cpp:402-408`) returns the first lane that does *not* match in a
  block that holds a match. The model has it as it is. `KernelsAgree` asks of that one search only that it finds
  a byte that is in no whole block (`OnlyInTail`), where it is right; x86 builds, the only ones
  the release flags are for, do not contain it.
- A request without a key leaves no timing, and one that ends with an exception neither a timing nor a
  usage row (see APIClient above); the exception also ends the program in the middle of a turn.
- A key typed in quotes is used with them until the program ends and without them from the next start on; after
  a key typed as two quote marks the next start asks again (`src/main.cpp:82`, `src/core/config.cpp:39-44`).
- `--model ""` empties the model's name instead of leaving the configured one (`src/main.cpp:184`).
- MemoryManager binds the strings it has just moved away (`src/memory/memory_manager.cpp:64-68`), so its
  rows of `l2_summaries` hold no text. Nothing in the program uses it.
- Of two keys in a `.env` file the first line wins; the usage text (`src/main.cpp:60-61`) reads as if
  `GROQ_API_KEY` always came first.
- A usage row of more than 512 bytes makes `UsageTracker::record` read behind its buffer.

What the executor's mutants show besides: `RunsOnce` is protected three times over (one
`fetch_or` finds the dependencies complete, the exchange to runnable, the exchange
to running), so no single slip in one of them breaks it; it is left to the
proof and is no property of a run. `completed` only bounds how long threads
spin: the thread that enqueued a node can always take it itself.

## 5. Proofs

The theorems hold for every value of the constants under the modules' named
assumptions: budgets, limits and counts are natural numbers, divisors positive, sums fit
32 bits (`GovernorAssumption`), the ring has a slot for every node (`DagAssumption`), the threshold is above
0.40 (`EngineAssumption`), similarity is symmetric (`ClientAssumption`), what is typed or read is a
string and a typed key is not empty, while what is read back of it may be (`KeyAssumption`), the AVX2 register is no longer than the
AVX-512 one, whose length the tail's buffer has (`TextAssumption`). TLC evaluates all of them in the
runs. That the string in `NoJunk` is a string is an assumption too (`ComponentsAssumption`): the
provers know no string by its letters.

Each module states what every step keeps as `IInv`, at its end; each was checked by TLC
before it was proved. A proof has a lemma per action (or group of actions that
change the same variables), under it a step per conjunct the action disturbs, and one
lemma for a stutter.

**ContextManager.** `IInv` is the conjunction of the safety properties with three
strengthenings. `ThreadsConsistent` ties the flags to the places: for instance
`worker_busy` is set exactly between a pop and the end of the insert, which is what makes
`FlushDrains` inductive, and a writer that got ready exits only with an empty queue, which
makes `ShutdownDrains` so. `IdsBounded` gives the new turn the largest id, for
`WindowInTurnOrder`. `ChunksNumbered` says the queue holds the latest ordinals and the writer
the one before, for the refinement: every step of the two threads maps to `Offer`, `Store`,
`Drop` or a stutter of `EvictionChannel`. `TokenAccounting` rests on what `push_back` and `erase`
do to a sum (`TokensOfAppend`, `TokensOfRemoveAt`).

**Token sums.** `TokensOf` is a recursive function. Induction theorems with an operator
parameter are out of reach of the installed provers, so the lemmas use the least
counterexample instead (`NatLeast`, from the well-foundedness of `<`): prefix counts
exist for every sequence (`PrefixCountsExist`) and any such counts end in `TokensOf`
(`TokensOfIsLast`); the rest follow by exhibiting prefix counts. Other proofs about
what a loop computes go the same way: `HandleTells` and `ReadThroughTells` (lines of a stream),
`MeanBounded` (a sum of confidences), `LoadSteps`, `FirstCounts` and `LastCounts` (lines of a file).

**RateGovernor.** `IInv` adds to the limits that the log is sorted, that the window is the log
without a stale prefix, and that the request under way fits the window it was allowed
on. When a record is made, the record `rpm` places before it was already dropped, hence more
than a minute old (`RpmLimit`); the records of the last minute are a suffix of the
window, whose sum with the request is at most tpm (`TpmLimit`).

`SilenceHeals` needs that an old record cannot survive a prune in a sorted window.

**ContextManager, again.** `EveryTurnInOnePlace` is inductive only beside `IInv`, as `TurnsPlaced`: where
a turn is (window, queue, writer, table, lost, cleared) is a set of places per turn, and
every action either leaves it or moves one turn or one chunk from one place to the next.

`ImplementsSlidingWindow` is the link to ChatSession. With equal importances the scan of `evict_if_needed`
takes the oldest turn (the least important of the first ones, the earliest of equals), so the window and
what was taken out, one behind the other, stay what they were when the message was added
(`ShownWindow`). What the caller sees changes with the step that ends the call, the chunk's hand-over or
an addition that needs no eviction, and that step is `Add`. `EvictionsEnqueued` is the invariant it rests on. TLC agrees on an instance with one
score, which is no run of its own.

**SpeculativeDAG.** No lock protects the executor, so `IInv` says who may do what.
`WorkOwned`: one thread runs a node, one reports it done, and `runs` follows `state`. `DepsTold`: the bit
of a finished dependency is in `deps_seen`, or the thread that finished it still has to put it
there; without that half nothing shows that a node becomes runnable at all. `RingTickets`: there
are never more tickets than nodes that left Pending, so with a slot per node a ticket is its own
slot and the sequence number in it says how far it is; that is the code's choice of 128 slots for
64 nodes, and makes `EnqueueNeverWaits` true. `TokensKept` is the heart of `TokenInOnePlace`: a runnable node
is held by one thread or offered by one ticket. `CountedOnce` and `SweepSound` give `ReturnsComplete` for
the parallel and the serial run: a sweep without progress passed only blocked nodes, and the
least of these would depend on a done one only. `ImplementsDagRun` maps every
step to `Add`, `Start`, `Finish`, `Return` or a stutter. `RunsOnce` and `DepsDoneFirst`, which no
run needs, are theorems too.

**GoTEngine.** A run is known by its answers: `GraphTellsTheAnswers` (node b is branch b's, whatever
the order of the workers), `UsageTellsTheAnswers` and `ScoresTellTheAnswers` tie graph, usage and counters
to the outcomes collected so far; `MergeUnderWay` remembers, once the fallback was decided, which
answers the edges merge and that the aggregate's mean does not exceed the best confidence, the one
arithmetic fact (`MeanBounded`). `RunEnds` lets the next run start without stray workers.

**ChatSession.** `PromptFirst` makes evictions spare the system prompt; `UpToNow`, for the window and
the table, makes what is appended the newest; `TurnUnderWay` says that nothing is cleared between
question and answer. `Adding` lets any number of the oldest messages go, so the lemmas about it
(`AddingShifts`, `AddingKeepsOrder`) are about every suffix behind the prompt. `AddingOneByOne` shows that
one step may stand for the REPL's several calls, as in the restore of the history.

**APIClient.** `BufferTellsTheRest` is the invariant of the fragment loop: between fragments the buffer
is the first half of a line or nothing. `FragmentHolds` shows that it and `ReadIsWhatArrived` survive a
fragment of any length, by induction over the lines the fragment completes. `NothingReturnedYet` says that
while an answer is awaited, and after an exception, there is neither row nor timing; `NothingWithoutKey` that a
client without a key never waits for one, which is why each timing is one request's. `NotInCache` keeps, from the request to the
answer, that no entry was close enough, so the entry appended then is no near
duplicate of one there.

**MemoryManager.** `Numbered` gives the messages their ordinals, so that "staged, then active" is
`added` itself and a row belongs to the message with its id; `AddMessageKeeps` covers a flush that
fails at any row. `TokensOfConcat` accounts for what leaves the window.

**EndpointHealth.** The window is the end of `reports`, element by element, and the counters are its sums;
`ReportKeeps` shows that adding the new sample and taking off the oldest keeps both. `StopUnderMutex` is
why the notify is not lost: the monitor holds the mutex from its test to its sleep, so
`stop_requests` is never set in between. That `stop()` returns is liveness and left to TLC.

**Ledger.** `InOrder` relates what a thread has still to write to what it wrote, which is what a
partial `write()` could break; `HeaderOnTop` is about the one thread that opens the file;
`Unharmed` says that, as long as no row was cut, the file with the main thread's rest
behind it is a header and whole rows.

**KeySetup.** `SavedKeyFirst`: a key saved behind a complete line is the file's first key and
whatever is appended later does not touch it (`AppendKeepsKey`); it holds because the wizard runs only when
no line gives a key (`NoKeyToBeFound`, from `LoadKey`). Both need of a typed key only that it is read back
as something. `SettingsFollowSources` is `LoadSource` for the key, of which the first line counts (`FirstCounts`),
and `LoadSettings` for model and limit, of which the last usable line does (`LastCounts`).

**TextKernels.** A step that reads the end of a text matters only through `SafeFrom`; the weight is
in what the loops compute. `LoopYields` says that a loop which always goes on further on computes
something, and `NoneFurtherOn` replaces induction from the end of the text: a difference between
loop and reference would occur once more further on, for ever. `MatchesAre` shows that masking the
tail's lanes hides `junk`, for every length of text and register; with `FirstFromBlocks` and `CountFromBlocks` (a
search or a count may go on block by block) every kernel is the scalar loop (`SearchesAgree`), except NEON's byte
search, which is so only where its blocks are free of the byte (`NeonByteIs`); `JumpYields` says that its loop,
which need not be the scalar one, computes something. `WordsStep`
takes the tokenizer from one boundary of words to the next. For the terminal, `SafeRun` lets a chunk
without control bytes be copied whole (`SanitizeIs`), and `VisibleGoesOn` puts the pieces of a text
together; the invariant `IInv` is about what was shown so far.

**Pruner.** `CompressesToWords` holds for every text over every alphabet. The four loops are recursive functions;
`StepsExist` and `StepsAgree` show that they are defined and unique, and give the rules the other
lemmas use: what a loop does to a text with one character more (`CollapsedSnoc`, `TokenizedSnoc`,
`WithoutFillersSnoc`). Induction along a text is `SnocInduction`, or `RunInduction` for the pass over punctuation,
which eats whole runs of a mark; both are least counterexamples. Then pass by pass: `TokensKept` (collapsing
blanks leaves the tokens), `SqueezedAgrees` (eating runs is judging each mark by its neighbours,
`Goes`, because `SqueezedConcat` cuts a text where no run crosses), `SplitSquashed` (the pass over the
text is the pass over each of its words, as no run crosses a blank), and `CompressedAgrees` (the reference,
position by position, against the tokens read so far). That compressing twice changes nothing is
`PunctuationTwice` for a word and `StableStays` for the text: what is left are words no pass changes,
one space apart. `TextCompresses` takes the result to `MCComponents`.

**What is only model-checked.** All liveness (`FlushReturns`, `SessionEnds`, `ChunksSettle`, `Terminates`,
`StopReturns`): fairness and ENABLED are out of the prover's reach. Every invariant and every action
property of the passing runs is a theorem.

## 6. Not modelled

Whole components: the vibe table, the workspace reader, the UI and the build scripts (a
constant table, pure I/O, layout); ConnectionManager and request timing (curl calls and
floating-point averages, with their limits in a header that is not in the repository); the
arena allocator (addresses; its users reset it before each use and copy what does not fit).

Parts of modelled components: the floating-point kernels of the matcher and the embedding of
the cache; the rewriting of the system prompt; `secure_erase`; the usage sums and their
summary; options that print and exit; texts, wording and role tags; logging to stderr;
`set_output` of the executor, a second run of one executor object, and weak memory orders; two
programs at once on one database or ledger.
