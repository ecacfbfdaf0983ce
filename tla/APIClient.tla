------------------------------ MODULE APIClient ------------------------------
(***************************************************************************)
(* The client of the hosted model (src/network/api_client.cpp) and its     *)
(* semantic cache (src/memory/simd_cache.cpp).                             *)
(*                                                                         *)
(* A request is answered from the cache or by the server.  A streamed      *)
(* answer is a sequence of lines that arrives in fragments of any size and *)
(* may stop anywhere; on_data puts each fragment into a buffer and handles *)
(* the lines that are whole.  A line is two units, the second of which     *)
(* ends with the newline, so that a fragment can end within a line.        *)
(* The client has a usage tracker, as the one of the REPL does.            *)
(***************************************************************************)
EXTENDS Integers, Sequences, SequencesExt

CONSTANTS Prompts,      \* the last user message of a request
          Keys,         \* the prompts that are short enough to be cached, and not empty
          Similarity,   \* cosine of two prompts' embeddings, in hundredths
          MinHit,       \* kSemanticThreshold, in hundredths
          Capacity,     \* capacity_ of the cache
          MaxResponse,  \* kMaxResponseChars, in pieces
          MaxLines      \* bound: lines of a streamed answer

ASSUME ClientAssumption ==
    /\ Keys \subseteq Prompts
    /\ Similarity \in [Prompts \X Prompts -> 0..100]
    /\ \A p, q \in Prompts : Similarity[<<p, q>>] = Similarity[<<q, p>>]
    /\ MinHit \in 1..100
    /\ Capacity \in Nat \ {0} /\ MaxResponse \in Nat /\ MaxLines \in Nat

VARIABLES
    has_key,   \* config_.groq_api_key is not empty
    pc,        \* "idle", what is awaited ("reply", "stream"), or "thrown"
    request,   \* the request under way or the last one
    script,    \* the lines that the server sends
    received,  \* how many units of them have arrived
    buffer,    \* the units that wait for the end of their line
    read,      \* content, stream_done and the first usage line
    answer,    \* what the last request returned, once it has
    recorded,  \* history: rows given to the usage tracker for this request
    timed,     \* history: timings emitted for this request, each its success flag
    cache      \* pool_[0 .. size_ - 1]

streamVars == <<script, received, buffer, read>>
vars == <<has_key, pc, request, streamVars, answer, recorded, timed, cache>>

(* A line carries a piece of the answer, the usage, a usage with a figure  *)
(* that is no number, the end mark, or none of these: not JSON, no         *)
(* choices, an empty piece, a comment.                                     *)
LineKind == {"piece", "usage", "oddusage", "done", "noise"}
UsageKind == {"usage", "oddusage"}
Scripts  == BoundedSeq(LineKind, MaxLines)
Kinds    == {"stream", "completion", "plain"}

Returned(ok, text) == <<[ok |-> ok, text |-> text]>>
(* Nothing read yet. *)
Nothing == [content |-> <<>>, done |-> FALSE, usage |-> 0]

Unit(k) == <<(k + 1) \div 2, IF k % 2 = 1 THEN "head" ELSE "end">>

-----------------------------------------------------------------------------
(* The cache *)

Closeness(p, i) == Similarity[<<p, cache[i].prompt>>]

(* Mutant: an entry exactly at the threshold is not a hit. *)
HitsStrictly(p) ==
    {i \in DOMAIN cache :
        /\ Closeness(p, i) > MinHit
        /\ \A j \in DOMAIN cache : Closeness(p, j) <= Closeness(p, i)
        /\ \A j \in 1..(i - 1) : Closeness(p, j) < Closeness(p, i)}

(* lookup: the first of the closest entries, if it is close enough. *)
Hits(p) ==
    {i \in DOMAIN cache :
        /\ Closeness(p, i) >= MinHit
        /\ \A j \in DOMAIN cache : Closeness(p, j) <= Closeness(p, i)
        /\ \A j \in 1..(i - 1) : Closeness(p, j) < Closeness(p, i)}

(* Plain requests, long prompts and empty ones pass the cache by. *)
Cacheable(kind, p) == kind # "plain" /\ p \in Keys

(* store: a full cache refuses. *)
Store(p, text) ==
    IF Len(cache) < Capacity
    THEN cache' = Append(cache, [prompt |-> p, response |-> text])
    ELSE UNCHANGED cache

Keep(text) ==
    IF Cacheable(request.kind, request.prompt) /\ Len(text) <= MaxResponse
    THEN Store(request.prompt, text)
    ELSE UNCHANGED cache

-----------------------------------------------------------------------------
(* The lines of a stream *)

(* What on_data does with line i, having read r. *)
Handle(r, i) ==
    CASE r.done -> r
      [] ~ r.done /\ script[i] = "piece" -> [r EXCEPT !.content = Append(@, i)]
      [] ~ r.done /\ script[i] \in UsageKind -> [r EXCEPT !.usage = IF @ = 0 THEN i ELSE @]
      [] ~ r.done /\ script[i] = "done"  -> [r EXCEPT !.done = TRUE]
      [] ~ r.done /\ script[i] = "noise" -> r

(* Unit k of the buffer b ends a line that is in b from its head on; a line *)
(* without its head is not "data:" and is skipped.                         *)
EndsLine(b, k) == b[k][2] = "end" /\ k > 1 /\ b[k - 1] = <<b[k][1], "head">>

(* What has been read when the whole lines of the buffer b are handled.    *)
ReadThrough(b) ==
    LET upTo[k \in 0..Len(b)] ==
            IF k = 0 THEN read
            ELSE IF EndsLine(b, k) THEN Handle(upTo[k - 1], b[k][1]) ELSE upTo[k - 1]
    IN  upTo[Len(b)]

Ends(b) == {k \in DOMAIN b : b[k][2] = "end"}

(* Mutant: the buffer is emptied with the last whole line. *)
RestDropped(b) == <<>>

(* What stays in the buffer: what follows the last newline. *)
Rest(b) ==
    IF Ends(b) = {} THEN b ELSE SubSeq(b, Max(Ends(b)) + 1, Len(b))

-----------------------------------------------------------------------------
Init ==
    /\ has_key \in BOOLEAN
    /\ pc = "idle"
    /\ request \in [kind : {"plain"}, prompt : Prompts]
    /\ script = <<>> /\ received = 0 /\ buffer = <<>> /\ read = Nothing
    /\ answer = <<>> /\ recorded = 0 /\ timed = <<>>
    /\ cache = <<>>

(* A request whose prompt is close to a cached one is answered at once,     *)
(* with a usage row of zeros.  Only a streamed one asks for the key first. *)
AskHit ==
    /\ pc = "idle"
    /\ \E kind \in Kinds, p \in Prompts :
         /\ kind = "stream" => has_key
         /\ request' = [kind |-> kind, prompt |-> p]
         /\ Cacheable(kind, p)
         /\ \E i \in Hits(p) : answer' = Returned(TRUE, cache[i].response)
    /\ recorded' = 1 /\ timed' = <<TRUE>>
    /\ UNCHANGED <<has_key, pc, streamVars, cache>>

(* Without a key nothing is sent, and the request fails with no timing.     *)
AskWithoutKey ==
    /\ pc = "idle" /\ ~ has_key
    /\ \E kind \in Kinds, p \in Prompts :
         /\ request' = [kind |-> kind, prompt |-> p]
         /\ kind # "stream" /\ Cacheable(kind, p) => Hits(p) = {}
    /\ answer' = Returned(FALSE, <<>>) /\ recorded' = 0 /\ timed' = <<>>
    /\ UNCHANGED <<has_key, pc, streamVars, cache>>

(* Any other request is sent. *)
AskServer ==
    /\ pc = "idle" /\ has_key
    /\ \E kind \in Kinds, p \in Prompts :
         /\ request' = [kind |-> kind, prompt |-> p]
         /\ Cacheable(kind, p) => Hits(p) = {}
         /\ IF kind = "stream" THEN pc' = "stream" /\ script' \in Scripts
                               ELSE pc' = "reply" /\ script' = <<>>
    /\ received' = 0 /\ buffer' = <<>> /\ read' = Nothing
    /\ answer' = <<>> /\ recorded' = 0 /\ timed' = <<>>
    /\ UNCHANGED <<has_key, cache>>

(* post_and_extract: no connection, another status than 200, or a body     *)
(* that is not JSON, has no answer, or has a usage figure that is no       *)
(* number; json::exception is caught there, before any row is written.     *)
ReplyFails ==
    /\ pc = "reply"
    /\ pc' = "idle"
    /\ answer' = Returned(FALSE, <<>>) /\ timed' = <<FALSE>>
    /\ UNCHANGED <<has_key, request, streamVars, recorded, cache>>

Reply ==
    /\ pc = "reply"
    /\ \E text \in {<<>>, <<1>>, <<1, 2, 3>>} : answer' = Returned(TRUE, text) /\ Keep(text)
    /\ pc' = "idle"
    /\ recorded' = 1 /\ timed' = <<TRUE>>
    /\ UNCHANGED <<has_key, request, streamVars>>

(* on_data: a fragment of n units arrives. *)
Receive(n) ==
    /\ pc = "stream"
    /\ received + n <= 2 * Len(script)
    /\ received' = received + n
    /\ LET b == buffer \o [k \in 1..n |-> Unit(received + k)]
       IN  /\ read' = ReadThrough(b)
           /\ buffer' = Rest(b)
    /\ UNCHANGED <<has_key, pc, request, script, answer, recorded, timed, cache>>

(* The locals of a streamed request, before and after it. *)
NoStream == script' = <<>> /\ received' = 0 /\ buffer' = <<>> /\ read' = Nothing

HasAnswer == read.done \/ read.content # <<>>

(* Mutant: the content is stored before the errors are looked at. *)
StreamFailsCached ==
    /\ pc = "stream"
    /\ pc' = "idle"
    /\ answer' = Returned(FALSE, <<>>) /\ timed' = <<FALSE>>
    /\ Keep(read.content)
    /\ NoStream
    /\ UNCHANGED <<has_key, request, recorded>>

(* The connection broke, or the status was not 200, or the stream ended    *)
(* with nothing: what was received is not returned.                        *)
StreamFails ==
    /\ pc = "stream"
    /\ pc' = "idle"
    /\ answer' = Returned(FALSE, <<>>) /\ timed' = <<FALSE>>
    /\ NoStream
    /\ UNCHANGED <<has_key, request, recorded, cache>>

(* Mutant: usage is recorded by the line that brought it as well. *)
RowsTwice(r) == IF r.usage # 0 THEN 2 ELSE 1

(* One usage row: the server's figures, or an estimate without them. *)
Rows(r) == 1

(* The usage that was read, if any, can be counted. *)
Countable(r) == r.usage \notin {i \in DOMAIN script : script[i] = "oddusage"}

(* The stream ended with its end mark, or early with part of the answer.   *)
StreamEnds ==
    /\ pc = "stream"
    /\ HasAnswer /\ Countable(read)
    /\ pc' = "idle"
    /\ answer' = Returned(TRUE, read.content)
    /\ recorded' = recorded + Rows(read) /\ timed' = <<TRUE>>
    /\ Keep(read.content)
    /\ NoStream
    /\ UNCHANGED <<has_key, request>>

(* An exception leaves the request: its messages are not UTF-8 and cannot   *)
(* be written as JSON, a number of the answer is too large for the parser   *)
(* (only parse_error is caught), or the usage of a stream that was received *)
(* cannot be counted (record throws before it writes).  main catches none.  *)
Throws ==
    /\ pc \in {"reply", "stream"}
    /\ pc' = "thrown"
    /\ NoStream
    /\ UNCHANGED <<has_key, request, answer, recorded, timed, cache>>

Over == pc = "thrown" /\ UNCHANGED vars

Next == AskHit \/ AskWithoutKey \/ AskServer \/ ReplyFails \/ Reply
        \/ (\E n \in 1..(2 * MaxLines) : Receive(n)) \/ StreamFails \/ StreamEnds
        \/ Throws \/ Over

Spec == Init /\ [][Next]_vars

-----------------------------------------------------------------------------
ReadType == [content : Seq(Nat), done : BOOLEAN, usage : Nat]
Answers  == [ok : BOOLEAN, text : Seq(Nat)]
Entries  == [prompt : Keys, response : Seq(Nat)]

TypeOK ==
    /\ has_key \in BOOLEAN
    /\ pc \in {"idle", "reply", "stream", "thrown"}
    /\ request \in [kind : Kinds, prompt : Prompts]
    /\ script \in Seq(LineKind) /\ received \in 0..(2 * Len(script))
    /\ buffer \in Seq((1..Len(script)) \X {"head", "end"})
    /\ read \in ReadType
    /\ answer \in Seq(Answers) /\ Len(answer) <= 1
    /\ recorded \in 0..1
    /\ timed \in Seq(BOOLEAN)
    /\ cache \in Seq(Entries) /\ Len(cache) <= Capacity

(* s is the set S in increasing order. *)
InOrder(s, S) ==
    /\ \A i, j \in DOMAIN s : i < j => s[i] < s[j]
    /\ {s[i] : i \in DOMAIN s} = S

(* The lines of some kinds among the first n, as far as they are read. *)
Sent(kinds, n) ==
    {i \in 1..n : script[i] \in kinds /\ \A j \in 1..(i - 1) : script[j] # "done"}

(* r is what the first n lines say. *)
Tells(r, n) ==
    /\ InOrder(r.content, Sent({"piece"}, n))
    /\ r.done = (\E i \in 1..n : script[i] = "done")
    /\ IF r.usage = 0 THEN Sent(UsageKind, n) = {}
       ELSE r.usage \in Sent(UsageKind, n) /\ \A i \in Sent(UsageKind, n) : r.usage <= i

(* However the bytes are cut into fragments, what has been read is what the *)
(* lines that have arrived whole say, up to the end mark: their pieces, in  *)
(* order, each once, and the first usage.                                  *)
ReadIsWhatArrived == pc = "stream" => Tells(read, received \div 2)

(* A request that returns has written one usage row exactly if it           *)
(* succeeded, and emitted one timing, whose flag is the outcome; only one   *)
(* refused for want of a key emits none.  A request that ends with an       *)
(* exception returns nothing and is in neither ledger, not even when its    *)
(* answer was received and shown.                                          *)
EveryRequestAccounted ==
    /\ pc = "idle" /\ answer # <<>> =>
        /\ recorded = IF answer[1].ok THEN 1 ELSE 0
        /\ timed = IF has_key THEN <<answer[1].ok>> ELSE <<>>
    /\ pc = "thrown" => answer = <<>> /\ recorded = 0 /\ timed = <<>>

(* An entry of the cache is a response that was returned to the user for    *)
(* that prompt, and stays as it is: a failed request leaves none.          *)
CacheKeepsAnswers ==
    [][cache' # cache =>
        /\ answer'[1].ok
        /\ cache' = Append(cache, [prompt |-> request.prompt, response |-> answer'[1].text])]_vars

(* No two entries are close enough to answer for each other, so which of   *)
(* them the scan finds first does not matter; the exceptions are prompts   *)
(* without a word, whose embedding is zero and is close to nothing.        *)
NoNearDuplicates ==
    \A i, j \in DOMAIN cache :
        i # j => Similarity[<<cache[i].prompt, cache[j].prompt>>] < MinHit

-----------------------------------------------------------------------------
(* The inductive invariant behind these.                                   *)

(* Nothing is returned or accounted for while an answer is awaited. *)
NothingReturnedYet == pc # "idle" => answer = <<>> /\ recorded = 0 /\ timed = <<>>

(* Without a key nothing is sent, and so nothing is cached. *)
NothingWithoutKey == ~ has_key => pc = "idle" /\ cache = <<>>

(* A request that was sent had no hit, and the cache is still the same. *)
NotInCache ==
    pc # "idle" /\ Cacheable(request.kind, request.prompt) =>
        \A i \in DOMAIN cache : Closeness(request.prompt, i) < MinHit

(* The buffer has the first half of a line, if that is where the stream is. *)
BufferTellsTheRest ==
    pc = "stream" => buffer = IF received % 2 = 1 THEN <<Unit(received)>> ELSE <<>>

IInv ==
    /\ TypeOK /\ NothingReturnedYet /\ NothingWithoutKey /\ NotInCache /\ BufferTellsTheRest
    /\ ReadIsWhatArrived /\ EveryRequestAccounted /\ NoNearDuplicates
=============================================================================
