---------------------------- MODULE MemoryManager ----------------------------
(***************************************************************************)
(* The second memory of the repository (src/memory/memory_manager.cpp) and *)
(* the session that drives it (src/engine/agent.cpp): built and linked,    *)
(* but not used by main.                                                   *)
(*                                                                         *)
(* It evicts the oldest messages into a staging buffer and inserts them    *)
(* into l2_summaries at once, on the calling thread.  Each INSERT may fail; *)
(* the rows before it stay, the ones after it are never tried again.       *)
(***************************************************************************)
EXTENDS Integers, Sequences, SequencesExt, FiniteSetsExt, TokenSum

CONSTANTS MaxTokens,     \* config_.max_l1_tokens
          TokenCounts,   \* token counts a message may have
          MaxMessages    \* bound: messages added in a session

MemoryAssumption ==
    /\ MaxTokens \in Nat
    /\ TokenCounts \subseteq Nat
    /\ MaxMessages \in Nat

VARIABLES
    active,    \* active_buffer_
    staging,   \* staging_buffer_
    tokens,    \* current_l1_tokens_
    rows,      \* the rows of l2_summaries, in insertion order
    phase,     \* where the agent is
    left,      \* messages of the stored history still to restore
    added,     \* history: every message added, in order
    unsaved    \* history: ids evicted by a flush that reported a failure

bufferVars == <<active, staging, tokens, rows, added, unsaved>>
vars == <<bufferVars, phase, left>>

Message == [id : Nat, role : {"system", "user", "assistant"}, tokens : Nat]

(* The text a row got: that of the message id, or none. *)
Row == [id : Nat, text : {"whole", "empty"}]

-----------------------------------------------------------------------------
(* 0.85 of the budget, converted to size_t (truncated; the rounding of the  *)
(* floating-point product is left out).                                    *)
Budget == (17 * MaxTokens) \div 20

FitsBelow(n) == n < Budget

Fits(n) == n <= Budget

(* How many of the oldest messages of w, with n tokens, the loop evicts. *)
EvictCount(w, n) == Min({k \in 0..Len(w) : Fits(n - TokensOf(SubSeq(w, 1, k)))})

StagedLater(gone, saved) == IF saved = Len(gone) THEN staging \o gone ELSE staging

(* Every evicted message is staged, whatever becomes of its row. *)
Staged(gone, saved) == staging \o gone

(* What a row holds of m: the messages were moved to the staging buffer      *)
(* before, and a string that was moved from is empty.                       *)
RowOf(m) == [id |-> m.id, text |-> "empty"]

(* add_message(m) with the flush it may cause.  saved is the number of rows  *)
(* that could be inserted; a failure is reported to the caller.             *)
AddMessage(m, saved) ==
    LET now  == Append(active, m)
        n    == tokens + m.tokens
        k    == EvictCount(now, n)
        gone == SubSeq(now, 1, k)
    IN  /\ added' = Append(added, m)
        /\ active' = SubSeq(now, k + 1, Len(now))
        /\ tokens' = n - TokensOf(gone)
        /\ saved \in 0..k
        /\ staging' = Staged(gone, saved)
        /\ rows' = rows \o [i \in 1..saved |-> RowOf(gone[i])]
        /\ unsaved' = IF saved = k THEN unsaved ELSE unsaved \cup {g.id : g \in ToSet(gone)}

Reported == unsaved' # unsaved

NewMessage(role, t) == [id |-> Len(added) + 1, role |-> role, tokens |-> t]

Add(role) ==
    /\ Len(added) < MaxMessages
    /\ \E t \in TokenCounts, saved \in 0..MaxMessages : AddMessage(NewMessage(role, t), saved)

-----------------------------------------------------------------------------
Init ==
    /\ active = <<>> /\ staging = <<>> /\ tokens = 0
    /\ rows = <<>> /\ added = <<>> /\ unsaved = {}
    /\ phase = "restoring"
    /\ left \in 0..MaxMessages

(* init(): the schema cannot be created. *)
NoSchema == phase = "restoring" /\ added = <<>> /\ phase' = "stopped" /\ UNCHANGED <<bufferVars, left>>

(* init() adds one row of the stored history; a failure ends the restoring.  *)
RestoreOne ==
    /\ phase = "restoring" /\ left > 0
    /\ \E role \in {"user", "assistant"} : Add(role)
    /\ left' = IF Reported THEN 0 ELSE left - 1
    /\ UNCHANGED phase

(* init() adds the system prompt last; a failure ends the agent. *)
SeedPrompt ==
    /\ phase = "restoring" /\ left = 0
    /\ Add("system")
    /\ phase' = IF Reported THEN "stopped" ELSE "reading"
    /\ UNCHANGED left

(* run_repl: a line is read and added; if that fails it is not sent. *)
ReadLine ==
    /\ phase = "reading"
    /\ Add("user")
    /\ phase' = IF Reported THEN "reading" ELSE "asking"
    /\ UNCHANGED left

(* run_repl: the request failed. *)
NoAnswer == phase = "asking" /\ phase' = "reading" /\ UNCHANGED <<bufferVars, left>>

(* run_repl: the answer is shown and added; a failure is only printed. *)
Answered ==
    /\ phase = "asking"
    /\ Add("assistant")
    /\ phase' = "reading"
    /\ UNCHANGED left

(* run_repl: "exit", "quit" or the end of the input. *)
Quit == phase = "reading" /\ phase' = "stopped" /\ UNCHANGED <<bufferVars, left>>

Next ==
    \/ NoSchema \/ RestoreOne \/ SeedPrompt
    \/ ReadLine \/ NoAnswer \/ Answered \/ Quit

Spec == Init /\ [][Next]_vars

-----------------------------------------------------------------------------
TypeOK ==
    /\ active \in Seq(Message) /\ staging \in Seq(Message) /\ added \in Seq(Message)
    /\ tokens \in Nat
    /\ rows \in Seq(Row)
    /\ phase \in {"restoring", "reading", "asking", "stopped"}
    /\ left \in 0..MaxMessages
    /\ unsaved \subseteq Nat

Staging == {staging[i].id : i \in DOMAIN staging}

(* Every message added is in the staging or in the active buffer, once and   *)
(* in order; the counter is the active buffer's and within the budget after *)
(* every call, failed ones too; and a staged message has its one row, in    *)
(* order, unless the caller was told of a failure.                          *)
MessagesInOnePlace ==
    /\ staging \o active = added
    /\ tokens = TokensOf(active)
    /\ tokens <= Budget
    /\ \A i, j \in DOMAIN rows : i < j => rows[i].id < rows[j].id
    /\ LET saved == {rows[i].id : i \in DOMAIN rows}
       IN  saved \subseteq Staging /\ Staging \ saved \subseteq unsaved

(* A request ends with the line just typed and is never empty, unless that  *)
(* line alone is above the budget.                                          *)
AsksTheQuestion ==
    phase = "asking" =>
        \/ Last(added).tokens > Budget
        \/ active # <<>> /\ Last(active) = Last(added) /\ Last(added).role = "user"

-----------------------------------------------------------------------------
(* The inductive invariant behind these.                                   *)

(* A message's id is its number, so a new one is in no row yet. *)
Numbered == \A i \in DOMAIN added : added[i].id = i

IInv == TypeOK /\ Numbered /\ MessagesInOnePlace /\ AsksTheQuestion
=============================================================================
