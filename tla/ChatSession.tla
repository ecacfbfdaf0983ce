----------------------------- MODULE ChatSession -----------------------------
(***************************************************************************)
(* The conversation as the user sees it, over several sessions             *)
(* (src/main.cpp with src/storage/db_client.cpp).                          *)
(*                                                                         *)
(* A session shows a window of messages to the model and logs what is said *)
(* to the table chat_history; the next session restores its window from    *)
(* the last rows.  Every database call may fail, the request may fail, and *)
(* the process may end at any moment: the window goes, the database stays. *)
(*                                                                         *)
(* The window is ContextManager's, reduced to what the REPL sees: all      *)
(* messages of a session have the default importance, so an eviction takes *)
(* the oldest messages after the system prompt, as many as the sizes ask   *)
(* for, here any number (SlidingWindow).  RateGovernor decides whether a   *)
(* request is made; a refused one changes nothing here.                    *)
(***************************************************************************)
EXTENDS Integers, Sequences, SequencesExt

CONSTANTS HistoryLimit,  \* kHistoryLimit
          Names,         \* names a user may choose
          MaxTurns,      \* bound: turns over all sessions
          MaxNotes       \* bound: /name is used with fewer identity notes in the window

ASSUME SessionAssumption ==
    /\ HistoryLimit \in Nat \ {0}
    /\ "" \notin Names
    /\ MaxTurns \in Nat /\ MaxNotes \in Nat

VARIABLES
    phase,        \* "off", "repl", or what request is under way: "chat", "got"
    db_open,      \* identity_db.is_open() in this session
    window,       \* the messages of ContextManager
    user_name,    \* user_name; "" when anonymous
    report,       \* the "turns offloaded" report of the turn under way, if any
    rows,         \* the table chat_history
    stored_name,  \* the value of user_name in the table user_config; "": none
    turns,        \* history: turns so far, which is also the last turn's id
    unlogged,     \* history: the messages whose log failed
    wiped,        \* history: turns when the history was last reported wiped
    forgotten     \* history: turns when /clear last reported success

dbVars == <<rows, stored_name>>
vars == <<phase, db_open, window, user_name, report, turns, unlogged, wiped, forgotten,
          dbVars>>

Message == [role : {"user", "assistant"}, turn : 1..MaxTurns]
Note    == [role : {"prompt", "git"}] \cup [role : {"identity"}, name : Names]

SystemPrompt == [role |-> "prompt"]
GitNote      == [role |-> "git"]
IdentityNote(n) == IF n = "" THEN <<>> ELSE <<[role |-> "identity", name |-> n]>>

-----------------------------------------------------------------------------
Sliding == INSTANCE SlidingWindow
           WITH Prompt <- SystemPrompt, Messages <- Message \cup Note, shown <- window

(* The windows that adding the messages ms one by one can leave: the prompt *)
(* stays, the oldest of the others may have been evicted.                  *)
Adding(w, ms) == Sliding!Adding(w, ms)

(* Mutant: the rows as the query returns them, newest first. *)
NewestFirst ==
    Reverse(SubSeq(rows, IF Len(rows) > HistoryLimit THEN Len(rows) - HistoryLimit + 1 ELSE 1,
                   Len(rows)))

(* get_recent_history: the last rows, oldest first. *)
RecentHistory ==
    SubSeq(rows, IF Len(rows) > HistoryLimit THEN Len(rows) - HistoryLimit + 1 ELSE 1,
           Len(rows))

(* Mutant: answers of /got are not logged. *)
LogChatOnly(m) ==
    IF phase = "got" THEN UNCHANGED <<rows, unlogged>>
    ELSE \/ db_open /\ rows' = Append(rows, m) /\ UNCHANGED unlogged
         \/ unlogged' = unlogged \cup {m} /\ UNCHANGED rows

(* log_message fails when the database is not open or refuses the row. *)
Log(m) ==
    \/ db_open /\ rows' = Append(rows, m) /\ UNCHANGED unlogged
    \/ unlogged' = unlogged \cup {m} /\ UNCHANGED rows

Store(n) == stored_name' = n

Init ==
    /\ phase = "off"
    /\ db_open = FALSE
    /\ window = <<>>
    /\ user_name = ""
    /\ report = <<>>
    /\ rows = <<>>
    /\ stored_name = ""
    /\ turns = 0
    /\ unlogged = {}
    /\ wiped = 0 /\ forgotten = 0

-----------------------------------------------------------------------------
(* The name of a new session: the stored one; the one the user gives when   *)
(* there is none or it could not be read, if it could be saved; or none.   *)
Identify ==
    \/ user_name' = "" /\ UNCHANGED stored_name
    \/ db_open' /\ user_name' = stored_name /\ UNCHANGED stored_name
    \/ db_open' /\ \E n \in Names : user_name' = n /\ Store(n)

(* What a new session adds to the system prompt, in this order; the history *)
(* and the workspace may be absent.                                        *)
Opening(history, git) == IdentityNote(user_name') \o history \o git

Start ==
    /\ phase = "off"
    /\ db_open' \in BOOLEAN
    /\ Identify
    /\ \E history \in {<<>>} \cup (IF db_open' THEN {RecentHistory} ELSE {}),
          git \in {<<>>, <<GitNote>>} :
         window' \in Adding(<<SystemPrompt>>, Opening(history, git))
    /\ phase' = "repl"
    /\ report' = <<>>
    /\ UNCHANGED <<rows, turns, unlogged, wiped, forgotten>>

(* The session ends, by a command or by a crash in the middle of anything. *)
Stop ==
    /\ phase # "off"
    /\ phase' = "off"
    /\ db_open' = FALSE /\ window' = <<>> /\ user_name' = "" /\ report' = <<>>
    /\ UNCHANGED <<turns, unlogged, wiped, forgotten, dbVars>>

(* message_count() before the turn, compared with message_count() after:   *)
(* the number of "turns offloaded to L3", printed when it is positive.     *)
OffloadReport(before, after) ==
    IF after < before
    THEN <<[offloaded |-> before - after, evicted |-> before + 1 - after]>>
    ELSE <<>>

(* A chat turn: into the window, into the log, and off to the model. *)
Chat ==
    /\ phase = "repl" /\ turns < MaxTurns
    /\ turns' = turns + 1
    /\ LET m == [role |-> "user", turn |-> turns']
       IN  window' \in Adding(window, <<m>>) /\ Log(m)
    /\ report' = OffloadReport(Len(window), Len(window'))
    /\ phase' = "chat"
    /\ UNCHANGED <<db_open, user_name, wiped, forgotten, stored_name>>

(* /got: the prompt is neither added nor logged. *)
Got ==
    /\ phase = "repl" /\ turns < MaxTurns
    /\ turns' = turns + 1
    /\ phase' = "got"
    /\ UNCHANGED <<db_open, window, user_name, report, unlogged, wiped, forgotten, dbVars>>

Answered ==
    /\ phase \in {"chat", "got"}
    /\ LET m == [role |-> "assistant", turn |-> turns]
       IN  window' \in Adding(window, <<m>>) /\ Log(m)
    /\ phase' = "repl"
    /\ report' = <<>>
    /\ UNCHANGED <<db_open, user_name, turns, wiped, forgotten, stored_name>>

(* The request failed; a chat turn keeps the user's message. *)
RequestFails ==
    /\ phase \in {"chat", "got"}
    /\ phase' = "repl"
    /\ report' = <<>>
    /\ UNCHANGED <<db_open, window, user_name, turns, unlogged, wiped, forgotten, dbVars>>

(* Mutant: either success is reported as success. *)
ReportsEither(cleared, wipe) == cleared \/ wipe

(* "conversation + chat history cleared" against "clear failed". *)
ReportsCleared(cleared, wipe) == cleared /\ wipe

(* /clear resets the window, which always succeeds, then wipes the table. *)
Clear ==
    /\ phase = "repl"
    /\ window' = <<SystemPrompt>>
    /\ \E wipe \in IF db_open THEN BOOLEAN ELSE {FALSE} :
         /\ rows' = IF wipe THEN <<>> ELSE rows
         /\ wiped' = IF wipe THEN turns ELSE wiped
         /\ forgotten' = IF ReportsCleared(TRUE, wipe) THEN turns ELSE forgotten
    /\ UNCHANGED <<phase, db_open, user_name, report, turns, unlogged, stored_name>>

(* /clear-history wipes the table only. *)
ClearHistory ==
    /\ phase = "repl" /\ db_open
    /\ rows' = <<>> /\ wiped' = turns
    /\ UNCHANGED <<phase, db_open, window, user_name, report, turns, unlogged, forgotten,
                   stored_name>>

IdentityNotes(w) == SelectSeq(w, LAMBDA m : m.role = "identity")

(* Mutant: the model is not told. *)
NoNote(n) == <<>>

(* "Note: the user's name changed to ..." *)
RefreshNote(n) == IdentityNote(n)

(* /name <name>: the database refuses the name, nothing changes. *)
NameRefused(n) == UNCHANGED vars

(* The name is saved, used and told to the model. *)
NameSaved(n) ==
    /\ Store(n)
    /\ user_name' = n
    /\ window' \in Adding(window, RefreshNote(n))
    /\ UNCHANGED <<phase, db_open, report, rows, turns, unlogged, wiped, forgotten>>

Name ==
    /\ phase = "repl" /\ db_open /\ Len(IdentityNotes(window)) < MaxNotes
    /\ \E n \in Names : NameRefused(n) \/ NameSaved(n)

(* Another process of the program runs with --set-name. *)
SetName ==
    /\ \E n \in Names : Store(n)
    /\ UNCHANGED <<phase, db_open, window, user_name, report, rows, turns, unlogged, wiped,
                   forgotten>>

Next == Start \/ Stop \/ Chat \/ Got \/ Answered \/ RequestFails \/ Clear \/ ClearHistory
        \/ Name \/ SetName

Spec == Init /\ [][Next]_vars

-----------------------------------------------------------------------------
Entry == Message \cup Note

TypeOK ==
    /\ phase \in {"off", "repl", "chat", "got"}
    /\ db_open \in BOOLEAN
    /\ window \in Seq(Entry)
    /\ user_name \in Names \cup {""} /\ stored_name \in Names \cup {""}
    /\ rows \in Seq(Message)
    /\ turns \in 0..MaxTurns /\ wiped \in 0..turns /\ forgotten \in 0..wiped
    /\ unlogged \subseteq Message

IsMessage(m)  == m.role \in {"user", "assistant"}
IsIdentity(m) == m.role = "identity"

Precedes(m, n) ==
    m.turn < n.turn \/ (m.turn = n.turn /\ m.role = "user" /\ n.role = "assistant")

(* The messages in s, whatever notes are between them, are in order. *)
Ordered(s) ==
    \A i, j \in DOMAIN s :
        i < j /\ IsMessage(s[i]) /\ IsMessage(s[j]) => Precedes(s[i], s[j])

(* Over any number of sessions, what the model is shown and what is stored  *)
(* are in the order of the conversation and hold no message twice: a       *)
(* restored message is not logged again, the newest-first query is turned  *)
(* round, and failures leave holes, never a disorder.                      *)
ConversationOrdered == Ordered(window) /\ Ordered(rows)

After(s, turn) == \A i \in DOMAIN s : IsMessage(s[i]) => s[i].turn > turn

(* Once a clearing was reported, the earlier turns never come back, neither *)
(* in this session nor by a restore in a later one.  A /clear whose wipe   *)
(* fails may promise nothing: the next session restores what it removed.   *)
ClearedStaysCleared == After(rows, wiped) /\ After(window, forgotten)

Stored(m) == \E j \in DOMAIN rows : rows[j] = m

(* Every message the model is shown is stored as well, unless its log       *)
(* failed or the history was wiped since: chat, /got and restore agree.    *)
TranscriptComplete ==
    \A i \in DOMAIN window :
        IsMessage(window[i]) /\ window[i].turn > wiped =>
            window[i] \in unlogged \/ Stored(window[i])

(* Of the identity notes in the window, the last one has the name that the  *)
(* session shows: evictions take older notes first, and a rename is told   *)
(* to the model.                                                           *)
NotesAreCurrent ==
    \A i \in DOMAIN window :
        IsIdentity(window[i]) /\ (\A j \in (i + 1)..Len(window) : ~ IsIdentity(window[j]))
            => window[i].name = user_name

(* The REPL prints "<n> turns offloaded to L3"; n is the number of turns    *)
(* that left the window.                                                   *)
OffloadReportExact == \A i \in DOMAIN report : report[i].offloaded = report[i].evicted

-----------------------------------------------------------------------------
(* The inductive invariant behind the first four.                          *)

(* The system prompt is the window's first entry, always. *)
PromptFirst ==
    IF phase = "off" THEN window = <<>> ELSE Len(window) > 0 /\ window[1] = SystemPrompt

(* Nothing in s is newer than the turn under way, nor an answer to it. *)
UpToNow(s) ==
    \A i \in DOMAIN s : IsMessage(s[i]) =>
        /\ s[i].turn <= turns
        /\ phase \in {"chat", "got"} /\ s[i].turn = turns => s[i].role = "user"

(* Nothing was cleared during the turn under way. *)
TurnUnderWay == phase \in {"chat", "got"} => wiped < turns

IInv ==
    /\ TypeOK /\ PromptFirst /\ UpToNow(window) /\ UpToNow(rows) /\ TurnUnderWay
    /\ ConversationOrdered /\ ClearedStaysCleared /\ TranscriptComplete /\ NotesAreCurrent
=============================================================================
