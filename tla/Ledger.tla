------------------------------- MODULE Ledger -------------------------------
(***************************************************************************)
(* The two CSV ledgers: timing.csv (src/net/timing_log.cpp), to which the  *)
(* requests of several graph-of-thoughts branches append without a lock,   *)
(* and the usage ledger (src/telemetry/usage_tracker.cpp over              *)
(* mmap_logger.cpp), to which the main thread alone appends.               *)
(*                                                                         *)
(* The file is opened with O_APPEND, so a write puts its bytes at the end   *)
(* whoever wrote before.  A row is two units: write() may take one or both, *)
(* be interrupted, or fail.  The program may stop anywhere and be started   *)
(* again on the file it left.                                              *)
(***************************************************************************)
EXTENDS Integers, Sequences

CONSTANTS Threads, Main,   \* threads that make requests
          MaxRows,         \* bound: rows recorded over all sessions
          MaxSessions      \* bound: starts of the program

LedgerAssumption == Main \in Threads /\ MaxRows \in Nat /\ MaxSessions \in Nat

VARIABLES
    kind,      \* "timing" or "usage"
    file,      \* the units in the file
    todo,      \* what each thread's append() still has to write
    session,   \* "off", "header" (in the constructor), "open", "failed" (fd_ < 0)
    sessions,  \* starts so far
    recorded,  \* rows recorded so far
    harmed     \* history: a row was cut short, or may have another inside it

vars == <<kind, file, todo, session, sessions, recorded, harmed>>

Unit(row, by, part) == [row |-> row, by |-> by, part |-> part]
Row(row, by) == <<Unit(row, by, 1), Unit(row, by, 2)>>
Header == Row(0, Main)

Units == [row : Nat, by : Threads, part : {1, 2}]

TypeOK ==
    /\ kind \in {"timing", "usage"}
    /\ file \in Seq(Units) /\ todo \in [Threads -> Seq(Units)]
    /\ session \in {"off", "header", "open", "failed"}
    /\ sessions \in Nat /\ recorded \in Nat /\ harmed \in BOOLEAN

-----------------------------------------------------------------------------
Init ==
    /\ kind \in {"timing", "usage"}
    /\ file = <<>> /\ todo = [t \in Threads |-> <<>>]
    /\ session = "off" /\ sessions = 0 /\ recorded = 0 /\ harmed = FALSE

EverySession == TRUE

(* The header is written into an empty file only: st_size or write_offset_. *)
NeedsHeader == file = <<>>

(* The constructor.  Without a file nothing is recorded in this session. *)
Open ==
    /\ session = "off" /\ sessions < MaxSessions
    /\ sessions' = sessions + 1
    /\ \/ session' = "failed" /\ UNCHANGED todo
       \/ session' = "header"
          /\ todo' = IF NeedsHeader THEN [todo EXCEPT ![Main] = Header] ELSE todo
    /\ UNCHANGED <<kind, file, recorded, harmed>>

(* The constructor's append() returned, and its result is not looked at. *)
Opened ==
    /\ session = "header" /\ todo[Main] = <<>>
    /\ session' = "open"
    /\ UNCHANGED <<kind, file, todo, sessions, recorded, harmed>>

(* record(): the row is formatted and append() begins. *)
Record(t) ==
    /\ session = "open" /\ todo[t] = <<>>
    /\ kind = "usage" => t = Main
    /\ recorded < MaxRows
    /\ recorded' = recorded + 1
    /\ todo' = [todo EXCEPT ![t] = Row(recorded', t)]
    /\ UNCHANGED <<kind, file, session, sessions, harmed>>

FromTheStart(s, n) == IF n = Len(s) THEN <<>> ELSE s

(* What append() writes next after n units were taken. *)
Remaining(s, n) == SubSeq(s, n + 1, Len(s))

(* One write() of append()'s loop: some units are taken.  An interrupted one *)
(* takes none and is repeated.                                             *)
Write(t) ==
    /\ todo[t] # <<>>
    /\ \E n \in 1..Len(todo[t]) :
         /\ file' = file \o SubSeq(todo[t], 1, n)
         /\ todo' = [todo EXCEPT ![t] = Remaining(todo[t], n)]
         /\ harmed' = (harmed \/ (kind = "timing" /\ n < Len(todo[t])))
    /\ UNCHANGED <<kind, session, sessions, recorded>>

(* write() fails: append() gives up, and the rest of the row is lost. *)
WriteFails(t) ==
    /\ todo[t] # <<>>
    /\ todo' = [todo EXCEPT ![t] = <<>>]
    /\ harmed' = TRUE
    /\ UNCHANGED <<kind, file, session, sessions, recorded>>

(* The program ends or is killed; what was not written is gone. *)
Stop ==
    /\ session # "off"
    /\ session' = "off"
    /\ todo' = [t \in Threads |-> <<>>]
    /\ harmed' = (harmed \/ \E t \in Threads : todo[t] # <<>>)
    /\ UNCHANGED <<kind, file, sessions, recorded>>

Next ==
    \/ Open \/ Opened \/ Stop
    \/ \E t \in Threads : Record(t) \/ Write(t) \/ WriteFails(t)

Spec == Init /\ [][Next]_vars

-----------------------------------------------------------------------------
(* No part of a row is ever written twice, a row's parts and a thread's rows *)
(* are in order, and a header is only at the top; as long as no row was cut  *)
(* short (by a failure, the end of the program, or a short write to the log *)
(* that several threads share), the file, with what the main thread is      *)
(* writing, is a header followed by whole rows, however many threads and    *)
(* sessions wrote it.                                                      *)
LedgerReadable ==
    /\ \A i, j \in DOMAIN file :
         i < j /\ file[i].by = file[j].by =>
            \/ file[i].row < file[j].row
            \/ file[i].row = file[j].row /\ file[i].part < file[j].part
    /\ \A i \in DOMAIN file : file[i].row = 0 => i = file[i].part
    /\ ~ harmed =>
         LET rows == file \o todo[Main]
         IN  /\ rows # <<>> => SubSeq(rows, 1, 2) = Header
             /\ \A i \in DOMAIN rows :
                  i % 2 = 1 => SubSeq(rows, i, i + 1) = Row(rows[i].row, rows[i].by)

(* What is left to write is a row, or the end of one that write() cut.      *)
Unwritten(t) ==
    \E r \in 0..recorded :
        /\ todo[t] \in {<<>>, Row(r, t), <<Unit(r, t, 2)>>}
        /\ todo[t] # <<>> =>
              /\ r = 0 => t = Main /\ session = "header"
              /\ r # 0 => session = "open"

Before(u, v) == u.row < v.row \/ (u.row = v.row /\ u.part < v.part)

(* What a thread writes next comes after all it wrote, in any session. *)
InOrder ==
    /\ \A t \in Threads : Unwritten(t)
    /\ \A i \in DOMAIN file : file[i].row <= recorded
    /\ \A i, j \in DOMAIN file :
         i < j /\ file[i].by = file[j].by => Before(file[i], file[j])
    /\ \A t \in Threads : \A i \in DOMAIN file, j \in DOMAIN todo[t] :
         file[i].by = t => Before(file[i], todo[t][j])

(* A header goes into an empty file, and nobody else writes before it is in. *)
HeaderOnTop ==
    /\ \A i \in DOMAIN file : file[i].row = 0 => i = file[i].part
    /\ session = "header" =>
         \A i \in DOMAIN todo[Main] : todo[Main][i].part = Len(file) + i

Whole(w) ==
    /\ Len(w) % 2 = 0
    /\ w # <<>> => w[1] = Unit(0, Main, 1)
    /\ \A i \in DOMAIN w :
         i % 2 = 1 => w[i].part = 1 /\ w[i + 1] = Unit(w[i].row, w[i].by, 2)

(* While nothing was cut short: whole rows, on top of them the header.  In   *)
(* the log that threads share the other threads' rows are whole, too.       *)
Unharmed ==
    ~ harmed =>
        /\ Whole(file \o todo[Main])
        /\ session = "header" => file # <<>> \/ todo[Main] # <<>>
        /\ session = "open" => file # <<>>
        /\ kind = "timing" =>
             /\ Len(file) % 2 = 0
             /\ \A t \in Threads : Len(todo[t]) # 1

IInv ==
    /\ TypeOK /\ InOrder /\ HeaderOnTop /\ Unharmed
    /\ kind = "usage" => \A t \in Threads \ {Main} : todo[t] = <<>>
=============================================================================
