---------------------------- MODULE RateGovernor ----------------------------
(***************************************************************************)
(* The client-side rate limiter (src/governor/rate_governor.cpp) and the   *)
(* way the REPL uses it (src/main.cpp): is_allowed before a request,       *)
(* record after it.  The REPL is single-threaded, so requests do not       *)
(* overlap, but time passes while one is under way.                        *)
(***************************************************************************)
EXTENDS Integers, Sequences, SequencesExt, TokenSum

CONSTANTS Rpm,        \* limits_.rpm
          Tpm,        \* limits_.tpm
          Minute,     \* the 60 seconds, in units of the clock
          Wrap,       \* 2^32: token sums are std::uint32_t
          Estimates,  \* token estimates a request may have
          MaxTime     \* bound on the clock

(* Estimates are such that tpm + estimate fits 32 bits: a prompt is shorter  *)
(* than 16 GiB.                                                              *)
ASSUME GovernorAssumption ==
    /\ Rpm \in Nat /\ Tpm \in Nat /\ Minute \in Nat \ {0} /\ Wrap \in Nat
    /\ Estimates \subseteq Nat
    /\ \A e \in Estimates : Tpm + e < Wrap
    /\ Tpm < Wrap
    /\ MaxTime \in Nat

VARIABLES now,       \* Clock::now()
          window,    \* window_: the records not pruned yet
          request,   \* the request under way: <<>> or <<[kind, tokens]>>
          denial,    \* history: the last denial, until a request is allowed
          log        \* history: every record ever made

vars == <<now, window, request, denial, log>>

Record  == [at : Nat, tokens : Nat]
Request == [kind : {"chat", "got"}, tokens : Nat]
Denial  == [tokens : Nat, retry_at : Nat]

-----------------------------------------------------------------------------
(* Older than the cutoff of prune_oldest. *)
Stale(r) == r.at < now - Minute

(* How many records prune_oldest could pop off the front of w. *)
StaleFront(w) == {n \in 0..Len(w) : \A i \in 1..n : Stale(w[i])}

PrunedOnce(w) == SubSeq(w, IF 1 \in StaleFront(w) THEN 2 ELSE 1, Len(w))

(* prune_oldest pops until the front record is young enough. *)
Pruned(w) == SubSeq(w, Max(StaleFront(w)) + 1, Len(w))

RoomInWindowLax(w) == Len(w) <= Rpm

(* is_allowed's two tests, on the pruned window. *)
RoomInWindow(w) == Len(w) < Rpm

RoomForTokensLax(w, e) == TokensOf(w) % Wrap <= Tpm
RoomForTokens(w, e) == (TokensOf(w) + e) % Wrap <= Tpm

Allowed(w, e) == RoomInWindow(w) /\ RoomForTokens(w, e)

(* wait_time_ms: until the oldest record is a minute old; 0 if there is none. *)
WaitTime(w) ==
    IF w = <<>> \/ Minute < now - Head(w).at THEN 0
    ELSE Minute - (now - Head(w).at)

-----------------------------------------------------------------------------
Init ==
    /\ now = 0
    /\ window = <<>>
    /\ request = <<>>
    /\ denial = <<>>
    /\ log = <<>>

Tick == now < MaxTime /\ now' = now + 1 /\ UNCHANGED <<window, request, denial, log>>

(* The REPL asks is_allowed for a chat turn or a /got prompt. *)
Ask ==
    /\ request = <<>>
    /\ window' = Pruned(window)
    /\ \E kind \in {"chat", "got"}, e \in Estimates :
         \/ /\ Allowed(window', e)
            /\ request' = <<[kind |-> kind, tokens |-> e]>>
            /\ denial' = <<>>
         \/ /\ ~ Allowed(window', e)
            /\ denial' = <<[tokens |-> e, retry_at |-> now + WaitTime(window')]>>
            /\ UNCHANGED request
    /\ UNCHANGED <<now, log>>

(* record() at the end of a request. *)
Recorded ==
    /\ request # <<>>
    /\ window' = Append(window, [at |-> now, tokens |-> request[1].tokens])
    /\ log' = Append(log, [at |-> now, tokens |-> request[1].tokens])
    /\ request' = <<>>
    /\ UNCHANGED <<now, denial>>

(* A chat request that failed is not recorded; a /got run always is. *)
ChatFails ==
    /\ request # <<>>
    /\ request[1].kind = "chat"
    /\ request' = <<>>
    /\ UNCHANGED <<now, window, denial, log>>

Next == Tick \/ Ask \/ Recorded \/ ChatFails

Spec == Init /\ [][Next]_vars

-----------------------------------------------------------------------------
TypeOK ==
    /\ now \in Nat
    /\ window \in Seq(Record)
    /\ request \in Seq(Request) /\ Len(request) <= 1
    /\ denial \in Seq(Denial)
    /\ log \in Seq(Record)

(* Any rpm + 1 records in a row span more than a minute: the limit holds in  *)
(* every window of 60 s of a session, although a record is made only when    *)
(* the request ends and is_allowed was asked when it began.                  *)
RpmRespected ==
    \A i \in 1..(Len(log) - Rpm) : log[i + Rpm].at - log[i].at > Minute

(* The records of any minute add up to at most tpm tokens. *)
TpmRespected ==
    \A i, j \in DOMAIN log :
        i <= j /\ log[j].at - log[i].at <= Minute => TokensOf(SubSeq(log, i, j)) <= Tpm

(* When a minute passed since the last record, no request within tpm is      *)
(* refused: however long the session was silent, prune_oldest catches up in  *)
(* one call.                                                                 *)
Recovers ==
    (log = <<>> \/ now - Last(log).at > Minute) =>
        \A e \in Estimates : e <= Tpm /\ Rpm > 0 => Allowed(Pruned(window), e)

(* What the REPL prints on a denial: "Retry in <wait_time_ms>ms".  No later  *)
(* than one unit after that, with nothing recorded since, the same request   *)
(* should pass.                                                              *)
RetryHintHonoured ==
    denial # <<>> /\ now > denial[1].retry_at /\ denial[1].tokens <= Tpm
        => Allowed(Pruned(window), denial[1].tokens)

-----------------------------------------------------------------------------
(* The inductive invariant behind RpmRespected and TpmRespected.             *)

(* Records are made in the order of the steady clock. *)
LogSorted ==
    /\ \A i \in DOMAIN log : log[i].at <= now
    /\ \A i, j \in DOMAIN log : i <= j => log[i].at <= log[j].at

(* The window is what is left of the log after dropping stale records. *)
Dropped == Len(log) - Len(window)
WindowIsSuffix ==
    /\ Dropped \in Nat
    /\ window = SubSeq(log, Dropped + 1, Len(log))
    /\ \A i \in 1..Dropped : Stale(log[i])

(* The request under way was allowed on a window that only it can extend. *)
RequestFits ==
    /\ TokensOf(window) <= Tpm
    /\ request # <<>> => /\ Len(window) < Rpm
                         /\ TokensOf(window) + request[1].tokens <= Tpm

IInv == /\ TypeOK /\ LogSorted /\ WindowIsSuffix /\ RequestFits
        /\ RpmRespected /\ TpmRespected
=============================================================================
