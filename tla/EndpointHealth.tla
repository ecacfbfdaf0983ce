--------------------------- MODULE EndpointHealth ---------------------------
(***************************************************************************)
(* The endpoint monitor (src/net/endpoint_health.cpp).                     *)
(*                                                                         *)
(* A thread probes the API's address once an interval; requests report     *)
(* their own outcome to the same window of recent samples, from the main   *)
(* thread or from graph-of-thoughts branches, under a mutex.  The program  *)
(* configures one address, so there is one window.  When the session ends, *)
(* stop() asks the thread to end and joins it.                             *)
(*                                                                         *)
(* A step is a critical section of a mutex or what a thread does between   *)
(* two of them; wait_for is the test of its predicate, the sleep that      *)
(* gives up cv_mutex_, and the test after a notify or a timeout.           *)
(***************************************************************************)
EXTENDS Integers, Sequences, FiniteSets, TokenSum

CONSTANTS kWindowSamples, kSlowLatencyUs,
          Latencies,      \* latencies a sample may have, in microseconds
          MaxReports      \* bound: samples reported in a session

HealthAssumption ==
    /\ kWindowSamples \in Nat \ {0}
    /\ kSlowLatencyUs \in Nat
    /\ Latencies \subseteq Nat
    /\ MaxReports \in Nat

VARIABLES
    samples, sum_us, errs,   \* the window of the configured address
    reports,                 \* history: all samples reported
    main,                    \* where the main thread is
    monitor,                 \* where monitor_ is
    started,                 \* started_
    stop_requests,           \* stop_requests_
    cv_mutex                 \* which thread holds cv_mutex_

window == <<samples, sum_us, errs, reports>>
threads == <<main, monitor, started, stop_requests, cv_mutex>>
vars == <<window, threads>>

Entry == [latency_us : Latencies, failed : BOOLEAN]

TypeOK ==
    /\ samples \in Seq(Entry) /\ sum_us \in Int /\ errs \in Int
    /\ reports \in Seq(Entry)
    /\ main \in {"starting", "running", "notifying", "joining", "stopped"}
    /\ monitor \in {"absent", "testing", "dozing", "asleep", "woken", "round",
                     "probing", "ended"}
    /\ started \in BOOLEAN /\ stop_requests \in BOOLEAN
    /\ cv_mutex \in {"free", "monitor"}

-----------------------------------------------------------------------------
(* The latencies of w, as the counts that TokensOf adds up. *)
Counts(w) == [i \in DOMAIN w |-> [tokens |-> w[i].latency_us]]

SumUs(w) == TokensOf(Counts(w))

Failures(w) == Cardinality({i \in DOMAIN w : w[i].failed})

KeepErrs(e) == 0

(* What the error counter loses when e leaves the window. *)
ErrsOf(e) == IF e.failed THEN 1 ELSE 0

(* report(): the new sample goes in, and the oldest one out of a full window. *)
report(e) ==
    LET over == Len(samples) = kWindowSamples
        old  == Head(samples)
    IN  /\ Len(reports) < MaxReports
        /\ reports' = Append(reports, e)
        /\ samples' = Append(IF over THEN Tail(samples) ELSE samples, e)
        /\ sum_us' = sum_us + e.latency_us - IF over THEN old.latency_us ELSE 0
        /\ errs' = errs + (IF e.failed THEN 1 ELSE 0) - IF over THEN ErrsOf(old) ELSE 0

(* status(), with the average rounded down and the rate compared exactly. *)
status ==
    IF samples = <<>> THEN "Healthy"
    ELSE IF 2 * errs >= Len(samples) THEN "Unhealthy"
    ELSE IF errs > 0 \/ sum_us \div Len(samples) > kSlowLatencyUs THEN "Degraded"
    ELSE "Healthy"

-----------------------------------------------------------------------------
Init ==
    /\ samples = <<>> /\ sum_us = 0 /\ errs = 0 /\ reports = <<>>
    /\ main = "starting" /\ monitor = "absent"
    /\ started = FALSE /\ stop_requests = FALSE /\ cv_mutex = "free"

(* start(): a monitor with no interval does not run. *)
Start ==
    /\ main = "starting" /\ cv_mutex = "free"
    /\ main' = "running"
    /\ \/ started' = TRUE /\ monitor' = "testing"
       \/ UNCHANGED <<started, monitor>>
    /\ UNCHANGED <<window, stop_requests, cv_mutex>>

(* A request, on whatever thread, reports how it went. *)
Request ==
    /\ main = "running"
    /\ \E e \in Entry : report(e)
    /\ UNCHANGED threads

StopAnyTime == main = "running"

(* stop() takes cv_mutex_. *)
MayStop == main = "running" /\ cv_mutex = "free"

Stop ==
    /\ MayStop
    /\ stop_requests' = started
    /\ main' = IF started THEN "notifying" ELSE "stopped"
    /\ UNCHANGED <<window, monitor, started, cv_mutex>>

(* cv_.notify_all reaches the monitor if it sleeps. *)
Notify ==
    /\ main = "notifying"
    /\ monitor' = IF monitor = "asleep" THEN "woken" ELSE monitor
    /\ main' = "joining"
    /\ UNCHANGED <<window, started, stop_requests, cv_mutex>>

Join ==
    /\ main = "joining" /\ monitor = "ended"
    /\ started' = FALSE
    /\ main' = "stopped"
    /\ UNCHANGED <<window, monitor, stop_requests, cv_mutex>>

-----------------------------------------------------------------------------
(* wait_for takes cv_mutex_ and tests its predicate. *)
Test ==
    /\ monitor = "testing" /\ cv_mutex = "free"
    /\ IF stop_requests
       THEN monitor' = "ended" /\ UNCHANGED cv_mutex
       ELSE monitor' = "dozing" /\ cv_mutex' = "monitor"
    /\ UNCHANGED <<window, main, started, stop_requests>>

(* The sleep, which gives up the mutex with the monitor in the wait queue. *)
Sleep ==
    /\ monitor = "dozing"
    /\ monitor' = "asleep" /\ cv_mutex' = "free"
    /\ UNCHANGED <<window, main, started, stop_requests>>

(* Woken by the notify: the predicate is tested again. *)
Wake ==
    /\ monitor = "woken" /\ cv_mutex = "free"
    /\ monitor' = IF stop_requests THEN "ended" ELSE "asleep"
    /\ UNCHANGED <<window, main, started, stop_requests, cv_mutex>>

(* interval_ passed: wait_for returns what the predicate says then. *)
Timeout ==
    /\ monitor = "asleep" /\ cv_mutex = "free"
    /\ monitor' = IF stop_requests THEN "ended" ELSE "round"
    /\ UNCHANGED <<window, main, started, stop_requests, cv_mutex>>

(* The loop over endpoints(), which is the configured address. *)
Round ==
    /\ monitor = "round"
    /\ monitor' = IF stop_requests THEN "ended" ELSE "probing"
    /\ UNCHANGED <<window, main, started, stop_requests, cv_mutex>>

(* check_once: the probe ends, by its own timeout at the latest.  Beyond the *)
(* bound its sample is dropped, so that the bound stops no thread.          *)
Probed ==
    /\ monitor = "probing"
    /\ \/ \E e \in Entry : report(e)
       \/ Len(reports) = MaxReports /\ UNCHANGED window
    /\ monitor' = "testing"
    /\ UNCHANGED <<main, started, stop_requests, cv_mutex>>

MonitorStep == Test \/ Sleep \/ Wake \/ Round \/ Probed

Next == Start \/ Request \/ Stop \/ Notify \/ Join \/ MonitorStep \/ Timeout

(* Both threads are scheduled and a probe ends.  Nothing is assumed of the   *)
(* interval, which may be as long as the session.                           *)
Spec ==
    /\ Init /\ [][Next]_vars
    /\ WF_vars(Notify) /\ WF_vars(Join) /\ WF_vars(MonitorStep)

-----------------------------------------------------------------------------
(* Whatever threads report, the counters kept incrementally are those of the *)
(* last kWindowSamples samples, and the status is what these say: at least  *)
(* half failed, some failed or slow on average.                             *)
WindowTellsRecent ==
    LET n      == IF Len(reports) < kWindowSamples THEN Len(reports) ELSE kWindowSamples
        recent == SubSeq(reports, Len(reports) - n + 1, Len(reports))
    IN  /\ samples = recent /\ sum_us = SumUs(recent) /\ errs = Failures(recent)
        /\ (status = "Unhealthy") = (n > 0 /\ 2 * Failures(recent) >= n)
        /\ (status = "Healthy") =
              (Failures(recent) = 0 /\ (n = 0 \/ SumUs(recent) < n * (kSlowLatencyUs + 1)))

(* stop() joins a monitor that does not sleep and will not: the predicate is *)
(* tested and the sleep begun under the mutex that stop() sets the flag in. *)
NotifyNotLost == main = "joining" => monitor \notin {"absent", "dozing", "asleep"}

StopUnderMutex ==
    /\ (cv_mutex = "monitor") = (monitor = "dozing")
    /\ started => monitor # "absent"
    /\ main \in {"notifying", "joining"} => started /\ stop_requests
    /\ stop_requests => monitor # "dozing"
    /\ NotifyNotLost

(* What every step keeps: the window holds the last reports, and the        *)
(* counters are those of the window.                                       *)
IInv ==
    /\ TypeOK /\ StopUnderMutex
    /\ Len(samples) =
          IF Len(reports) < kWindowSamples THEN Len(reports) ELSE kWindowSamples
    /\ \A i \in DOMAIN samples :
          samples[i] = reports[(Len(reports) - Len(samples)) + i]
    /\ sum_us = SumUs(samples) /\ errs = Failures(samples)

(* stop() returns without waiting for the interval to pass, wherever the     *)
(* monitor is when it is called: the notify is not lost between the test    *)
(* and the sleep.                                                          *)
StopReturns == main \in {"notifying", "joining"} ~> main = "stopped"
=============================================================================
