---------------------------- MODULE MCComponents ----------------------------
(***************************************************************************)
(* Small instances of five components that share no state: the key setup,  *)
(* the second memory, the endpoint monitor, the ledgers and the text       *)
(* functions.  A behaviour moves the component "part"; the others stay in  *)
(* an initial state.                                                       *)
(*                                                                         *)
(* Memory: a budget of 4 of 5 tokens; a message of 5 does not fit alone.   *)
(* Monitor: a window of two samples turns over.  Ledgers: three threads    *)
(* and a restart.  Text: all short texts over three alphabets: for the     *)
(* search kernels, with every level and every content of its buffer; with  *)
(* the bytes of escape sequences; with words, marks and blanks.            *)
(***************************************************************************)
EXTENDS MCKeySetup

CONSTANTS MaxTokens, TokenCounts, MaxMessages,
          kWindowSamples, kSlowLatencyUs, Latencies, MaxReports,
          Threads, Main, MaxRows, MaxSessions,
          Spaces, W512, W256, W128, Chunk, Inputs

VARIABLES part,
          active, staging, tokens, rows, phase, left, added, unsaved,
          samples, sum_us, errs, reports, main, monitor, started, stop_requests, cv_mutex,
          kind, file, todo, session, sessions, recorded, harmed,
          level, junk, data, taken, shown

memoryVars == <<active, staging, tokens, rows, phase, left, added, unsaved>>
healthVars ==
    <<samples, sum_us, errs, reports, main, monitor, started, stop_requests, cv_mutex>>
ledgerVars == <<kind, file, todo, session, sessions, recorded, harmed>>
textVars   == <<level, junk, data, taken, shown>>

Memory  == INSTANCE MemoryManager
Health  == INSTANCE EndpointHealth
Ledgers == INSTANCE Ledger
Text    == INSTANCE TextKernels

NoJunk == [i \in 1..W512 |-> "x"]

ASSUME ComponentsAssumption ==
    /\ Memory!MemoryAssumption
    /\ Health!HealthAssumption
    /\ Ledgers!LedgerAssumption
    /\ Text!MatcherAssumption
    /\ Text!SanitizerAssumption
    /\ Text!TextAssumption /\ NoJunk \in Seq(STRING)

Texts(S, n) == UNION {[1..k -> S] : k \in 0..n}

MCInputs ==
    [text : Texts({"x", "7", " "}, 5), level : {"Avx512", "Avx2"}, junk : [1..W512 -> {"x", " "}]]
    \cup [text : Texts({"x", "7", " "}, 5), level : {"Neon", "Scalar"}, junk : {NoJunk}]
    \cup [text : Texts({"x", "[", "]", "BSL", "7", "NL", "BEL", "ESC"}, 4),
          level : {"Avx2"}, junk : {NoJunk}]
    \cup [text : Texts({"u", "m", ".", "!", " ", "NL"}, 5), level : {"Avx2"}, junk : {NoJunk}]

KeysIdle    == lines = <<>> /\ Init
MemoryIdle  == left = 0 /\ Memory!Init
LedgersIdle == kind = "timing" /\ Ledgers!Init
TextIdle    == level = "Scalar" /\ junk = NoJunk /\ data = <<>> /\ taken = 0 /\ shown = <<>>

MCInit ==
    \/ part = "keys" /\ Init /\ MemoryIdle /\ Health!Init /\ LedgersIdle /\ TextIdle
    \/ part = "memory" /\ KeysIdle /\ Memory!Init /\ Health!Init /\ LedgersIdle /\ TextIdle
    \/ part = "health" /\ KeysIdle /\ MemoryIdle /\ Health!Init /\ LedgersIdle /\ TextIdle
    \/ part = "ledgers" /\ KeysIdle /\ MemoryIdle /\ Health!Init /\ Ledgers!Init /\ TextIdle
    \/ part = "text" /\ KeysIdle /\ MemoryIdle /\ Health!Init /\ LedgersIdle /\ Text!Init

MCNext ==
    /\ UNCHANGED part
    /\ \/ part = "keys" /\ Next
          /\ UNCHANGED <<memoryVars, healthVars, ledgerVars, textVars>>
       \/ part = "memory" /\ Memory!Next
          /\ UNCHANGED <<vars, healthVars, ledgerVars, textVars>>
       \/ part = "health" /\ Health!Next
          /\ UNCHANGED <<vars, memoryVars, ledgerVars, textVars>>
       \/ part = "ledgers" /\ Ledgers!Next
          /\ UNCHANGED <<vars, memoryVars, healthVars, textVars>>
       \/ part = "text" /\ Text!Next
          /\ UNCHANGED <<vars, memoryVars, healthVars, ledgerVars>>

MCvars == <<part, vars, memoryVars, healthVars, ledgerVars, textVars>>

MCSpec ==
    /\ MCInit /\ [][MCNext]_MCvars
    /\ WF_healthVars(Health!Notify)
    /\ WF_healthVars(Health!Join)
    /\ WF_healthVars(Health!MonitorStep)

(* No message is lost between the buffers and the table (MemoryManager). *)
MessagesInOnePlace == Memory!MessagesInOnePlace
(* A request ends with the line just typed (Agent). *)
AsksTheQuestion == Memory!AsksTheQuestion
(* The status tells the last samples (EndpointHealth). *)
WindowTellsRecent == Health!WindowTellsRecent
(* stop() does not wait for the interval (EndpointHealth). *)
StopReturns == Health!StopReturns
(* Rows of concurrent threads and later sessions stay whole (Ledger). *)
LedgerReadable == Ledgers!LedgerReadable
(* The kernels find what the scalar loops find; NEON's byte search only a byte *)
(* that is in no whole block (SimdMatcher).                                *)
KernelsAgree == Text!KernelsAgree
(* No control byte reaches the terminal (Sanitizer). *)
TerminalSafe == Text!TerminalSafe
(* Compression keeps the words (Pruner). *)
CompressedAsWords == Text!CompressedAsWords
=============================================================================
