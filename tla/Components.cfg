SPECIFICATION MCSpec
CONSTANTS
    Typed <- QuotedKeys
    Unquoted <- QuotesOff
    Numbers = {"1000", "2000"}
    FirstFiles <- SmallFiles
    UserLines <- AddedLines
    MaxLines = 3
    MaxTokens = 5
    TokenCounts = {1, 2, 4, 5}
    MaxMessages = 4
    kWindowSamples = 2
    kSlowLatencyUs = 2
    Latencies = {0, 2, 4}
    MaxReports = 4
    Main = main
    Threads = {main, b1, b2}
    MaxRows = 3
    MaxSessions = 2
    Spaces = {" ", "NL"}
    W512 = 4
    W256 = 3
    W128 = 2
    Chunk = 2
    Inputs <- MCInputs
INVARIANTS
    WizardAsksOnce
    MessagesInOnePlace
    AsksTheQuestion
    WindowTellsRecent
    LedgerReadable
    KernelsAgree
    TerminalSafe
    CompressedAsWords
PROPERTIES
    SettingsFollowSources
    StopReturns
CHECK_DEADLOCK FALSE
