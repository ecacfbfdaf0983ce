SPECIFICATION Spec
CONSTANTS
    MaxTokens = 10
    ChunkSize = 4
    SysTokens = 1
    TokenCounts <- MCTokenCounts
    Importances <- MCScores
    MaxMessages = 4
INVARIANTS
    TokenAccounting
    BudgetRestored
    WindowInTurnOrder
    EveryTurnInOnePlace
    FlushDrains
    ShutdownDrains
PROPERTIES
    NewestKept
    ChannelSpec
    FlushReturns
    SessionEnds
    ChunksSettle
