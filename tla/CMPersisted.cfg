SPECIFICATION SafeSpec
CONSTANTS
    MaxTokens = 10
    ChunkSize = 4
    SysTokens = 1
    TokenCounts <- MCTokenCounts
    Importances <- MCSameScore
    MaxMessages = 3
INVARIANTS
    FlushedChunksPersisted
