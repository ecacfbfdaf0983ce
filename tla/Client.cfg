SPECIFICATION Spec
CONSTANTS
    Prompts <- MCPrompts
    Keys <- MCKeys
    Similarity <- MCSimilarity
    MinHit = 95
    Capacity = 2
    MaxResponse = 2
    MaxLines = 3
INVARIANTS
    ReadIsWhatArrived
    EveryRequestAccounted
    NoNearDuplicates
PROPERTY
    CacheKeepsAnswers
