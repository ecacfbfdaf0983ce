SPECIFICATION Spec
CONSTANTS
    HistoryLimit = 2
    MaxTurns = 3
    MaxNotes = 2
    Names = {vex, kim}
SYMMETRY NameSymmetry
INVARIANTS
    ConversationOrdered
    ClearedStaysCleared
    TranscriptComplete
    NotesAreCurrent
