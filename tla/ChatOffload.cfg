SPECIFICATION Spec
CONSTANTS
    HistoryLimit = 3
    MaxTurns = 2
    MaxNotes = 2
    Names = {vex, kim}
SYMMETRY NameSymmetry
INVARIANT
    OffloadReportExact
