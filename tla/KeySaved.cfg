SPECIFICATION Spec
CONSTANTS
    Typed = {"k1", "k2"}
    Unquoted <- PlainKeys
    Numbers = {"1000", "2000"}
    FirstFiles <- SmallFiles
    UserLines <- AddedLines
    MaxLines = 3
INVARIANTS
    SavedKeyFound
