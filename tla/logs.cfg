\* Two backups, files of three lines, two rotators; everything may fail.
CONSTANTS
    Rotators = {r1, r2}
    MaxBackups = 2
    MaxSize = 3
    Lengths = {1, 2}
    MaxTotal = 5
    MaxLines = 7
    Faults = TRUE
    None = None
SPECIFICATION Spec
CONSTRAINT OneMishap
SYMMETRY Symmetry
INVARIANTS
    TypeOK
    IInv
    HistoryInOrder
    OldestGoFirst
    FilesWithinLimit
PROPERTY BackupsAreKept
