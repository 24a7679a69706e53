\* Any two requests at once, while rows are appended, a log is damaged and a
\* session is deleted.
SPECIFICATION Spec
CONSTANTS
    NumSessions = 2
    w1 = w1
    w2 = w2
    a = a
    b = b
    Workers <- MCWorkers
    Names <- MCNames
    Rows <- MCRows
    MaxRows = 2
    MaxOps = 2
    MaxDeletes = 1
    NoName = NoName
SYMMETRY MCSymmetry
INVARIANTS
    CountWasTrue
    NameLostOnlyToOverlap
    IndexedOnce
    SearchFindsWhatWasThere
CHECK_DEADLOCK FALSE
