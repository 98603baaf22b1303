\* Two rows of up to three columns under two names, looked into by two threads.
SPECIFICATION Spec
CONSTANTS
    r1 = r1
    r2 = r2
    t1 = t1
    t2 = t2
    a = a
    b = b
    NoIndex = NoIndex
    NoRow = NoRow
    Rows <- MCRows
    Threads <- MCThreads
    Names <- MCNames
    MaxColumns = 3
SYMMETRY MCSymmetry
INVARIANTS
    TypeOK
    IndexInsideRow
PROPERTIES
    LookupFindsFirst
