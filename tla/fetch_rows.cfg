\* Two string columns, each with or without a declared length, a number, and up to three rows.
SPECIFICATION Spec
CONSTANTS
    Columns = {"a", "b", "n"}
    Numeric = {"n"}
    Lengths = {0, 2, 3}
    MaxRows = 3
    Guess = 1
    Undeclared = {"a", "b"}
    NoValue = NoValue
\* The last row was read: Execute is over.
CHECK_DEADLOCK FALSE
INVARIANTS
    TypeOK
    ReadsStayInside
    RowsAsSentUpToTruncation
    NoneSkipped
