\* Executions of one statement with up to four parameters of any kind.
SPECIFICATION Spec
CONSTANTS
    Kinds = {"null", "short", "long", "blob"}
    MaxParams = 4
    MaxCapacity = 6
    Null = Null
INVARIANTS
    TypeOK
    SentAsBoundUnlessMoved
