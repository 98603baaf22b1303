\* Short strings alone: the vector moves them as it grows.
SPECIFICATION Spec
CONSTANTS
    Kinds = {"short"}
    MaxParams = 4
    MaxCapacity = 6
    Null = Null
INVARIANT SentAsBound
