SPECIFICATION Spec
CONSTANTS
    IntBits = 3
    LongBits = 6
    MaxBits = 6
    DoubleBits = 5
    Beyond = 32
    Infinite = Infinite
    Thrown = Thrown
INVARIANTS
    NumberKeptWhereGuarded
    ThrowsOnlyWhenItMust
