\* Three instances, each used by a thread of its own, that connect, disconnect
\* and go in any order.
SPECIFICATION FairSpec
CONSTANTS
    i1 = i1
    i2 = i2
    i3 = i3
    Free = Free
    Instances <- MCInstances
INVARIANTS
    TypeOK
    RefcountExact
    InitialisedWhileOpen
    ShutDownWhenUnused
    NeverOvercounted
PROPERTY MutexReleased
