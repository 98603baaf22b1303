\* Values copied through all backends, where long int is as wide as long long
\* and where it is as narrow as int.
SPECIFICATION TripSpec
CONSTANTS
    NarrowBits = 3
    LongWidths = {3, 5}
    WideBits = 5
    MostUnits = 7
    Plain = Plain
    WithNul = WithNul
    Cut = Cut
    NoBytes = NoBytes
    Bytes = Bytes
    None = None
\* A value may arrive where no column takes it.
CHECK_DEADLOCK FALSE
INVARIANTS
    TypeOK
    KeptWhereSafe
    PathsAgree
