CONSTANTS
    Calls = {c1, c2}
    NoCall = NoCall
    Rows <- SomeRows
    MaxObjects = 4
    MaxRestarts = 1
    Byte = 4
    Len32 = 2
    Len64 = 3
SPECIFICATION FairSpec
INVARIANTS
    TypeOK
    CountIsOwners
    ArgumentsArrive
    ResultsArrive
PROPERTIES
    FreedStaysFreed
    DartThreadReturns
