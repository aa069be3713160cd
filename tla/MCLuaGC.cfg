SPECIFICATION FairSpec
CONSTANTS
    Main = Main
    a = a
    b = b
    Permanent = {}
    Others = {a, b}
    Programs <- MCStrong
    NoKey = NoKey
    GCSWEEPMAX = 1
    MaxStack = 2
    MaxEntries = 1
    MaxWeak = 1
INVARIANTS TypeOK MainInvariant SweptIsWhite NoDangling
PROPERTIES ImplementsHeap GarbageIsFreed
CHECK_DEADLOCK FALSE
