SPECIFICATION Spec
CONSTANTS
    Main = Main
    a = a
    b = b
    Permanent = {r}
    Others = {a, b}
    Programs <- MCWeak
    NoKey = NoKey
    GCSWEEPMAX = 4
    MaxStack = 2
    MaxEntries = 1
    MaxWeak = 1
VIEW MCView
SYMMETRY MCSymmetry
INVARIANT NoDangling
PROPERTIES KeepsLiveEntries FinalizedIsNoWeakValue
CHECK_DEADLOCK FALSE
