SPECIFICATION Spec
\* A call that is over does nothing any more.
CHECK_DEADLOCK FALSE
CONSTANTS
    LUA_MAXCAPTURES = 2
    Match <- MCMatch
    MAXCCALLS = 4
    PatternCalls <- MCPatternCalls
    RANLIMIT = 4
    RATIO = 2
    Seeds = {1}
    SortCalls <- MCSortCalls
    LIMLINEDIFF = 2
    MAXIWTHABS = 4
    LastLine = 3
    MaxCode <- MCMaxCode
    MAX = 7
    INT_MAX = 5
    MAX_SIZE = 20
    RangeCalls <- MCRangeCalls
    Keys <- MCKeys
    Vals = {"v", "w"}
    Nil = Nil
    hash <- MCHash
    LIMFORLAST = 1
    MAXASIZE = 16
    LUA_MAXINTEGER = 31
    TablePrograms <- MCPrograms
INVARIANTS
    FindsFirstMatch
    SortIsSafe
    LinesAreFound
    RangesAreExact
    TableIsItsEntries
    GetnIsBorder
PROPERTIES
    SortEnds
    ImplementsMap
