SPECIFICATION Spec
CONSTANTS
    Main = main
    co1 = co1
    co2 = co2
    Coroutines = {co1, co2}
    LUAI_MAXCCALLS = 20
    Repertoires <- MCRepertoires
INVARIANTS YieldsLoseNothing OpenUpvaluesAreAlive CCallsAreCounted
PROPERTIES ImplementsScopes CollectorRuns
CHECK_DEADLOCK FALSE
