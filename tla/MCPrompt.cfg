SPECIFICATION Spec
CONSTANTS
    TERM_COLS = 4
    TERM_ROWS = 4
    Letters = {"a"}
    Colors = {"c"}
    Files <- MCFiles
    Outputs <- MCUnended
    MaxLine = 3
INVARIANTS LineIsShown
