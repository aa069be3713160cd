SPECIFICATION Spec
CONSTANTS
    Names = {f, g}
    p1 = p1
    p2 = p2
    Pictures <- MCPictures
    Blocks = {x}
    NoFile = NoFile
    Unknown = Unknown
    MAX_OPEN_FILES = 2
    Capacity = 3
    MaxFile = 2
    MaxFailures = 1
SYMMETRY MCSymmetry
INVARIANTS TypeOK ReportedIsStored NumberKeepsItsFile
CHECK_DEADLOCK FALSE
