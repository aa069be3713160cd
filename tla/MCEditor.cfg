SPECIFICATION Spec
CONSTANTS
    Printable <- MCPrintable
    NL = "nl"
    NUL = "nul"
    Blank = "x"
    Names <- MCNames
    RelName <- MCRelName
    NoName = ""
    Missing = Missing
    MaxSize = 5
    ClipSize = 5
    PageLines = 2
    FileTexts <- MCFileTexts
    Needles <- MCNeedles
    Plans <- MCPlans
VIEW MCView
INVARIANTS TypeOK BufferHoldsText OnlyStrayingCrashes
PROPERTIES ErrorLineComesFirst OtherFileStartsInText
CHECK_DEADLOCK FALSE
