SPECIFICATION Spec
CONSTANTS
    TERM_COLS = 2
    TERM_ROWS = 4
    Letters = {"a"}
    Colors = {"c", "d"}
    Slots <- MCSlots
    Plans <- MCPlans
    Texts <- MCTexts
    PopupArea <- MCPopup
    Lines <- MCLines
    TextPlaces <- MCPlaces
VIEW View
INVARIANTS BackgroundIsExact
CHECK_DEADLOCK FALSE
