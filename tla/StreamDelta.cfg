SPECIFICATION Spec
CONSTANTS
    Tools = TRUE
    Spellings = {a, b}
    MaxMessages = 2
    MaxTokens = 4
SYMMETRY Symmetry
INVARIANTS TypeOK WordsDelivered ToolTextHidden
\* The upstream may stop writing.
CHECK_DEADLOCK FALSE
