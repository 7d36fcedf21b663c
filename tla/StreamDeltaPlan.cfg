SPECIFICATION Spec
CONSTANTS
    Tools = FALSE
    Spellings = {a, b}
    MaxMessages = 1
    MaxTokens = 3
PROPERTY DeltasAsPlanned
\* The upstream may stop writing.
CHECK_DEADLOCK FALSE
