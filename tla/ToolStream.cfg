SPECIFICATION Spec
CONSTANTS
    Tools <- MCTools
    Bare <- MCBare
    Answers <- MCAnswers
    MaxEvents = 2
INVARIANTS TypeOK ParsesAsWritten SnapshotCallsStand
    EventsAsWritten SecondParseFindsNothing CompleteAnswerServed
\* A turn ends.
CHECK_DEADLOCK FALSE
