SPECIFICATION Spec
CONSTANTS
    Reqs = {r1, r2}
    NoReq = NoReq
    Modes = {"stream"}
    ToolSets = {TRUE}
    ImageSets = {TRUE}
    UserKinds = {"user"}
    OutputKinds = {"output"}
    HandOver = "eof"
    Disconnects = TRUE
    MaxRequests = 2
    MaxUserItems = 1
    MaxSnapshots = 1
    CallCounts = {2}
    MaxLosses = 0
    ChanCap = 1
INVARIANT StreamGrammar
INVARIANT CompletedWasPosted
PROPERTY PostsInOrder
PROPERTY ImplementsTurns
PROPERTY RefusedOnlyAfterHangUp
PROPERTY SessionReleased
PROPERTY EveryRequestEnds
\* The client may stop, or use up MaxRequests.
CHECK_DEADLOCK FALSE
