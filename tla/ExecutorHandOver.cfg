SPECIFICATION Spec
CONSTANTS
    Reqs = {r1, r2}
    NoReq = NoReq
    Modes = {"stream"}
    ToolSets = {TRUE}
    ImageSets = {TRUE}
    UserKinds = {"user"}
    OutputKinds = {"output"}
    HandOver = "answer"
    Disconnects = FALSE
    MaxRequests = 2
    MaxUserItems = 1
    MaxSnapshots = 0
    CallCounts = {1}
    MaxLosses = 0
    ChanCap = 1
SYMMETRY Symmetry
PROPERTY RefusedOnlyAfterHangUp
\* The client may stop, or use up MaxRequests.
CHECK_DEADLOCK FALSE
