SPECIFICATION Spec
CONSTANTS
    Reqs = {r1, r2}
    NoReq = NoReq
    Modes = {"sync"}
    ToolSets = {TRUE}
    ImageSets = {FALSE}
    UserKinds = {"user", "mute"}
    OutputKinds = {"output", "blank"}
    HandOver = "eof"
    Disconnects = TRUE
    MaxRequests = 3
    MaxUserItems = 3
    MaxSnapshots = 0
    CallCounts = {1}
    MaxLosses = 1
    ChanCap = 1
SYMMETRY Symmetry
VIEW View
INVARIANT TypeOK
INVARIANT ForwardedOnce
INVARIANT NothingSkipped
\* The client may stop, or use up MaxRequests.
CHECK_DEADLOCK FALSE
