SPECIFICATION Spec
CONSTANTS
    Reqs = {r1, r2}
    NoReq = NoReq
    Modes = {"stream"}
    ToolSets = {FALSE}
    ImageSets = {FALSE}
    UserKinds = {"user"}
    OutputKinds = {"output"}
    HandOver = "eof"
    Disconnects = FALSE
    MaxRequests = 1
    MaxUserItems = 1
    MaxSnapshots = 1
    CallCounts = {1}
    MaxLosses = 0
    ChanCap = 1
SYMMETRY Symmetry
INVARIANT BrokenStreamFails
\* The client may stop, or use up MaxRequests.
CHECK_DEADLOCK FALSE
