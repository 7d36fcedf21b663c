SPECIFICATION Spec
CONSTANTS
    Ids = {a1, a2}
    Workers = {w1, w2}
    MaxFlows = 2
    FileFlows <- SecondFlow
    OfflineStarts <- FirstStart
    Lifetime = 2
    Margin = 1
    TTL = 1
    MaxTime = 2
    MaxStarts = 2
    MaxFaults = 1
SYMMETRY Symmetry
INVARIANTS TypeOK LoginKept SignInSticks ConfiguredAccountServes ServedTokenValid
PROPERTY OneRedemption
\* The process may stay down for good.
CHECK_DEADLOCK FALSE
