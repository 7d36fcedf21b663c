SPECIFICATION Spec
CONSTANTS
    Keys = {k1, k2}
    Threads = {t1, t2, t3}
    Objs = {o1, o2, o3}
    Convs = {c1}
    Nil = Nil
    NoConv = NoConv
    TTL = 1
    MaxStall = 1
    MaxTime = 4
SYMMETRY Symmetry
INVARIANT TypeOK
INVARIANT ExclusiveObject
INVARIANT KeyMutex
INVARIANT HeldSessionReachable
PROPERTY RefusedOnlyIfBusy
PROPERTY ImplementsLease
