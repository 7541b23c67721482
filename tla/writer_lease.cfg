SPECIFICATION FairSpec
CONSTANTS
    Processes = {p1, p2}
    p1 = p1
    p2 = p2
    Requests = {r1, r2}
    r1 = r1
    r2 = r2
    Ops = {o1, o2, o3}
    o1 = o1
    o2 = o2
    o3 = o3
    KindOf <- OneOfEach
    None = None
    MaxBoots = 2
    MaxFaults = 1
INVARIANT TypeOK
INVARIANT NoStrayWrite
INVARIANT AtomicTogether
INVARIANT ServesLatestBoot
PROPERTY DrainedBeforeUnlock
PROPERTY LossStopsProcess
CHECK_DEADLOCK FALSE
