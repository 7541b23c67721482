SPECIFICATION FairSpec
CONSTANTS
    s1 = s1
    s2 = s2
    r1 = r1
    q1 = q1
    q2 = q2
    None = None
    Sessions <- TwoSessions
    Repos <- OneRepo
    Requesters <- OneCaller
    MaxRetryChain = 2
    MaxCommits = 1
    MaxTransfers = 1
    MaxEpoch = 2
    MaxFailures = 1
    MaxDisturbances = 2
INVARIANT TypeOK
INVARIANT PushedOnly
INVARIANT PassHasEvidence
PROPERTY ResultsAreFenced
PROPERTY PendingResolves
