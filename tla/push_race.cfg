SPECIFICATION Spec
CONSTANTS
    s1 = s1
    s2 = s2
    r1 = r1
    q1 = q1
    q2 = q2
    None = None
    Sessions <- TwoSessions
    Repos <- OneRepo
    Requesters <- TwoCallers
    MaxRetryChain = 2
    MaxCommits = 1
    MaxTransfers = 1
    MaxEpoch = 1
    MaxFailures = 1
    MaxDisturbances = 2
SYMMETRY Symmetric
INVARIANT OneOpenCommand
