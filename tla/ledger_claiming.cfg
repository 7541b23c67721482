SPECIFICATION Spec
CONSTANTS
  Requests = {r1, r2}
  r1 = r1
  r2 = r2
  Admins = {a1}
  a1 = a1
  Ops = {o1, o2}
  o1 = o1
  o2 = o2
  Stories = {s1}
  s1 = s1
  StoryOf <- OneStory
  Kinds <- Claiming
  None = None
  MaxIncarnation = 3
  MaxWrites = 2
  MaxFaults = 1
SYMMETRY Symmetric
INVARIANT TypeOK
INVARIANT SerializedDispatch
INVARIANT NoOrphanWhileServing
INVARIANT FailedMeansNoWrites
INVARIANT AppliedAtMostOnce
PROPERTY AbandonedNeverCommits
PROPERTY ImplementsIdempotentLedger
CHECK_DEADLOCK FALSE
