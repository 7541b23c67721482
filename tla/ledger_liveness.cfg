SPECIFICATION FairSpec
CONSTANTS
  Requests = {r1, r2}
  r1 = r1
  r2 = r2
  Admins = {a1}
  a1 = a1
  Ops = {o1}
  o1 = o1
  o2 = o2
  Stories = {s1}
  s1 = s1
  StoryOf <- OneStory
  Kinds <- AllKinds
  None = None
  MaxIncarnation = 2
  MaxWrites = 1
  MaxFaults = 1
PROPERTY EveryRequestEnds
PROPERTY CrashIsRecovered
CHECK_DEADLOCK FALSE
