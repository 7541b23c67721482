SPECIFICATION Spec
CONSTANTS
  Requests = {r1, r2, r3}
  r1 = r1
  r2 = r2
  r3 = r3
  Admins = {a1}
  a1 = a1
  Ops = {o1, o2}
  o1 = o1
  o2 = o2
  Stories = {s1}
  s1 = s1
  StoryOf <- OneStory
  Kinds <- Mixed
  None = None
  MaxIncarnation = 2
  MaxWrites = 1
  MaxFaults = 0
SYMMETRY Symmetric
INVARIANT NoLeakedClaim
INVARIANT AnsweredCommitIsDurable
INVARIANT LedgerInv
CHECK_DEADLOCK FALSE
