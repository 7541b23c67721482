SPECIFICATION Spec
CONSTANTS
  Runs = {r1, r2}
  r1 = r1
  r2 = r2
  r3 = r3
  Stories = {s1}
  s1 = s1
  s2 = s2
  StoryOf <- OneStory
  Sessions = {a, h}
  a = a
  h = h
  NeedApproval = {a}
  Privileged = {h}
  Humans = {h}
  Threads = {t1, t2}
  t1 = t1
  t2 = t2
  Takeovers = {1}
  Calls = {"start", "work", "request", "confirm", "recover", "exit", "reset", "split", "adminclear"}
  None = None
  MaxVersion = 2
  MaxIssue = 1
SYMMETRY Symmetric
INVARIANT OneOwner
PROPERTY OwnershipHistory
CHECK_DEADLOCK FALSE
