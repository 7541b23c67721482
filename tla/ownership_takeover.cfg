SPECIFICATION Spec
CONSTANTS
  Runs = {r1}
  r1 = r1
  r2 = r2
  r3 = r3
  Stories = {s1}
  s1 = s1
  s2 = s2
  StoryOf <- OneStory
  Sessions = {a, b, h}
  a = a
  b = b
  h = h
  NeedApproval = {a, b}
  Privileged = {h}
  Humans = {h}
  Threads = {t1, t2}
  t1 = t1
  t2 = t2
  Takeovers = {1, 2}
  Calls = {"start", "work", "closure", "request", "confirm", "deny", "reconcile", "conflict", "adminclear"}
  None = None
  MaxVersion = 4
  MaxIssue = 2
SYMMETRY Symmetric
CONSTRAINT SecondTakeoverAlone
INVARIANT TypeOK
INVARIANT EpochFences
INVARIANT EndTogether
INVARIANT NoPingPong
PROPERTY TransferIsAgreed
PROPERTY ConfirmedAsShown
CHECK_DEADLOCK FALSE
