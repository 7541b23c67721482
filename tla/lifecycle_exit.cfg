SPECIFICATION Spec
CONSTANTS
  Stories = {s1}
  Threads = {t1, t2}
  Ops = {o1, o2}
  Kinds = {"approve", "reject", "cancel", "patch_title", "patch_mode", "exit", "split", "reset", "setup", "closure"}
  Created = {"Approved"}
  MaxEvents = 1
SYMMETRY Symmetry
CHECK_DEADLOCK FALSE
INVARIANT EndedIsCancelled
