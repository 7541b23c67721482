SPECIFICATION Spec
CONSTANTS
  Stories = {s1, s2}
  Threads = {t1, t2}
  Ops = {o1, o2}
  Kinds = {"reject", "patch_mode", "exit", "split", "reset", "setup", "closure"}
  Created = {"Approved"}
  MaxEvents = 2
SYMMETRY Symmetry
CHECK_DEADLOCK FALSE
INVARIANT ModesExcluded
INVARIANT InProgressIsLocked
 
