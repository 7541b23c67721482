SPECIFICATION Spec
CONSTANTS
    Kinds = {"explore", "execute", "fast", "paper"}
    MaxDispatches = 5
    MaxCrashes = 0
    MaxFreezes = 0
INVARIANT YieldedCanContinue
CHECK_DEADLOCK FALSE
