SPECIFICATION Spec
CONSTANTS
    Kinds = {"explore", "execute", "fast", "paper"}
    MaxDispatches = 6
    MaxCrashes = 1
    MaxFreezes = 1
INVARIANT RouteFollowed
INVARIANT LedgersBackedByAttempt
INVARIANT DoneIsEarned
INVARIANT ReplyIsDurable
PROPERTY CompletedIsFinal
CHECK_DEADLOCK FALSE
