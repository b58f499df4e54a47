SPECIFICATION FairSpec
CONSTANTS
    Nil = Nil
    Names = {n, m}
    Callers = {u}
    Stoppers = {s, t}
    MaxAttempts = 3
    Refreshing = TRUE
INVARIANTS NodesRegistered StopCleans OneAttempt
PROPERTIES StopIsBounded
CHECK_DEADLOCK FALSE
