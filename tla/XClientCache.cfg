SPECIFICATION FairSpec
CONSTANTS
    Nil = Nil
    Servers = {s}
    Callers = {p}
    Fans = {f}
    Clients = {x, y}
    Threshold = 1
    StickyOptions = {TRUE, FALSE}
INVARIANTS FreshClient
PROPERTIES NoBystander AcquireEnds
CHECK_DEADLOCK FALSE
