SPECIFICATION FairSelectionSpec
CONSTANTS
    s = s
    t = t
    v = v
    Nothing = Nothing
    NoServer = NoServer
    Panics = Panics
    Servers = {s, t, v}
    Pairs <- MCPairs
    Group = "g"
    Modes = {"random", "roundrobin", "weighted", "icmp", "hash", "closest"}
    ChanCap = 1
    MaxUpdates = 2
    MaxSelects = 4
INVARIANTS SelectsInstalled SelectsFairly Converges
PROPERTIES SendersEnd
CHECK_DEADLOCK FALSE
