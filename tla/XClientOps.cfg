SPECIFICATION FairSpec
CONSTANTS
    Nil = Nil
    Servers = {s, t}
    Kinds = {"Call", "SendRaw", "Go", "Oneshot", "Broadcast", "Fork", "Inform"}
    FailModes = {"Failover", "Failfast", "Failtry", "Failbackup"}
    RetryCounts = {0, 2}
INVARIANTS CallResult NoRetryAfterAnswer ForkReply
PROPERTIES FanEnds
CHECK_DEADLOCK FALSE
