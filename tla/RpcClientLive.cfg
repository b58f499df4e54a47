SPECIFICATION FairSpec
CONSTANTS
    a = a
    b = b
    h = h
    o = o
    w = w
    r = r
    Nil = Nil
    Callers = {a, h}
    Heartbeats = {h}
    Asyncs = {}
    Raws = {}
    Oneway = {}
    MaxSeq = 2
    Panics = FALSE
    RawSeq <- HighRawSeq
    CtxOf <- OwnContexts
PROPERTIES HeartbeatReleasesCallers CancelExact ImplementsCallService
