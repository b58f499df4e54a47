SPECIFICATION Spec
CONSTANTS
    a = a
    b = b
    h = h
    o = o
    w = w
    r = r
    Nil = Nil
    Callers = {a, b}
    Heartbeats = {}
    Asyncs = {o}
    Raws = {r, w}
    Oneway = {o, w}
    MaxSeq = 2
    Panics = TRUE
    RawSeq <- HighRawSeq
    CtxOf <- OneContext
INVARIANTS OwnReply NoCallLost DoneNeverDiscarded
PROPERTIES NothingSentAfterClose
CONSTRAINT Together
