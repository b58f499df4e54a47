SPECIFICATION FairSpec
CONSTANTS
    q = q
    w = w
    b = b
    z = z
    g = g
    h = h
    svc = svc
    m = m
    f = f
    u = u
    v = v
    Nil = Nil
    Requests = {q, w, b, z}
    Oneway = {w}
    Heartbeat = {b}
    Routed = {z}
    PathOf <- OnePath
    NameOf <- OneName
    Registrars = {g, h}
    Paths = {svc}
    Names = {m, f}
    Sigs = {"M", "F"}
    ArgType <- ArgTypes
    ReplyType <- ReplyTypes
    Resettable = {"M", "Reply"}
    Objs = {1, 2, 3, 4}
    Plugins = {u, v}
    Implements <- Hooks
    Ops <- SomeOps
    Scenarios <- Few
INVARIANTS OwnData PoolReady GuardedCall AnnouncedServed Withdrawn
PROPERTIES RequestsFinish
CHECK_DEADLOCK FALSE
