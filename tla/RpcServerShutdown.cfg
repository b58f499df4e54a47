SPECIFICATION Spec
CONSTANTS
    c1 = c1
    c2 = c2
    r1 = r1
    r2 = r2
    r3 = r3
    u = u
    Nil = Nil
    Conns = {c1, c2}
    TCP = {c1}
    Requests = {r1, r3}
    Heartbeat = {}
    Oneway = {r3}
    LogicSync = {r1, r3}
    LockPoolLen = 2
    Workers = 0
    Capacity = 1
    AsyncWrite = FALSE
    WriteTimeout = FALSE
    Stops = {"Shutdown"}
    Sends <- OneEach
    UserOf <- OneUser
    HashString <- Hash
INVARIANTS GracefulForStarted LogicSyncExclusive
CHECK_DEADLOCK FALSE
