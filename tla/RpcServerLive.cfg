SPECIFICATION FairSpec
CONSTANTS
    c1 = c1
    c2 = c2
    r1 = r1
    r2 = r2
    r3 = r3
    u = u
    Nil = Nil
    Conns = {c1, c2}
    TCP = {c1}
    Requests = {r1, r2}
    Heartbeat = {}
    Oneway = {}
    LogicSync = {r1, r2}
    LockPoolLen = 1
    Workers = 1
    Capacity = 1
    AsyncWrite = TRUE
    WriteTimeout = FALSE
    Stops = {"Shutdown", "Close"}
    Sends <- Pair
    UserOf <- OneUser
    HashString <- Hash
PROPERTIES ShutdownCompletes RequestsEnd
CONSTRAINT OneOfEach
CHECK_DEADLOCK FALSE
