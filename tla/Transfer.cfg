SPECIFICATION FairSpec
CONSTANTS
    up = up
    dn = dn
    st1 = st1
    st2 = st2
    c1 = c1
    c2 = c2
    c3 = c3
    a1 = a1
    a2 = a2
    pl = pl
    geo = geo
    sel = sel
    cl = cl
    nil = nil
    Absent = Absent
    Users = {up, dn, st1, st2, c1, c2, c3}
    Setters = {a1, a2, pl, geo, sel, cl}
    Paths = {"file", "stream"}
    Count = 2
    MaxIndex = 3
    Handlers = {"DownloadFile", "Stream"}
    Size = 1
    MaxTokens = 3
    PathOf <- ServiceOf
    KindOf <- Kinds
    WaitNum <- Waiting
    OpOf <- Ops
    OnPath <- FilePath
    Scenarios <- Few
INVARIANTS OnePerPath  TokensDecide 
PROPERTIES Served
CHECK_DEADLOCK FALSE
