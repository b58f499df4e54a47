SPECIFICATION Spec
CONSTANTS
    Nil = Nil
    x = x
    y = y
    Writers = {w1, w2}
    Gzippers = {w1}
    Drafts <- SomeDrafts
    Bufs = {b1, b2}
    ZipBufs = {z1}
    minSize = 4
    maxSize = 14
    Levels = 2
    MaxMessageLength = 12
    MaxSends = 3
SYMMETRY BufPerms
INVARIANTS BufferInv ReadsWhatWasSent EncodersAgree
CHECK_DEADLOCK FALSE
