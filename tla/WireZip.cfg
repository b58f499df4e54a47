SPECIFICATION Spec
CONSTANTS
    Nil = Nil
    x = x
    y = y
    Writers = {w1, w2}
    Gzippers = {w1, w2}
    Drafts <- ZipDrafts
    Bufs = {b1, b2}
    ZipBufs = {z1}
    minSize = 4
    maxSize = 14
    Levels = 2
    MaxMessageLength = 12
    MaxSends = 2
INVARIANTS ReadsWhatWasSent
CHECK_DEADLOCK FALSE
