SPECIFICATION LiveSpec
CONSTANTS
    s = s
    r1 = r1
    r2 = r2
    x = x
    Conf = {s, r1, r2}
    First = s
    Strangers = {x}
    Visits <- Visits_s
    PingTimeout = 2
    MaxLost = 1
    MaxWrites = 1
INVARIANT LiveCount
INVARIANT PeerToPick
PROPERTY DropsOnlyTheStopped
PROPERTY StoppedIsDropped
