CONSTANTS
    p1 = p1
    p2 = p2
    a = a
    st = st
    src = src
    Subs = {p1}
    Sessions = {}
    SourceKeys = {src}
    Stats = st
    Disconnect = disconnect
    NoSub = none
    Filter <- Everything
    ChannelCap = 1
    ReplayBuffer = 1
    MaxSubscriptions = 1
    MaxSeq = 1
    MaxErrors = 0
    MaxBreaks = 1
    MaxLeaves = 1
    MaxShutdowns = 1
SPECIFICATION FairSpec
PROPERTY PagesCatchUp Reclaimed
CHECK_DEADLOCK FALSE
