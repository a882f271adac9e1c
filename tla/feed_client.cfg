CONSTANTS
    p1 = p1
    p2 = p2
    a = a
    st = st
    src = src
    Subs = {p1}
    Sessions = {a}
    SourceKeys = {}
    Stats = st
    Disconnect = disconnect
    NoSub = none
    Filter <- Everything
    ChannelCap = 2
    ReplayBuffer = 1
    MaxSubscriptions = 1
    MaxSeq = 3
    MaxErrors = 1
    MaxBreaks = 2
    MaxLeaves = 1
    MaxShutdowns = 0
SPECIFICATION FairSpec
INVARIANTS StaleCovered RegistryMirrorsHub
PROPERTY WindowHonoured
CHECK_DEADLOCK FALSE
