SPECIFICATION FairSpec
CONSTANTS
    Device = {d1, d2}
    FirstDevices = {d1}
    Group = {g1}
    Send = {s1}
    PageSize = 9
    Failure = {"fetch"}
    ReuseIds = FALSE
    MaxTexts = 2
    MaxOpens = 1
    MaxFailures = 1
    ChainId = {1, 2, 3}
    MAX_FORWARD_JUMPS = 9
    MAX_MESSAGE_KEYS = 9
    MAX_SENDER_KEY_STATES = 9
    MAX_ITERATION = 9
CHECK_DEADLOCK FALSE

    
INVARIANTS
    NothingOlderThanTheKey
    KeyBeforeMessage
