SPECIFICATION Spec
CONSTANTS
    Device = {d1}
    FirstDevices = {d1}
    Group = {g1}
    Send = {s1, s2}
    PageSize = 2
    Failure = {"unwrap"}
    ReuseIds = FALSE
    MaxTexts = 3
    MaxOpens = 1
    MaxFailures = 1
    ChainId = {1, 2, 3}
    MAX_FORWARD_JUMPS = 1
    MAX_MESSAGE_KEYS = 1
    MAX_SENDER_KEY_STATES = 2
    MAX_ITERATION = 2
SYMMETRY Symmetry
CHECK_DEADLOCK FALSE
INVARIANTS
    TypeOK
    GroupWithinLimits
    SenderKeysUnique
    
    
