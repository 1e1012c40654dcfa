SPECIFICATION Spec
CONSTANTS
    Device = {d1}
    FirstDevices = {d1}
    Group = {g1}
    Send = {s1, s2}
    PageSize = 9
    Failure = {}
    ReuseIds = FALSE
    MaxTexts = 2
    MaxOpens = 0
    MaxFailures = 0
    ChainId = {1, 2, 3}
    MAX_FORWARD_JUMPS = 9
    MAX_MESSAGE_KEYS = 9
    MAX_SENDER_KEY_STATES = 9
    MAX_ITERATION = 9
SYMMETRY Symmetry
CHECK_DEADLOCK FALSE
INVARIANTS
    NoOrphanMessages
