SPECIFICATION Spec
CONSTANTS
    alice = alice
    bob = bob
    Party = {alice, bob}
    NoKey = NoKey
    NoSession = NoSession
    NoPending = NoPending
    MAX_FORWARD_JUMPS = 2
    MAX_MESSAGE_KEYS = 1
    MAX_RECEIVER_CHAINS = 1
    ARCHIVED_STATES_MAX_LENGTH = 1
    NumPreKeys = 0
    MaxAge = 0
    MaxTexts = 3
    MaxTime = 1
    Disruption = {"delete", "replenish", "reinstall"}
    MaxDisruptions = 1
SYMMETRY Symmetry
CHECK_DEADLOCK FALSE
INVARIANTS
    WithinLimits
    AtMostOnce
