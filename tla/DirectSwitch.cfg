SPECIFICATION DirectSpec
CONSTANTS
    alice = alice
    bob = bob
    carol = carol
    f1 = f1
    f2 = f2
    Party = {alice, bob, carol}
    Me = alice
    UserOf <- OwnUser
    DeviceId <- FirstDevice
    None = None
    Online = {bob}
    Flow = {f1, f2}
    OpeningRace = FALSE
    MaxClosed = 0
    NoKey = NoKey
    NoSession = NoSession
    NoPending = NoPending
    MAX_FORWARD_JUMPS = 9
    MAX_MESSAGE_KEYS = 9
    MAX_RECEIVER_CHAINS = 9
    ARCHIVED_STATES_MAX_LENGTH = 9
    NumPreKeys = 0
    MaxAge = 0
    MaxTexts = 1
    MaxTime = 0
    Disruption = {}
    MaxDisruptions = 0
SYMMETRY Symmetry
CHECK_DEADLOCK FALSE
INVARIANTS
    ForAddressee
