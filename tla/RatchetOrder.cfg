SPECIFICATION FairSpec
CONSTANTS
    alice = alice
    bob = bob
    Party = {alice, bob}
    NoKey = NoKey
    NoSession = NoSession
    NoPending = NoPending
    MAX_FORWARD_JUMPS = 9
    MAX_MESSAGE_KEYS = 9
    MAX_RECEIVER_CHAINS = 9
    ARCHIVED_STATES_MAX_LENGTH = 9
    NumPreKeys = 1
    MaxAge = 0
    MaxTexts = 3
    MaxTime = 0
    Disruption = {}
    MaxDisruptions = 0
CHECK_DEADLOCK FALSE
INVARIANTS
    TypeOK
    MessageKeysUnique
    SenderForgets
    ReceiverForgets
    NothingLost
    ReceiversFollowSender
    DuplicateMeansOpened
PROPERTY
    ImplementsFairChannel
