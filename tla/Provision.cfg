SPECIFICATION FairSpec
CONSTANTS
    t1 = t1
    t2 = t2
    Tab = {t1}
    NumPreKeys = 2
    Relinking = FALSE
    MaxDevices = 4
    MaxUsed = 4
    Disruption = {"reject", "lose", "crash", "wipe"}
    MaxDisruptions = 3
CHECK_DEADLOCK FALSE
INVARIANTS
    TypeOK
    InSyncMeansUsable
PROPERTY
    Provisioned
