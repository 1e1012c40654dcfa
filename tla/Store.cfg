SPECIFICATION FairSpec
CONSTANTS
    u1 = u1
    u2 = u2
    p1 = p1
    p2 = p2
    None = None
    User = {u1, u2}
    Page = {p1}
    SlowOpens = FALSE
    QuietForms = TRUE
    SignInTwice = FALSE
    Overlap = FALSE
    MaxOpenFailures = 1
    MaxLoads = 3
    MaxForms = 4
CHECK_DEADLOCK FALSE
INVARIANT
    TypeOK
    OwnStore
    DeviceOfAccount
    
PROPERTY
    FlowsEnd
