CONSTANTS
    None = None
    Lease = {1, 2, 3, 4}
    Check = {c1, c2}
    Ttl = 2
    Threshold = 1
    MaxFaults = 1
    MaxSlow = 2
    MaxBusy = 1
SPECIFICATION FairSpec
INVARIANTS
    PoolStaysUsable
    DrainBeforeRevoke
    LeakHasCause
PROPERTIES
    CredentialsRecover
CHECK_DEADLOCK FALSE
