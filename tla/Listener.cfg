CONSTANTS
    None = None
    MaxTx = 3
    LedgerOf <- MCLedgerOf
    Events <- SharedIds
    ContractIdForm = "hex"
    PageLimit = 2
    PoolSize = 12
    MaxSessions = 2
    MaxFaults = 2
SPECIFICATION FairSpec
INVARIANTS
    LossHasCause
    StreamCovers
PROPERTIES
    EventuallyStored
CHECK_DEADLOCK FALSE
