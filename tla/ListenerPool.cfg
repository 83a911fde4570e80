CONSTANTS
    None = None
    MaxTx = 2
    LedgerOf <- MCLedgerOf
    Events <- DistinctIds
    ContractIdForm = "hex"
    PageLimit = 2
    PoolSize = 2
    MaxSessions = 2
    MaxFaults = 0
SPECIFICATION FairSpec
PROPERTIES
    EventuallyStored
CHECK_DEADLOCK FALSE
