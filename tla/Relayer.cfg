CONSTANTS
    c1 = c1
    c2 = c2
    c3 = c3
    p1 = p1
    p2 = p2
    Call <- MCCall
    Payment <- MCPayment
    PaymentOf <- MCPaymentOf
    None = None
    MaxOutside = 1
SPECIFICATION FairSpec
INVARIANTS
    TypeOK
    SerialisedUntilLapse
    OutcomeIsTruthful
    PaidAtMostOnce
    StaleFetchHasCause
PROPERTIES
    LockReleased
CHECK_DEADLOCK FALSE
