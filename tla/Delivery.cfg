CONSTANTS
    None = None
    Nothing = Nothing
    Request = {r1, r2, r3}
    Fetch = {r1, r2, r3}
    Server = {s1, s2}
    Drain = {d1, d2}
    Payment = {1}
    Key = {1}
    MaxAttempts = 2
    MaxFaults = 1
    MaxExpiries = 1
SPECIFICATION Spec
SYMMETRY MCSymmetry
INVARIANTS
    TypeOK
    RepeatHasCause
    SuccessIsTruthful
    DropsAreEarned
    LossHasCause
CHECK_DEADLOCK FALSE
