CONSTANTS
    Account = {a1, a2}
    Memo = {m1}
    Field = {name}
    Request = {q1, q2}
    MaxCustomers = 2
    MaxTransactions = 1
    User = {u1, u2}
    MaxVersion = 2
    Ask = {g1}
    Tier = {t1, t2}
    Fan = {f1}
    MaxKeys = 3
    MaxContents = 2
    Verification = {v1, v2}
    MaxReviews = 2
    MaxEvictions = 2
    Rate = {0, 100, 103}
    Call = {c1, c2, c3}
    StalenessThreshold = 1
    MaxTime = 2
SPECIFICATION Spec
SYMMETRY MCSymmetry
INVARIANTS
    ErasureIsAudited
    ExportHasCause
    ConsentReplyHasCause
    ContentStaysReadable
    GateHasCause
    ServedRateHasCause
CHECK_DEADLOCK FALSE
