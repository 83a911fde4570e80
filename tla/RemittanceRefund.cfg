CONSTANTS
    a1 = a1
    a2 = a2
    Signer <- MCSigner
    Sender = {s1}
    Agent = {g1}
    Oracle = {o1}
    Evidence = {h1, h2}
    None = None
    SignerVecs <- MCSignerVecs
    Thresholds <- MCThresholds
    Amounts <- MCAmounts
    Splits <- MCSplits
    Minutes = {0, 1}
    Heights <- MCHeights
    MinAmount = 2
    MaxAmount = 2
    MaxTimeoutLedgers = 20
    MaxEscrows = 1
    MaxClaims = 2
SPECIFICATION Spec
PROPERTIES
    RefundsOnlyOpenEscrows
