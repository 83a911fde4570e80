CONSTANTS
    Reference = {r1}
    MaxRestarts = 1
SPECIFICATION WebhookSpec
INVARIANTS
    OneEffectPerProvider
    SettlementLossHasCause
PROPERTIES
    QueueDrains
CHECK_DEADLOCK FALSE
