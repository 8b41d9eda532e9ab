SPECIFICATION Spec
CONSTANTS
    Hardware = {w1}
    Copies = {1}
    Tokens = {t1}
    Handlers = {a, b}
    Ops = {"heartbeat", "approve", "reject", "lifecycle", "enroll", "deny", "revoke"}
    MaxAge = 2
    MaxUses = 2
    MaxAttempts = 1
SYMMETRY Symmetric
INVARIANT FleetTypeOK
PROPERTIES
    DeclineLostOnlyIfStale
    ClosedTokenDrains
