SPECIFICATION FairSpec
CONSTANTS
    Hardware = {w1}
    Copies = {1}
    Tokens = {t1}
    Handlers = {a, b}
    Ops = {"heartbeat", "approve", "enroll", "deny"}
    MaxAge = 2
    MaxUses = 2
    MaxAttempts = 1
PROPERTIES
    SilentGoesOffline
    LiveMachineShown
    UnnamedTokensCleaned
