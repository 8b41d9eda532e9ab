SPECIFICATION FairSpec
CONSTANTS
    Hardware = {w1}
    Copies = {1}
    Tokens = {t1}
    Handlers = {a}
    Ops = {"enroll", "deny"}
    MaxAge = 0
    MaxUses = 2
    MaxAttempts = 2
PROPERTY TokensCleaned
