SPECIFICATION Spec
CONSTANTS
    Hardware = {w1}
    Copies = {1, 2}
    Tokens = {t1, t2}
    Handlers = {a}
    Ops = {"approve", "reject", "import", "enroll", "deny", "revoke", "overview"}
    MaxAge = 1
    MaxUses = 2
    MaxAttempts = 2
SYMMETRY Symmetric
INVARIANTS
    SingleUse
    OneRowPerMachine
    AttemptOnce
