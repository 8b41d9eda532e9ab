SPECIFICATION Spec
CONSTANTS
    Writers = {a, b}
    MaxId = 3
INVARIANT ChainVerifies
