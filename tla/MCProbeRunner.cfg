SPECIFICATION Spec
CONSTANTS
    Timeout = 3
    Limit = 3
    Written = 3
INVARIANTS Outcome
