CONSTANTS
    Calls = {c1, c2, c3}
    Concurrency = 1
    TimeoutHappens = FALSE
    ClearFails = FALSE
    None = None
SPECIFICATION Spec
INVARIANTS
    OwnVerdict
PROPERTY
    ImplementsContract
