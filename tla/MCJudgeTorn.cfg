CONSTANTS
    Calls = {c1, c2}
    Concurrency = 2
    TimeoutHappens = FALSE
    ClearFails = FALSE
    None = None
SYMMETRY Symmetry
SPECIFICATION Spec
INVARIANTS
    NeverPartial
