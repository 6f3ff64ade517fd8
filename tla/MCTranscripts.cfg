CONSTANTS
    Judgments = {k1, k2, k3}
    Judges = {a, b}
    Prefixed = {}
    Concurrency = 1
    MinSession = 2
    Window = 3
    Horizon = 9
    Never = Never
    Dropped = Dropped
SYMMETRY Symmetry
SPECIFICATION Spec
INVARIANTS
    JoinIsOwn
    TranscriptsKept
