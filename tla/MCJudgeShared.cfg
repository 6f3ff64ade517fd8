CONSTANTS
    Calls = {c1, c2}
    Concurrency = 2
    TimeoutHappens = TRUE
    ClearFails = TRUE
    None = None
SPECIFICATION FairSpec
INVARIANTS
    UncontendedIsOwn
    ApprovalWasWritten
PROPERTY
    EveryJudgmentReturns
