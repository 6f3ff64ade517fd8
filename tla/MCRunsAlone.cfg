CONSTANTS
    Tasks = {t1}
    Attacks = {t1}
    Kinds = {"dangerous"}
    MaxConcurrency = 1
    MayRaise = TRUE
    RegisterFails = FALSE
    KillFails = FALSE
    JudgesInvoke = FALSE
    None = None
SPECIFICATION FairSpec
INVARIANTS
    WorkspaceIsOwn
    HitsAreOwn
    SuccessWasApproved
    DefenseIsOwn
    AgentsWithinPermits
PROPERTIES
    ReportedOnce
    ExperimentEnds
