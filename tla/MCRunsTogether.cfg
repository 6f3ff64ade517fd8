CONSTANTS
    Tasks = {t1, t2}
    Attacks = {t1}
    Kinds = {"dangerous"}
    MaxConcurrency = 2
    MayRaise = FALSE
    RegisterFails = TRUE
    KillFails = TRUE
    JudgesInvoke = TRUE
    None = None
SPECIFICATION Spec
INVARIANTS
    SuccessWasPosted
