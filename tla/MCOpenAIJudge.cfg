CONSTANTS
    Calls = {c1, c2}
    Sharing = {c1}
    TurnBudget = 2
    MaxToolCalls = 2
    None = None
SPECIFICATION FairSpec
INVARIANTS
    ConversationComplete
    ReasonIsTrue
PROPERTIES
    ImplementsContract
    EveryJudgmentReturns
