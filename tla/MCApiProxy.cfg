CONSTANTS
    main = main
    judge = judge
    stranger = stranger
    Slots = {s1, s2}
    MaxCost = 2
    Agents <- MCAgents
    Limit <- MCLimit
SPECIFICATION Spec
INVARIANTS
    BudgetHolds
    LedgerOrdered
PROPERTY
    ExhaustedIsFinal
