CONSTANTS
    honest1 = honest1
    honest2 = honest2
    byzantine = byzantine
    Judges <- Panel3
    Byzantine = {byzantine}
    Requests = {r1, r2}
SPECIFICATION FairSpec
INVARIANTS
    MinorityCannotAllow
    AllowedIsRecorded
    RecordsAreJudgments
PROPERTIES
    ImplementsPanel
    ImplementsGuard
    EveryCallIsAnswered
