SPECIFICATION FairSpec
CONSTANTS
    Panels <- MCPanels
    Nobody <- MCNobody
INVARIANTS
    OwnContainers
    ServedByOwn
    EndMeansStopped
    NamesFreed
PROPERTY SweepEnds
CHECK_DEADLOCK FALSE
