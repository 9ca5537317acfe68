CONSTANTS
    N = 2
    Chunk = 1
    BlockLen <- MCOnes
    Slack = 4
    Slips <- MCExact
    Centers = {4}
    Rates = {1}
    MaxUnits <- MCEight
    MaxOwn <- MCNone
    MaxCalls = 1
    Worlds = {"rx"}
SPECIFICATION Spec
INVARIANTS BacklogWithinSlack
CHECK_DEADLOCK FALSE
