CONSTANTS
    N = 2
    Chunk = 2
    BlockLen <- MCBlockLen
    Slack = 1
    Slips <- MCSlips
    Centers = {4, 5}
    Rates = {1, 2}
    MaxUnits <- MCUnits
    MaxOwn <- MCOwn
    MaxCalls = 2
    Worlds = {"dial", "rx"}
SPECIFICATION Spec
INVARIANTS InOrderAndCounted LossNeverOverstated SlicesTile
PROPERTIES ReadsAreHonest
CHECK_DEADLOCK FALSE
