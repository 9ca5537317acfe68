CONSTANTS
    FanoutDepth = 2
    InlineDepth = 2
    Lens = {1}
    MaxBlocks = 5
    MaxCopies = 0
    Mixtures = {{"slow"}}
SPECIFICATION PumpSpec
INVARIANTS TimebaseTrue
CHECK_DEADLOCK FALSE
