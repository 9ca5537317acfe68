CONSTANTS
    FanoutDepth = 2
    InlineDepth = 2
    Lens = {1, 2}
    MaxBlocks = 4
    MaxCopies = 1
    Mixtures = {{"slow"}, {"inline"}, {"inline", "slow"}, {"lossy"}, {"lossy", "slow"}, {"lossy", "shuffled"}}
SPECIFICATION PumpSpec
INVARIANTS ReaderOnTime BlocksAccounted
CHECK_DEADLOCK FALSE
