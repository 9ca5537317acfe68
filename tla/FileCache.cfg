CONSTANTS
    Workers = {shown, towers}
    shown = shown
    towers = towers
    Helpers = {towers}
    Pair = 2
    MaxVersion = 3
    Size <- MCSize
    Refusals = {2}
    MaxLosses = 1
    Worlds = {"one", "pair"}
    Missing = Missing
SPECIFICATION Spec
INVARIANT CopyStays
PROPERTIES CheckedIsTrue HaltedIsSilent BecomesCurrent
