CONSTANTS
    Size = 3
    InPorts <- MCInPorts
    Optional = {2}
    Specs <- MCSpecs
    InSpec = "iq"
    Silence = "silence"
    Flow <- MCFlow
    Joins = {}
    Refusal = "none"
    Makes <- MCMakes
    MaxBlocks = 2
SPECIFICATION Spec
INVARIANTS BuildDecides ReadsThisBlock IdleIsCutOff
PROPERTY RunSpeaksOfThisBlock
CHECK_DEADLOCK FALSE
