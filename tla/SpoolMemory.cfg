CONSTANTS
    MaxNodes = 1
    MaxRows = 1
    RowsPerFile = 2
    MaxKills = 1
    Uploaders = {u}
    u = u
    Worlds <- MCKill
SPECIFICATION Spec
PROPERTY KillCostsNothing
CHECK_DEADLOCK FALSE
