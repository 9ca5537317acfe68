CONSTANTS
    MaxNodes = 2
    MaxRows = 2
    RowsPerFile = 2
    MaxKills = 1
    Uploaders = {u, v}
    u = u
    v = v
    Worlds <- MCWorlds
SPECIFICATION Spec
INVARIANT RowsGoOnce
PROPERTIES FiledUntilTaken Delivered
CHECK_DEADLOCK FALSE
