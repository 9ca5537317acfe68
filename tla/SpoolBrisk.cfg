CONSTANTS
    MaxNodes = 2
    MaxRows = 2
    RowsPerFile = 2
    MaxKills = 0
    Uploaders = {u}
    u = u
    Worlds <- MCBrisk
SPECIFICATION Spec
PROPERTY DeletedWhenTaken
CHECK_DEADLOCK FALSE
