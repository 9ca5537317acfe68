CONSTANTS
    f = f
    g = g
    o = o
    Front = {f, g}
    Own = {o}
    Dials = {1, 2}
    Home = 1
    InSpan <- MCInSpan
    Awkward <- MCAwkward
    MaxChanges = 4
    Worlds <- AwayWorlds
SPECIFICATION EditsSpec
INVARIANT ChangesStay
CHECK_DEADLOCK FALSE
