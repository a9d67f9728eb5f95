SPECIFICATION FairSpec
CONSTANTS
    t1 = t1
    t2 = t2
    b = b
    x = x
    y = y
    None = None
    Tabs = {t1, t2}
    Browsers = {b}
    Jar <- MCJar
    Proposed <- MCProposed
    Paths = {"/response-console", "/tenant-admin"}
    Roles = {"analyst"}
    Buttons = {"approved"}
    MaxMoves = 3
    MaxClicks = 2
INVARIANT DecisionsAreInformed
PROPERTIES
    OnlyBlindOverwrites
    ConsolesConverge
    NavigationEnds
CHECK_DEADLOCK FALSE
