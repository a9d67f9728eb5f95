SPECIFICATION FloorSpec
CONSTANTS
    a = a
    n = n
    Null = Null
    SeedIds <- MCSeedIds
    FreshIds <- MCFreshIds
    Profile <- MCProfile
    SeedScore <- MCSeedScore
    SeedStatus <- MCSeedStatus
    Deltas <- MCDeltas
    FilterOptions <- MCFilterOptions
    Incomplete = {n}
    MaxTicks = 1
    MaxDrops = 0
    MaxMounts = 1
    MaxSteps = 5
PROPERTY ChordOnlyJumps
CHECK_DEADLOCK FALSE
