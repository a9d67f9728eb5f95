SPECIFICATION FairFloorSpec
CONSTANTS
    a = a
    n = n
    Null = Null
    SeedIds <- MCSeedIds
    FreshIds <- MCFreshIds
    Profile <- MCProfile
    SeedScore <- MCSeedScore
    SeedStatus <- MCSeedStatus
    Deltas <- MCDeltas
    FilterOptions <- MCFilterOptions
    Incomplete = {n}
    MaxTicks = 2
    MaxDrops = 1
    MaxMounts = 2
    MaxSteps = 3
INVARIANT RowsAreReal
PROPERTIES
    OnlyOldNewsSetsBack
    EventuallyLive
CHECK_DEADLOCK FALSE
