SPECIFICATION Spec
CONSTANTS
    Rules <- ShippedRules
    Events <- MCEvents
    Histories <- MCHistories
    Schema <- MCSchema
    assetGroups <- MCAssetGroups
    MaxEvents = 3
    MaxWarmUps = 2
INVARIANTS
    PathsConform
    OrderDoesNotMatter
    NoveltyIsEarned
PROPERTY
    ReplayIsStable
