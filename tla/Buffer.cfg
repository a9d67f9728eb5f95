SPECIFICATION FairSpec
CONSTANTS
    Capacity = 1
    Consumers = {c1, c2}
    MaxPushes = 4
    MaxRestarts = 1
INVARIANTS
    ZeroLossInOrder
    SpillDiscipline
    ReadsOwnFile
PROPERTIES
    ImplementsFifo
    AcceptedIsDelivered
    CloseStopsConsumers
