SPECIFICATION Spec
CONSTANTS
    None = None
    NoEvent = NoEvent
    MAX_POINTS_PER_NODE = 1
    MAX_DEPTH = 2
    Times = {0, 3, 10, 40}
    Cases = {"A", "B"}
    FirstSeen <- MCFirstSeen
    Links <- MCLinks
    columnCount = 3
    COLUMN_WIDTH = 8
    ROW_HEIGHT = 8
    HIT_RADIUS_PX = 8
    MIN_ZOOM = 2
    MAX_ZOOM = 8
    LABEL_ZOOM_THRESHOLD = 6
    MAX_LABELS = 4
    REPLAY_LIMIT = 2
    Cursors <- MCCursors
    Sizes <- MCSizes
    MaxOps = 4
INVARIANTS
    TreeMissesNothing
    CursorKeepsItsPoint
    MarksAreHonest
    TimelineKeepsOrder
PROPERTIES
    ReplayAdvances
CHECK_DEADLOCK FALSE
