SPECIFICATION LayoutSpec
CONSTANTS
    Window <- OneWindow
    Side = 2
    Web = {}
    WallWidth = 4
    WallHeight = 4
    Positions <- TwoPositions
    Steps <- BothWays
    MaxLayouts = 5
    Sessions <- TwoSessions
    Reloads = FALSE
CHECK_DEADLOCK FALSE
INVARIANTS TreeInv SiblingsMeet SessionRestores
PROPERTIES PlacesKept
