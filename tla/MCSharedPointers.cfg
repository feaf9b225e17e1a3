SPECIFICATION MCSpec
CONSTANTS
    First = w1
    Pointers = {p1, p2}
    Windows = {w1, w2}
    Hovering = {w1}
    WallPlaces = 1
    MaxSteps = 6
SYMMETRY Symmetry
CHECK_DEADLOCK FALSE
INVARIANTS HoverInv NormalHasOwnSize
PROPERTIES MoveKeepsSize
