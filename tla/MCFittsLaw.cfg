SPECIFICATION MCSpec
CONSTANTS
    NumSubjects = 2
    NumTargets = 2
    NumWidgets = 4
    Streams = {3}
    Pointers = {p1, p2}
    MaxPresses = 3
    MaxCalls = 1
SYMMETRY Symmetry
CHECK_DEADLOCK FALSE
INVARIANTS RoundInv FramesAccounted FinishIsSafe
