SPECIFICATION MCSpec
CONSTANTS
    First = w1
    Second = w2
    Measured = 3000
    Widgets = {w1, w2}
    Declared = 6000
    Observations = {0, 3000}
    VisualShares = {0, 1}
    InteractWeight = 2
    WakeUpGuess = 6000
    ManualTR = 0
    BucketParts = 2
    MaxRounds = 1
CHECK_DEADLOCK FALSE
INVARIANTS LockInv StopInv
PROPERTIES SharesFairly GuiGoesOn
