SPECIFICATION WidgetSpec
CONSTANTS
    NumFrames = 3
    Pauses = FALSE
PROPERTIES ClosingEnds
CHECK_DEADLOCK FALSE
