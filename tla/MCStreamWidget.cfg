SPECIFICATION WidgetSpec
CONSTANTS
    NumFrames = 4
    Pauses = TRUE
CHECK_DEADLOCK FALSE
INVARIANTS NoTearing SleepsOnlyOnFull GuiNeverWaits
PROPERTIES FramesInOrder WidgetHandoffSpec EndsWithStream ClosesOutsideSwap
