SPECIFICATION Spec
CONSTANTS
    NumFrames = 4
    MapFails = TRUE
    Closes = TRUE
CHECK_DEADLOCK FALSE
INVARIANTS SharesBuffer
PROPERTIES Uploads WidgetCloses
