SPECIFICATION Spec
CONSTANTS
    w1 = w1
    w2 = w2
    Widget = {w1, w2}
    Monitor = Monitor
    NoWidget = NoWidget
    MaxId = 2
CHECK_DEADLOCK FALSE
SYMMETRY Symmetry
INVARIANTS RegistryInv NumbersClashOnlyWithAwaited StreamsAreFound
