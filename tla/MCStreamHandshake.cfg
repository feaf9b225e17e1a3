SPECIFICATION Spec
CONSTANTS
    Launched = {a1, a2}
    Manual = {m}
    MaxCloses = 1
    NoApp = NoApp
INVARIANTS PairingInv ListeningInv
CHECK_DEADLOCK FALSE
SYMMETRY Symmetry
