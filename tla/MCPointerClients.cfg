SPECIFICATION ClientsSpec
CONSTANTS
    Clients = {c1, c2}
    MaxConns = 2
    MaxFlight = 1
CHECK_DEADLOCK FALSE
INVARIANTS SenderInv PointerGoesWithThread
PROPERTIES ClientsLeave MouseComesBack
