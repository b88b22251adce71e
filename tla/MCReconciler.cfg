SPECIFICATION Spec
CONSTANTS
    e1 = e1
    e2 = e2
    Endpoint = {e1, e2}
    Group = {g1, g2}
    Client = {c1}
    NoEp = NoEp
    NoReq = NoReq
    NoData = NoData
    Mode <- AllModes
CHECK_DEADLOCK FALSE
INVARIANT KernelMatchesServices
INVARIANT LoopAlive
INVARIANT LastCommandWins
PROPERTY Converges
