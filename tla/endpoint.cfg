\* One connection against an arbitrary peer: opening, receiving and closing, or
\* sending, loss recovery and windows.
CONSTANTS
    Half = 8
    MaxAhead = 4
    DupThresh = 2
    RcvWnd = 2
    Mss = 1
    MaxSackBlocks = 3
    KeepaliveProbes = 1
    Isns = {15}
    Stamps = {0}
    Cwnds = {1, 3}
    Chunks <- MCChunks
    MaxRcvd = 2
    Peers <- AllPeers

SPECIFICATION Spec

INVARIANTS
    TypeOK
    StateMeansFins
    FlightIsQueued

PROPERTIES
    NothingAfterFin
    UnaAdvances
    WindowRespectedOutsideRecovery
    HalvesCloseIndependently
