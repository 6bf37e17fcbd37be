\* Two peers that open, close, reset and come back; one send in the run may fail.
CONSTANTS
    Half = 8
    MaxAhead = 4
    DupThresh = 2
    RcvWnd = 2
    Mss = 1
    MaxSackBlocks = 3
    KeepaliveProbes = 1
    Quads = {q1, q2}
    Incoming <- MCIncoming
    Isns = {15}
    Cwnds = {1}
    MaxAccepts = 2
    MaxFaults = 1
    MaxSends = 1

SPECIFICATION ServerFairSpec

INVARIANTS
    OfferedOnce
    AnnouncedIsReachable

PROPERTIES
    EstablishedIsOffered
    ClosedIsReaped
