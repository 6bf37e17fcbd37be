\* One connection against an arbitrary peer: flow control during SACK recovery.
CONSTANTS
    Half = 8
    MaxAhead = 4
    DupThresh = 3
    RcvWnd = 4
    Mss = 1
    MaxSackBlocks = 3
    KeepaliveProbes = 1
    Isns = {15}
    Stamps = {0}
    Cwnds = {5}
    Chunks <- MCChunks
    MaxRcvd = 2
    Peers <- OnlySacker

SPECIFICATION Spec

PROPERTIES
    WindowRespected
