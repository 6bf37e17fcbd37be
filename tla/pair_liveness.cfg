\* What must happen in the end, with one datagram lost and reordering.
CONSTANTS
    NoConn = NoConn
    Half = 8
    MaxAhead = 4
    DupThresh = 1
    RcvWnd = 3
    Mss = 1
    MaxSackBlocks = 3
    KeepaliveProbes = 1
    Iss <- MCIss
    Scenarios <- LivenessScenarios

SPECIFICATION FairSpec

PROPERTIES
    HandshakeCompletes
    EverythingArrives
    TeardownCompletes
