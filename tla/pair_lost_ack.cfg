\* The last ACK of a close is lost.
CONSTANTS
    NoConn = NoConn
    Half = 8
    MaxAhead = 4
    DupThresh = 1
    RcvWnd = 3
    Mss = 1
    MaxSackBlocks = 3
    KeepaliveProbes = 1
    Iss <- MCIss
    Scenarios <- LostAckScenarios

SPECIFICATION FairSpec

PROPERTIES
    TimeWaitReAcks
