\* Transfer and close with loss, duplication, reordering and early timers; SACK
\* recovery; data both ways with simultaneous closes and ticking clocks.
CONSTANTS
    NoConn = NoConn
    Half = 8
    MaxAhead = 4
    DupThresh = 1
    RcvWnd = 3
    Mss = 1
    MaxSackBlocks = 3
    KeepaliveProbes = 1
    Iss <- MCIss
    Scenarios <- SafetyScenarios

SPECIFICATION Spec

INVARIANTS
    StreamIntegrity
    SequenceAgreement
    EofIsComplete
    NothingForgotten
    PawsSparesNeeded

PROPERTIES
    ImplementsByteStream
