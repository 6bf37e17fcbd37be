\* The RTT estimator with either congestion controller.
CONSTANTS
    Samples = {1, 2, 4, 8, 100}
    MinRto = 10
    MaxRto = 300
    MaxScale = 4
    Mss = 2
    InitSsthresh = 12
    U32 = 64
    DupThresh = 2
    RateScale = 2
    MaxRtt = 100
    BwWindow = 1
    RtpropWindow = 3
    ProbeRttTime = 2
    FullBwCount = 2
    Acked = {1, 2}
    Targets = {2, 9, 30}
    Gaps = {0, 1, 2}
    Flights = {4, 8}
    Paths <- MCPaths

SPECIFICATION ControlSpec

INVARIANTS
    WindowNeverCloses
    EpochOnlyInAvoidance
    FilterIsWindowMax
    ModeMeansPipe
    RtoInBounds
    SmoothedWithinSamples

PROPERTIES
    RecoveryDeflates
    BackOffHolds
    ReachesProbeBw
