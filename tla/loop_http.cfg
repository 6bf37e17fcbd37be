\* A keep-alive request and one that closes: is every response sent before the FIN?
CONSTANTS
    Half = 128
    MaxAhead = 8
    DupThresh = 2
    RcvWnd = 8
    Mss = 3
    MaxSackBlocks = 3
    KeepaliveProbes = 1
    q1 = q1
    q2 = q2
    Quads = {q1, q2}
    cookie_mix <- MCMix
    MacRange = 36
    CounterRange = 3
    CounterMod = 9
    MssTable <- MCMssTable
    SynBacklog = 1
    PeerIsn = 5
    Iss = 254
    Cwnd = 12
    Offers = {1, 3}
    MaxTick = 4
    MaxSeg = 3
    Scenarios <- OnlyPipelined

SPECIFICATION LoopSpec

PROPERTIES
    NothingUnsentAtClose
