\* Every way to cut a stream, every order of arrival, across the wrap.
CONSTANTS
    Half = 8
    Base = 14
    StreamLen = 7
    MaxAhead = 4

SPECIFICATION Spec

INVARIANTS
    DeliversUnbrokenPrefix
    SackBlocksAreMaximal
