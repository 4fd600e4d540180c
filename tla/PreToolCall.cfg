\* A file with its checks or without.  Inputs of exactly the cap, of one byte
\* and of two bytes more, and chunks that straddle it.
SPECIFICATION CallSpec
CONSTANTS
    Strengths = {0, 1}
    OnError = "block"
    Faulty = TRUE
    Cap = 1
    Chunk = 2
    MaxSize = 3
    ReadsFail = TRUE
INVARIANTS
    CallTypeOK
    ObjectFitsTheCap
    GivenUpForCause
    NoSilentRoute
    UnanalysedIsAsked
PROPERTIES
    EveryCallAnswered
