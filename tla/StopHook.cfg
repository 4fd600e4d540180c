\* Two handlers of one version; everything may go wrong except a kill between record and answer.
SPECIFICATION FairSpec
CONSTANTS
    h1 = h1
    h2 = h2
    f1 = f1
    f2 = f2
    Handlers = {h1, h2}
    Findings = {f1, f2}
    Sees <- SeesAll
    Others = TRUE
    KillPoints = {"input", "analyse", "decide", "record", "clear"}
    Faulty = TRUE
    RecordFails = TRUE
    Pruning = TRUE
    Oversize = TRUE
    MaxEdits = 2
INVARIANTS
    TypeOK
    ReleasedWasTold
PROPERTIES
    KeepsContract
    StopsInTheEnd
