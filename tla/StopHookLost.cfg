\* A kill, or output that cannot be written, between record and answer.
SPECIFICATION Spec
CONSTANTS
    h1 = h1
    h2 = h2
    f1 = f1
    f2 = f2
    Handlers = {h1}
    Findings = {f1, f2}
    Sees <- SeesAll
    Others = TRUE
    KillPoints = {"emit"}
    Faulty = FALSE
    RecordFails = FALSE
    Pruning = FALSE
    Oversize = FALSE
    MaxEdits = 2
INVARIANTS
    ReleasedWasTold
