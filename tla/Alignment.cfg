\* Up to two old assertions and three new ones, own ones and lent ones.
SPECIFICATION Spec
CONSTANTS
    Kinds <- MCKinds
    NoTree = NoTree
    NoSubject = NoSubject
    NoCheck = NoCheck
    Unknown = Unknown
    MaxBefore = 2
    MaxAfter = 3
INVARIANTS
    TypeOK
    TwinsArePaired
    RemovedOnlyIfFewer
    NoDecoy
\* the pairing ends
CHECK_DEADLOCK FALSE
