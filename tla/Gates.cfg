SPECIFICATION Spec
CONSTANTS
    Assertions = {"a", "b"}
    Texts = {"t"}
    Keys = {"ka", "kb"}
    Contexts = {"pair", "smoke"}
    NoContext = "no"
    Text <- MCText
    Proof <- MCProof
    Losses <- MCLosses
    Arrivals <- MCArrivals
    MaxFindings = 3
    MaxArrivals = 2
INVARIANTS
    TypeOK
    ArrivalPaysOnce
    WholeUnitPaysOnce
    RelocationPasses
    FrozenPass
CHECK_DEADLOCK FALSE
