\* Two merges; a branch edits two files and may run allow.
SPECIFICATION Spec
CONSTANTS
    k1 = k1
    r1 = r1
    Keys = {k1}
    RuleOf <- OneRule
    Guard = Guard
    Tables <- SomeTables
    Usual = "usual"
    Guards <- SomeGuards
    Judges <- SomeJudges
    Cap = 1
    Ahead = 1
    Elsewhere = Elsewhere
    None = None
    Bases <- SomeBases
    Written <- SomeTexts
    LastDay = 1
    MaxMerges = 2
    MaxEdited = 2
    MaxAllows = 1
INVARIANTS
    TypeOK
    WeakeningsAreAccountedFor
    AllowIsHonoured
PROPERTIES
    PolicyWeakensOnlyAsStated
    LedgerOnlyGrows
CHECK_DEADLOCK FALSE
