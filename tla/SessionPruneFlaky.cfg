\* As SessionPrune, with a Git that may fail.
SPECIFICATION Spec
CONSTANTS
    Sessions = {s1, s2}
    Watched = {}
    Starters = {p1, p2}
    User = User
    NoOne = NoOne
    MaxCommits = 2
    AgeLimit = 0
    MaxTime = 1
    Flaky = TRUE
    SlowWorld = TRUE
SYMMETRY StarterSymmetry
PROPERTIES
    OnlyStaleRecordsPruned
\* the clock and the commits are bounded, and hooks need not fire
CHECK_DEADLOCK FALSE
