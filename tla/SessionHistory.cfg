\* One session in a branching, merging, collected history of three commits.
SPECIFICATION Spec
CONSTANTS
    Sessions = {s1}
    Watched = {s1}
    Starters = {p1}
    User = User
    NoOne = NoOne
    MaxCommits = 3
    AgeLimit = 0
    MaxTime = 0
    Flaky = TRUE
    SlowWorld = FALSE
INVARIANTS
    PolicyPredatesSession
    SilenceMeansAnalysed
    SilenceIsNotSelfGoverned
\* the clock and the commits are bounded, and hooks need not fire
CHECK_DEADLOCK FALSE
