\* Two start hooks of two sessions, in a slow world with a sound Git.
SPECIFICATION Spec
CONSTANTS
    Sessions = {s1, s2}
    Watched = {s1}
    Starters = {p1, p2}
    User = User
    NoOne = NoOne
    MaxCommits = 2
    AgeLimit = 0
    MaxTime = 1
    Flaky = FALSE
    SlowWorld = TRUE
SYMMETRY StarterSymmetry
INVARIANTS
    TypeOK
    WriterKeepsItsFile
PROPERTIES
    RecordNeverReplaced
    OnlyStaleRecordsPruned
\* the clock and the commits are bounded, and hooks need not fire
CHECK_DEADLOCK FALSE
