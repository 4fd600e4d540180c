\* Two moves of others in repositories of two files; four files at rest.
SPECIFICATION Spec
CONSTANTS
    lf = lf
    crlf = crlf
    other = other
    huge = huge
    c0 = c0
    c1 = c1
    Paths = {1, 2, 3, 4}
    Contents = {lf, crlf, other, huge}
    Big = {huge}
    Key <- TextKey
    None = None
    Link = Link
    Unseen = Unseen
    Commits = {c0, c1}
    Worlds <- SmallWorlds
    Loose = {1, 2}
    Returns = FALSE
    Faulty = TRUE
INVARIANTS
    TypeOK
    RenamesMatch
    RestIsReported
    StatusIsOfHeld
PROPERTIES
    ReportsOneView
CHECK_DEADLOCK FALSE
