\* Two installers and a user who edits, all at any moment.
SPECIFICATION Spec
CONSTANTS
    Old = old
    New = new
    Mine = mine
    Runtimes = {old, new}
    Customs = {mine}
    Installers = {i1, i2}
    Contents <- RaceContents
    Edits <- RaceEdits
    Faulty = TRUE
INVARIANTS
    TypeOK
    OneRuntime
    ReinstallIsNothing
PROPERTIES
    UserSettingsKept
\* installers end
CHECK_DEADLOCK FALSE
