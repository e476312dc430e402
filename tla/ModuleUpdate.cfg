\* Two published versions after the first, one check at a time beside the
\* update, every call may fail, and the platform may restart.
SPECIFICATION Spec
CONSTANTS
    MaxVersion = 2
    Needed = 2
    MaxChecks = 3
    Checkers = {c1}
    Faults = {"download", "db", "copy", "extract", "restore", "reload", "up", "restart"}
INVARIANTS
    TypeOK
    OutcomeIsTrue
    CopiesBeforeChanges
PROPERTIES
    UpdatingEnds
CHECK_DEADLOCK FALSE
