\* A published version may have a manifest that cannot be loaded; no call fails
\* for any other reason, and no check runs beside the update.
SPECIFICATION Spec
CONSTANTS
    MaxVersion = 2
    Needed = 2
    MaxChecks = 3
    Checkers = {c1}
    Faults = {}
INVARIANT FailedMeansOldVersionIsBack
CHECK_DEADLOCK FALSE
