\* The only call that fails is the restore of the old files, which nothing
\* reports; the new version's containers do not stay up.
SPECIFICATION Spec
CONSTANTS
    MaxVersion = 2
    Needed = 2
    MaxChecks = 3
    Checkers = {c1}
    Faults = {"restore"}
INVARIANT RolledBackIsBack
CHECK_DEADLOCK FALSE
