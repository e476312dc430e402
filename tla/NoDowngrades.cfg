\* Two versions of the platform; a migration may fail, and the platform may
\* crash.
SPECIFICATION Spec
CONSTANTS
    Modules = {wiki}
    Backups = {b1}
    Restores = {}
    Versions = 2
    keepSnapshots = 2
    Faults = {"crash", "version"}
    MaxClock = 0
    MaxRuns = 0
    MaxFaults = 3
    MaxUpdates = 0
    None = None
    Broken = Broken
INVARIANT NoDowngrades
CHECK_DEADLOCK FALSE
