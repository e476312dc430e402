\* One backup and one restore at a time, two versions of the platform, and
\* every call failing, up to the bound on failures.
SPECIFICATION Spec
CONSTANTS
    Modules = {wiki}
    Backups = {b1}
    Restores = {r1}
    Versions = 2
    keepSnapshots = 2
    Faults = {"snapshot", "migration", "db", "crash", "version", "remote", "dump", "volume", "restore", "install", "row"}
    MaxClock = 2
    MaxRuns = 2
    MaxFaults = 2
    MaxUpdates = 1
    None = None
    Broken = Broken
INVARIANTS
    TypeOK
    BackupHolds
PROPERTIES
    WayBack
    RunsEnd
CHECK_DEADLOCK FALSE
