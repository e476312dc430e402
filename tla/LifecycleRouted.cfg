\* A module with a host name of its own (like fileshare-webdav), two requests
\* at a time, every call may fail, and the platform may crash at any time.
SPECIFICATION Spec
CONSTANTS
    Modules = {webdav}
    Workers = {w1, w2}
    Secrets = {s1, s2, s3}
    NoSecret = NoSecret
    Typed = {NoSecret}
    Routed = {webdav}
    Pathed = {}
    Faults = {"db", "render", "up", "write", "reload", "down", "crash"}
INVARIANTS
    TypeOK
    OneOperationPerModule
    InstallOwnsItsRow
    DeployedSecretsAgree
PROPERTIES
    ConfigSurvivesUninstall
    StatusIsTrueWhenRecorded
CHECK_DEADLOCK FALSE
