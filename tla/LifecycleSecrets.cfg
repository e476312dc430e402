\* Only publishing a route may fail.
SPECIFICATION Spec
CONSTANTS
    Modules = {webdav}
    Workers = {w1, w2}
    Secrets = {s1, s2}
    NoSecret = NoSecret
    Typed = {NoSecret}
    Routed = {webdav}
    Pathed = {}
    Faults = {"write"}
INVARIANT SecretsMatchTheVolume
CHECK_DEADLOCK FALSE
