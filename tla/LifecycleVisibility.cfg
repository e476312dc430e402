\* Two requests at a time on a module with a host name of its own; no call
\* fails and the platform does not crash.
SPECIFICATION Spec
CONSTANTS
    Modules = {webdav}
    Workers = {w1, w2}
    Secrets = {s1, s2}
    NoSecret = NoSecret
    Typed = {NoSecret}
    Routed = {webdav}
    Pathed = {}
    Faults = {}
INVARIANT VisibilityIsHonoured
CHECK_DEADLOCK FALSE
