\* A module served under the portal's own address (like wiki), on which any
\* call may fail: liveness, and the refinement of ModuleClaim. No crash: one is
\* a step of ModuleClaim that ends any operation without an outcome.
SPECIFICATION Spec
CONSTANTS
    Modules = {wiki}
    Workers = {w1, w2}
    Secrets = {s1, s2, s3}
    NoSecret = NoSecret
    Typed = {NoSecret}
    Routed = {}
    Pathed = {wiki}
    Faults = {"read", "db", "render", "up", "write", "reload", "down"}
PROPERTIES
    ClaimsAreReleased
    ImplementsModuleClaim
CHECK_DEADLOCK FALSE
