\* Somebody is disabled while the file share is stopped, nothing fails.
CONSTANTS
    Users = {u1, u2}
    Groups = {g1, g2}
    Services = {}
    MaxPasswords = 3
    MaxRequests = 1
    MaxSignIns = 0
    MaxStops = 1
SPECIFICATION Spec
CHECK_DEADLOCK FALSE
INVARIANTS
    DisabledStayOutOnceStarted
