\* A person signs in while being deleted, nothing fails.
CONSTANTS
    Users = {u1, u2}
    Groups = {g1, g2}
    Services = {}
    MaxPasswords = 3
    MaxRequests = 2
    MaxSignIns = 1
    MaxStops = 0
SPECIFICATION Spec
CHECK_DEADLOCK FALSE
INVARIANTS
    CutOff
