\* Two people, two groups, every service may fail.
CONSTANTS
    Users = {u1, u2}
    Groups = {g1, g2}
    Services = {"ldap", "dav", "cal", "db"}
    MaxPasswords = 4
    MaxRequests = 3
    MaxSignIns = 1
    MaxStops = 1
SPECIFICATION Spec
CHECK_DEADLOCK FALSE
INVARIANTS
    TypeOK
    LoginsFollow
    RulesConfine
    DisabledStayOut
