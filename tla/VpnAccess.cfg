\* Two requests at once about one person's VPN access, and the devices that join.
CONSTANTS
    Users = {u1, u2}
    Workers = {w1, w2}
    Flaky = {"db", "netbird"}
    MaxGrants = 3
    MaxDevices = 3
    MaxRequests = 3
SPECIFICATION Spec
INVARIANTS TypeOK OnlyAdmitted AccessIsRecorded
PROPERTY NobodyLosesAccess
CHECK_DEADLOCK FALSE
