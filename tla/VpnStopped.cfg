\* The backend starts while the VPN module is stopped, nothing fails.
CONSTANTS
    Lans = {lanA}
    Items = {}
    Workers = {w1}
    MaxRequests = 2
    MaxFaults = 0
    MaxIds = 9
SPECIFICATION Spec
PROPERTY StartRepairsForGood
CHECK_DEADLOCK FALSE
