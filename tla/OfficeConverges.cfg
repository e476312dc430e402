\* Two syncs at once, nothing fails.
CONSTANTS
    Lans = {lanA, lanB}
    Items = {"tcp/445"}
    Workers = {w1, w2}
    MaxRequests = 3
    MaxFaults = 0
    MaxIds = 9
SPECIFICATION Spec
INVARIANT OfficeConverges
CHECK_DEADLOCK FALSE
