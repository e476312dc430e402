\* The office setting is saved, syncs fail half-way, the backend restarts.
CONSTANTS
    Lans = {lanA, lanB}
    Items = {"tcp/445", "icmp"}
    Workers = {w1}
    MaxRequests = 4
    MaxFaults = 2
    MaxIds = 18
SPECIFICATION Spec
INVARIANTS TypeOK OfficeFollows
PROPERTY StartRepairs
CHECK_DEADLOCK FALSE
