\* An edit and a delete of one message at once; nobody is connected.
SPECIFICATION Spec
CONSTANTS
    Users = {ann, ben}
    Creator = ann
    Watchers = {}
    Tabs = {t1, t2}
    Workers = {w1, w2}
    QueueSize = 1
    MaxMessages = 2
    MaxCalls = 2
INVARIANT DeletedStaysEmpty
CHECK_DEADLOCK FALSE
