\* A request that ends on an error after the last member was taken out.
SPECIFICATION Spec
CONSTANTS
    Users = {ann, ben}
    Creator = ann
    Watchers = {}
    Tabs = {t1, t2}
    Workers = {w1, w2}
    QueueSize = 1
    MaxMessages = 2
    MaxCalls = 3
INVARIANT EmptyGroupsAreDropped
CHECK_DEADLOCK FALSE
