\* Two employees and two requests at once on a group with a message and its file
\* in it; one of the two has the chat open, in up to two tabs.
SPECIFICATION Spec
CONSTANTS
    Users = {ann, ben}
    Creator = ann
    Watchers = {ben}
    Tabs = {t1, t2}
    Workers = {w1, w2}
    QueueSize = 1
    MaxMessages = 2
    MaxCalls = 3
INVARIANTS
    TypeOK
    NothingAfterSessionEnds
    GoneIsShownGone
    PushesReachMembers
    GroupIsWhole
PROPERTY ConnectionsEnd
CHECK_DEADLOCK FALSE
