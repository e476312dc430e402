\* As many requests at a time as the pool has connections: a save and a
\* change of the rules, or two saves.
SPECIFICATION Spec
CONSTANTS
    Writers = {ann, ben}
    Paths = {home, news}
    Contents = {c1, c2}
    Titles = {t1}
    Conns = 2
    Ops = {"save", "permit"}
    MaxRequests = 4
    None = None
PROPERTY SavesEnd
CHECK_DEADLOCK FALSE
