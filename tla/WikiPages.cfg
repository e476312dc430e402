\* Two requests at a time that save, delete and rename pages at two paths,
\* attach and detach files and set rules, with one connection more than that.
SPECIFICATION Spec
CONSTANTS
    Writers = {ann, ben}
    Paths = {home, news}
    Contents = {c1, c2}
    Titles = {t1}
    Conns = 3
    Ops = {"save", "delete", "rename", "attach", "detach", "permit"}
    MaxRequests = 3
    None = None
INVARIANTS
    TypeOK
    NoLostUpdate
    PagesAreWhole
PROPERTY RequestsEnd
CHECK_DEADLOCK FALSE
