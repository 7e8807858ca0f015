SPECIFICATION Spec
CONSTANTS
    t1 = t1
    o1 = o1
    r1 = r1
    r2 = r2
    Torrents = {t1}
    Stored = {t1}
    MaxSessions = 1
    MaxPreloads = 1
    Ops = {o1}
    Readers = {r1, r2}
    Pieces = 1
    Capacity = 0
    Routes = {"preload", "remove"}
    Incidents = {"modtimes", "before", "remove"}
INVARIANTS ReadersKeepFiles
