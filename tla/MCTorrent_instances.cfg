SPECIFICATION AnySpec
CONSTANTS
    t1 = t1
    t2 = t2
    o1 = o1
    Torrents = {t1, t2}
    Stored = {t1}
    MaxSessions = 2
    MaxPreloads = 1
    Ops = {o1}
    Readers = {}
    Pieces = 1
    Capacity = 1
    Routes = {"preload"}
    Incidents = {}
INVARIANTS SessionsSound RemovedMeansGone
PROPERTIES PruneFits
