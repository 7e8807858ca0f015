SPECIFICATION FairSpec
CONSTANTS
    t1 = t1
    r1 = r1
    r2 = r2
    o1 = o1
    Torrents = {t1}
    Stored = {}
    MaxSessions = 1
    MaxPreloads = 1
    Ops = {}
    Readers = {r1}
    Pieces = 1
    Capacity = 1
    Routes = {"register", "preload", "remove"}
    Incidents = {"stop", "crash", "torrent"}
INVARIANTS RunningPreloadRuns ClosedIsQuiet
PROPERTIES RemovalAndCloseEnd
