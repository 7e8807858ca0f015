SPECIFICATION Spec
CONSTANTS
    t1 = t1
    t2 = t2
    c1 = c1
    c2 = c2
    Torrents = {t1}
    Keys <- OneBook
    Clients = {c1}
    Setting = setting
    Models = {m1, m2}
    MaxInputs = 3
    MaxBoots = 2
    MaxWindows = 1
CONSTRAINT Bounded
SYMMETRY Builds
INVARIANTS TypeOK SingleOwner ResourcesOwned StoredConsistent QueueSound RemovalIsExclusive
PROPERTIES KeepsTurns OnlyRemovalsLeaveBehind StartsInOrder CaptionsByOwner AnswersStayTrue
CHECK_DEADLOCK FALSE
