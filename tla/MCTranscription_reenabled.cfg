SPECIFICATION Spec
CONSTANTS
    t1 = t1
    t2 = t2
    c1 = c1
    c2 = c2
    Torrents = {t1}
    Keys <- OneBook
    Clients = {c1}
    Setting = setting
    Models = {m1}
    MaxInputs = 3
    MaxBoots = 1
    MaxWindows = 0
INVARIANT ReenablingResumes
CHECK_DEADLOCK FALSE
