CONSTANTS
    A = A
    B = B
    p = p
    v1 = v1
    v2 = v2
    Tabs = {A, B}
    Files = {p}
    ChunkCount = 2
    Versions = {v1, v2}
    SweepChunks = 1
    MaxGeneration = 2
SPECIFICATION Spec
INVARIANTS
    TablesSound
    OneVersion
    LeaseHasHolder
PROPERTIES
    NothingLate
    KeepsPromise
CHECK_DEADLOCK FALSE
SYMMETRY Alike
