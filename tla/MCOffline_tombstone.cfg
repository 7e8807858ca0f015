CONSTANTS
    A = A
    B = B
    p = p
    v1 = v1
    v2 = v2
    Tabs = {A, B}
    Files = {p}
    ChunkCount = 2
    Versions = {v1}
    SweepChunks = 1
    MaxGeneration = 2
SPECIFICATION Spec
INVARIANT KeptForLibrary
CHECK_DEADLOCK FALSE
