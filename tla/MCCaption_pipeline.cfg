SPECIFICATION Spec
CONSTANTS
    Window = 6
    Context = 2
    TailTime = 3
    Tolerance = 1
    TailWords = 5
    HeadWords = 5
    Linger = 1
    MaxGap = 2
    MaxDuration = 5
    MaxWords = 3
    MinSegment = 2
    Chunks = {7}
    Drifts = {0, 1}
    Recordings <- MCRecordings
INVARIANTS
    PipelineSound
    TrackIsFaithful
    NeverRefused
    SeekFinds
PROPERTIES
    AbortEnds
