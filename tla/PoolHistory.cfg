\* Two firings that could overlap and a request; an interval of three milliseconds,
\* two milliseconds to the second.
SPECIFICATION Spec
SYMMETRY WriterSymmetry
CONSTANTS
    Firings = {f1, f2}
    Visits = {v1}
    MinInterval = 3
    MaxTime = 5
    MaxFaults = 2
    MsPerSecond = 2
    DefaultLimit = 2
    MaxPoints = 3
INVARIANTS
    SamplingTypeOK
    OneFiringAtWork
    CloseSamplesOverlap
    HistoryIsNewest
