SPECIFICATION Spec
CONSTANTS
    Workers = {w1, w2, w3}
    NoWorker = NoWorker
    LeaseDuration = 1
    MaxTime = 4
    MaxBlock = 0
    MaxStops = 1
    MaxFailures = 1
CHECK_DEADLOCK FALSE
SYMMETRY Interchangeable
INVARIANT TypeOK
INVARIANT MutualExclusion
INVARIANT AtMostOneLateWrite
PROPERTY CheckpointNeverBack
