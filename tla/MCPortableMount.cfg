\* Two callbacks at a time, two handles of one file, two processes.
SPECIFICATION MCSpec
CONSTANTS
    Threads = {t1, t2}
    Files = {f}
    MaxHandles = 2
    MaxRuns = 2
    None = None
SYMMETRY Symmetry
CHECK_DEADLOCK FALSE
INVARIANTS BackendOutlivesServing SuccessMeansSaved
PROPERTY CanceledByOwn
