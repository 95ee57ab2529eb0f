\* The instance of MCPortableMount.cfg.
SPECIFICATION MCSpec
CONSTANTS
    Threads = {t1, t2}
    Files = {f}
    MaxHandles = 2
    MaxRuns = 2
    None = None
SYMMETRY Symmetry
CHECK_DEADLOCK FALSE
PROPERTY ReleaseSavesNothing
