\* Two requests at a time on two names, one slot; after Close the mount ends.
SPECIFICATION MCSpec
CONSTANTS
    r1 = r1
    r2 = r2
    n1 = n1
    n2 = n2
    Requests = {r1, r2}
    Names = {n1, n2}
    Limit = 1
    Kinds = {"rename", "create", "write", "release", "lookup", "setattr"}
CHECK_DEADLOCK FALSE
INVARIANTS StaleIsGoing SlotsReturn
PROPERTIES StaleEnds CloseEnds
