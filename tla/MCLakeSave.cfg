\* One path and two uploads, or two paths and one; one write by another client.
SPECIFICATION MCSpec
CONSTANTS
    none = none
    text = text
    Paths = {p1, p2}
    Contents = {none, text}
    Empty = none
    Chunks <- MCChunks
    MaxPuts = 2
    MaxEdits = 1
    MaxTags = 3
SYMMETRY Symmetry
INVARIANTS SavedOrKept CommitsExact StagesCleaned
PROPERTIES OverwritesKnown SavesInOrder
