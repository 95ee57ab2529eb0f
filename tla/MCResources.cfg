\* Two clients, a file and a directory with a file, three operations.
SPECIFICATION MCSpec
CONSTANTS
    d = d
    df = df
    g = g
    changer = changer
    reader = reader
    v0 = v0
    v1 = v1
    MaxChanges = 2
    MaxReads = 1
    Clients = {changer, reader}
    Paths = {d, df, g}
    Root = Root
    Parent <- MCParent
    Contents = {v0, v1}
    Empty = v0
    Size <- MCSize
    Absent = Absent
    Dir = Dir
    None = None
    Attr = 1
    Directory = 2
    Content = 2
    MaxTime = 1
    MaxEdits = 1
CHECK_DEADLOCK FALSE
INVARIANTS OwnChangesSeen HonestDeadlines RenameHappened
PROPERTY OverwritesCompared
