\* Three clients, two files, limits that one or two of them exhaust.
SPECIFICATION Spec
CONSTANTS
    Clients = {c1, c2, c3}
    dir = dir
    data = data
    oldName = oldName
    newName = newName
    lakeFile = lakeFile
    notebook = notebook
    Files <- MCFiles
    Keys <- MCKeys
    KeysOf <- MCKeysOf
    Below <- MCBelow
    Scopes <- MCScopes
    MaxOpenHandles = 2
    MaxWriters = 2
SYMMETRY Symmetry
INVARIANTS CountsExact WriterOwnsKey NoLostWakeup
PROPERTY ImplementsLeaseTable
