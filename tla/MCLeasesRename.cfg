\* Two writers of one notebook around a remote rename.
SPECIFICATION Spec
CONSTANTS
    Clients = {c1, c2, c3}
    dir = dir
    data = data
    oldName = oldName
    newName = newName
    lakeFile = lakeFile
    notebook = notebook
    Files <- MCFiles
    Keys <- MCKeys
    KeysOf <- MCKeysOf
    Below <- MCBelow
    Scopes <- MCScopes
    MaxOpenHandles = 2
    MaxWriters = 2
SYMMETRY Symmetry
INVARIANT OneWriterPerRemoteFile
