\* One scope, two names on two levels, two handles, room for three entries.
SPECIFICATION OverlaySpec
CONSTANTS
    workspace = workspace
    lakehouse = lakehouse
    Scopes <- MCScopes
    Components = {a, b}
    Handles = {h1, h2}
    Nodes = {1, 2, 3, 4, 5, 6}
    MaxDepth = 2
    MaxEntries = 3
    MaxBytes = 2
    MaxFileSize = 2
SYMMETRY Symmetry
VIEW View
INVARIANTS AccountsForDisk RestartAccepts
