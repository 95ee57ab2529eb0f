SPECIFICATION MCSpec
CONSTANTS
    Keys = {k1, k2, k3}
    Callers = {c1, c2}
    Prefixes <- AllSubsets
    MaxAges = {0, 2}
    Retains = {0, 2}
    Sizes <- SignedSizes
    MaxEntries = 2
    ByteLimit = 3
    MaxClock = 2
    MaxVersion = 1
    Data = Data
    Data2 = Data2
    Lake = Lake
    Clients = {r1, r2}
    Folders = {1, 2}
    Lakes = {3}
    Hidden = {4}
    Root = 0
    FolderLabels = {Data, Data2}
    ItemLabels = {Lake}
    Alias <- MCAlias
    Files = Files
    Tables = Tables
    None = None
    Unborn = Unborn
    Gone = Gone
    MaxAliases = 4
    MaxEdits = 1
    MaxLists = 2
    MaxMkdirs = 1
    MaxRmdirs = 1
    MaxOps = 3
SYMMETRY Symmetry
CHECK_DEADLOCK FALSE
INVARIANTS NoStaleAfterInvalidate ReadsDoNotGoBack WaitersHaveLeader BudgetsRespected
INVARIANTS AliasesStay OwnChangesSeen
PROPERTIES CreatedAsAsked DeletesEmptied
