\* One mount with the definition API: preflight, compare, update; one with the
\* content API: unconditional, retried PUT.
SPECIFICATION SaveSpec
CONSTANTS
    none = none
    plain = plain
    other = other
    widgets = widgets
    invalid = invalid
    Contents <- MCContents
    Empty = none
    Prepared <- MCPrepared
    Invalid = invalid
    Others = {o1, o2}
    Setups <- MCSetups
    MaxEdits = 2
    MaxSends = 2
SYMMETRY Symmetry
INVARIANTS SavedOrKept ReadYourSave
PROPERTY UpdatesFollowSeen
