\* Two calls at a time, one retry, three requests that are applied; or two
\* callers, two accounts, two capacities and room for two grants, all of which
\* are valid for two ticks and due after one.
SPECIFICATION MCSpec
CONSTANTS
    Calls = {c1, c2}
    Kinds = {"definition", "update", "item", "plain"}
    MaxRetries = 1
    MaxOps = 3
    Callers = {d1, d2}
    a1 = a1
    k1 = k1
    Accounts = {a1, a2}
    Targets = {t1}
    Capacities = {k1, k2}
    Nothing = Nothing
    RefreshBefore = 1
    MaxGrants = 2
    Lifetimes = {2}
    MaxTime = 2
SYMMETRY Symmetry
INVARIANTS AppliedOnce OutcomeBelongs GrantsApart GrantsBounded
