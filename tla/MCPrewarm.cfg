\* Two readers and the worker for two slots; two notebooks for a queue with
\* room for one.
SPECIFICATION MCSpec
CONSTANTS
    r1 = r1
    r2 = r2
    n1 = n1
    n2 = n2
    Readers = {r1, r2}
    Warmer = w
    Notebooks = {n1, n2}
    Slots = 2
    QueueCap = 1
    WarmBudget = 1
INVARIANT PendingExact
PROPERTIES SleepersWake CloseEndsWorker
