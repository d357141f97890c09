SPECIFICATION Spec
CONSTANTS
    Friends = {f1}
    Torrents = {t1, t2, t3}
    Batch = 2
    Interval = 1
    Prio = 3
    MaxHashless = 1
    MaxSlots = 6
INVARIANTS
    PassedBound
