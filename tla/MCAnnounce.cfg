SPECIFICATION Spec
CONSTANTS
    Friends = {f1}
    Torrents = {t1, t2, t3, t4}
    Batch = 2
    Interval = 2
    Prio = 3
    MaxHashless = 1
    MaxSlots = 2
INVARIANTS
    TypeOK
    RotationFair
    TimesTellPassed
PROPERTIES
    EveryFriendLearns
