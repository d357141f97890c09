SPECIFICATION Spec
CONSTANTS
    a = a
    b = b
    Nodes = {a, b}
    Friendship <- Pair
    Torrents = {t, u}
    Batch = 1
INVARIANTS
    TypeOK
    NoGossip
PROPERTIES
    ImplementsRendezvous
    FriendsMeet
