SPECIFICATION Spec
CONSTANTS
    Bytes = {0, 1, 33}
    HashSize <- Sizes
    WordSize = 1
    MaxHashes = 2
    MaxSize = 6
INVARIANTS
    Decodes
    SameTorrent
CHECK_DEADLOCK FALSE
