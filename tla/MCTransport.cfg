SPECIFICATION Spec
CONSTANTS
    small = small
    two = two
    three = three
    oversized = oversized
    Datagrams = {small, two, three, oversized}
    Size <- Sizes
    SingleMax = 2
    FragMax = 2
    ReadMax = 6
    MaxCopies = 2
INVARIANTS
    TypeOK
    BoundedDamage
    FragmentsOnce
PROPERTIES
    LargeArrives
