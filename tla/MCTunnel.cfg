SPECIFICATION Spec
CONSTANTS
    Friends = {f1, f2, f3}
    FirstPort = 1
    LastPort = 2
    Free = Free
    Other = Other
INVARIANTS
    TypeOK
    AdvertisedIsOpen
    SocketsAccounted
PROPERTIES
    TickSettles
    KeepWhileOnline
    ImplementsDirectory
    TunnelComesUp
    TunnelGoesDown
