SPECIFICATION ClientSpec
CONSTANTS
    Keys = {k1, k2, k3}
    SaveTicks = 2
INVARIANTS
    ClientTypeOK
    IdentityLasts
    RequestsPersist
PROPERTIES
    AdminsOnly
    FriendsGetSaved
