SPECIFICATION Spec
CONSTANTS
    Keys = {k1, k2, k3}
    MaxFriends = 2
SYMMETRY Symmetry
INVARIANTS
    TunnelsOfTheirFriends
    MistakenByReuseOnly
