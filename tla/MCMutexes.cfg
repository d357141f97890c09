SPECIFICATION LocksSpec
CONSTANTS
    Tox = tox
    Http = http
    ApiThreads = {c1, c2, c3}
SYMMETRY Symmetry
INVARIANTS
    NoDeadlock
