SPECIFICATION Spec
CONSTANTS
    Requests = 4
    Parallel = 2
    Mishaps = 2
    Client = {c1}
    User = {u1, u2}
    NoUser = NoUser
    Absent = Absent
    Taken = Taken
    Gone = Gone
SYMMETRY Symmetry
INVARIANTS
    TypeOK
    NoReplay
    OneRefreshToken
    NothingLostInRace
PROPERTIES
    DelegationSpec
CHECK_DEADLOCK FALSE
