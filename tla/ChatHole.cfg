SPECIFICATION Spec
CONSTANTS
    Req = {r1, r2, r3}
    RecentTurns = 1
    Trigger = 1
    FoldTo = 1
    Earlier = 1
SYMMETRY Interchangeable
INVARIANTS
    NoHole
CHECK_DEADLOCK FALSE
