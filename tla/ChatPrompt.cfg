SPECIFICATION Spec
CONSTANTS
    Req = {r1, r2}
    RecentTurns = 1
    Trigger = 2
    FoldTo = 1
    Earlier = 2
SYMMETRY Interchangeable
INVARIANTS
    PromptWhole
CHECK_DEADLOCK FALSE
