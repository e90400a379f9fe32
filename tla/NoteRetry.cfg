SPECIFICATION Spec
CONSTANTS
    t1 = t1
    t2 = t2
    plain = plain
    linking = linking
    blank = blank
    Job = {j1, j2, j3}
    Title = {t1, t2}
    Body = {plain, linking, blank}
    Links <- MCLinks
    Blank = {blank}
    Concurrent = 1
SYMMETRY Interchangeable
CHECK_DEADLOCK FALSE
INVARIANTS
    ResolvedOnceSaved
