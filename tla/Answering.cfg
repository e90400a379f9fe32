SPECIFICATION Spec
CONSTANTS
    n1 = n1
    n2 = n2
    n3 = n3
    b1 = b1
    b2 = b2
    b3 = b3
    Search = {s1}
    Changes = 2
    Note = {n1, n2, n3}
    Body = {b1, b2, b3}
    NoBody = NoBody
    Text <- MCText
    Chunks <- MCChunks
    Links <- MCLinks
    Dist <- MCDist
    Sim <- MCSim
    Literal <- MCLiteral
    VecDist = 2
    BigmKeep = 3
    BigmLimit = 1
    RrfK = 60
    Scale = 15249024
    Candidates = 4
    TopK = 2
    DefaultLimit = 4
    McpTopKLimit = 4
    Limits = {0}
INVARIANTS
    TypeOK
    AgreementKept
    NothingRelevantDropped
    ReloadAgrees
CHECK_DEADLOCK FALSE
