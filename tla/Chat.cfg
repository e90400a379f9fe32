SPECIFICATION FairSpec
CONSTANTS
    Req = {r1, r2}
    RecentTurns = 3
    Trigger = 2
    FoldTo = 2
    Earlier = 2
INVARIANTS
    TypeOK
    FoldedExactly
    NothingFoldedTwice
    TurnsFoldWhole
    NewestTurnsInPrompt
PROPERTIES
    RecallSpec
    ShieldedAnswerIsSaved
    RequestsEnd
    LongWindowIsFolded
CHECK_DEADLOCK FALSE
