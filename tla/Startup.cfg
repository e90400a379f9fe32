SPECIFICATION FairSpec
CONSTANTS
    old = old
    new = new
    Proc = {old, new}
    Files <- MCFiles
    Writes = 3
    Crashes = 2
INVARIANTS
    TypeOK
    MigrationsInOrder
    SchemaReady
    NoOlderSetting
PROPERTIES
    AllComeUp
CHECK_DEADLOCK FALSE
