SPECIFICATION AnySpec
CONSTANTS
    Releases = {1, 2, 3}
    Flaws <- SomeFlaws
    MaxKills = 1
    Rows = {q}
    Members = {q}
    Readings = {n}
    Versions = {0, 13}
    MAINTENANCE_INTERVAL = 2
    DB_BACKUP_KEEP = 2
    UpkeepEnd = 4
    MaxCuts = 2
INVARIANTS
    UpdateEndsWell
    StartedIsMigrated
    BackupsAreDaily
PROPERTIES
    ReleaseArrives
CHECK_DEADLOCK FALSE
