SPECIFICATION AnySpec
CONSTANTS
    a = a
    b = b
    Calls = {a, b}
    Compound = {a}
    OwnCompound = TRUE
    Hash = Hash
    None = None
    qso_max_stale_slots = 1
    qso_max_cq_resends = 0
    ReportLimits = {1}
    RR73_NACHKLANG_MAX = 0
    RESUME_MAX = 1
    hunt_cq_fallback = FALSE
    hunt_cq_fallback_after_slots = 1
    hunt_cq_fallback_max_cqs = 2
    cq_tx_slot_parity = "even"
    BatchKinds = {"slot"}
    Batches <- TwoStations
    TailEnders = {b}
    Commands = {}
    Events = {"cooldown"}
    BootModes <- HuntMode
    Texts = {m}
    Cpus <- OneCpu
    Configs <- DeepLater
    MaxSaves = 0
    MaxFaults = 1
    Operators = {"dk", "do"}
    NoKey = NoKey
    NoPage = NoPage
    Profiles <- BothOrOne
    Heard = {"x"}
    Lifetime <- OneCall
    Clicks = {k}
    QRZ_SYNC_ABSTAND = 1
    SyncEnd = 2
    MaxDeeds = 4
    Inbox <- TwoCards
    Accounts = {"dk"}
    QSL_JE_RUNDE = 1
    QSL_MAX_VERSUCHE = 1
    QSL_FRISCH_TAGE = 1
    MaxDays = 4
    MaxFailures = 1
    MaxRuns = 3
    Wanted = {"c"}
    Persons = {"dk", "do"}
    Schedules <- OneSchedule
    WISH_ABSTAND = 2
    DXPED_ABSTAND = 3
    MaxSightings = 2
    WatchEnd = 4
    MaxWishes = 3
INVARIANTS
    CallsBelongToTheQso
    LoggedWereHeard
    HeardOnce
    CardsWithoutGaps
PROPERTIES
    FetchedIsOwn
    AlertsAreSpaced
CHECK_DEADLOCK FALSE
