SPECIFICATION AnySpec
CONSTANTS
    Qsos = {a, b, c}
    Loggers = {slot, late}
    Boot = boot
    NoQso = none
    MaxRows = 2
    NoTarget = NoTarget
    Callers = {"a", "b"}
    Says <- FewDecodes
    Blocks <- RulesAndControl
    hunt_priority <- ByDistance
    hunt_profile = "dx"
    hunt_snr_floor_db <- Floor
    hunt_weak_snr_db <- Weak
    SCHWACH_BONUS_DB = 4
    hunt_sole_min_snr_db <- SoleLimit
    hunt_strict_min_snr_db <- StrictLimit
    TAIL_END_EXPIRY = 2
    TAIL_END_RECENT_CQ = 2
    TAIL_END_COOLDOWN = 3
    Names = {"s"}
    BaseCall <- Licensed
    Idle = Idle
    qso_failed_cooldown = 2
    went_silent_factor = 2
    picked_another_cooldown = 1
    repeat_factor = 2
    qso_failed_cooldown_max = 4
    watchlist_calls = {}
    WATCHLIST_COOLDOWN_MIN = 1
    qso_cooldown = 3
    RECENT_QSO_TTL = 2
    AttemptWindow = 4
    NACHSTEMPEL_FENSTER = 3
    MemoryEnd = 4
    MaxDbFaults = 2
    Nobody = Nobody
    mode_watchdog_min = 2
    alert_cooldown = 2
    cq_idle_timeout_min = 2
    Stories <- OneStory
    Unset = Unset
    fallback_delay = 1
    AP_BETRIEB_FRIST = 2
    AP_RUECKKEHR_NACH = 2
    AP_RUECKKEHR_MAX = 8
    AP_WLAN_GNADENFRIST = 2
    Days <- OneDay
    Texts = {}
    Cpus <- OneCpu
    Configs <- TwoModes
    MaxSaves = 1
    MaxFaults = 0
    Stations = {s1, s2}
    OwnCalls <- TwoCalls
    FileLasts = 2
    MaxTroubles = 3
    Unasked = Unasked
INVARIANTS
    SpotsAreAccountedFor
    PickerMissesOnlyDrained
PROPERTIES
    KeepsTheLedger
    TailEndOncePerDay
    WorkedStaysBlocked
    BackoffSurvives
    DeadChainIsPushed
    StaysReachable
    ComesBackToTheNet
    HotspotLasts
    PickerLearnsWhoHears
CHECK_DEADLOCK FALSE
