SPECIFICATION Spec
CONSTANTS
    a = a
    b = b
    Calls = {a}
    Compound = {}
    OwnCompound = FALSE
    Hash = Hash
    None = None
    qso_max_stale_slots = 2
    qso_max_cq_resends = 1
    ReportLimits = {1}
    RR73_NACHKLANG_MAX = 1
    RESUME_MAX = 1
    hunt_cq_fallback = FALSE
    hunt_cq_fallback_after_slots = 1
    hunt_cq_fallback_max_cqs = 2
    cq_tx_slot_parity = "even"
    BatchKinds = {"slot", "pre", "second", "late"}
    Batches <- EvenA
    TailEnders = {a}
    Commands = {}
    Events = {"hardware", "cooldown", "time", "burst_active", "too_late", "swr"}
    BootModes <- HuntMode
INVARIANTS
    ContextMatchesState
    TransmissionsAreGuarded
