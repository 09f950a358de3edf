SPECIFICATION Spec
CONSTANTS
    a = a
    b = b
    Calls = {a}
    Compound = {}
    OwnCompound = FALSE
    Hash = Hash
    None = None
    qso_max_stale_slots = 1
    qso_max_cq_resends = 0
    ReportLimits = {1}
    RR73_NACHKLANG_MAX = 1
    RESUME_MAX = 1
    hunt_cq_fallback = TRUE
    hunt_cq_fallback_after_slots = 1
    hunt_cq_fallback_max_cqs = 1
    cq_tx_slot_parity = "even"
    BatchKinds = {"slot"}
    Batches <- ShortA
    TailEnders = {a}
    Commands = {"start_cq", "stop", "panic", "skip_qso", "switch_operator", "reset_lock", "reply_to", "auto_answer", "drain"}
    Events = {"hardware", "cooldown"}
    BootModes <- HuntMode
INVARIANTS
    StoppedStaysOff
PROPERTIES
    CooldownIsKept
