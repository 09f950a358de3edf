SPECIFICATION StationSpec
CONSTANTS
    None = None
    Bands <- TwoBands
    RigMax = 2
    Scenarios <- OneStory
    Operators = {"full", "entry"}
    Cap <- Caps
    DefaultPower <- Defaults
    AutopilotBands <- OneBand
    NullProbeThreshold = 2
    Ft4Levels <- NoFt4
PROPERTIES
    LostModeIsTold
    PowerShownIsReal
    DeadFt4IsLeft
