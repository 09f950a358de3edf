SPECIFICATION Spec
CONSTANTS
    None = None
    Partners = {"a"}
    Lates = {"jt9"}
    Users = {"user"}
    Plans <- ReplyPlans
    Events = {}
    MaxDrains = 2
INVARIANTS
    OneBurst
PROPERTIES
    DeferredIsCurrent
