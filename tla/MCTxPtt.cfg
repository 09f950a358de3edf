SPECIFICATION FairSpec
CONSTANTS
    None = None
    Partners = {"a"}
    Lates = {}
    Users = {}
    Plans <- CallPlans
    Events = {"crash", "lost", "unanswered", "swr", "polls"}
    MaxDrains = 2
INVARIANTS
    PttIsAccountedFor
PROPERTIES
    BurstsAreCutOnPurpose
    PttComesOff
