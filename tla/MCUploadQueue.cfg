SPECIFICATION FairSpec
CONSTANTS
    Rows <- TwoRows
    OnAir <- TwoCalls
    Home = "home"
    Services = {"QRZ", "ClubLog", "eQSL", "LoTW"}
    MaxTries = 2
    Charge = 1
    BulkMin = 2
    Recheck = 1
    Whims <- OneWhim
INVARIANTS
    MarkedIsAccountedFor
PROPERTIES
    KeepsTheLedger
    EveryRowGoesOut
