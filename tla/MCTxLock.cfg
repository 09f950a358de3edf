SPECIFICATION FairSpec
CONSTANTS
    None = None
    Faults = {"time"}
    Scenarios <- OneTrouble
    MaxGain = 1
    MaxDrive = 2
    Target = 1
    Safety = 1
    AlcMax = 2
    MaxHeals = 1
    MaxRestarts = 1
PROPERTIES
    DeadRigLocks
    FalseLockEnds
