SPECIFICATION Spec
CONSTANTS
    Sim = {1}
    Worker = {w1}
    Api = {a1}
    NoSim = NoSim
    NumRounds = 2
    MaxCrashes = 0
    MaxRedeliveries = 0
    SlowBatches = FALSE
    Killable = {}
    CrashSteps = {}
PROPERTY CancelSticks
