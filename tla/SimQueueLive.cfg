SPECIFICATION FairSpec
CONSTANTS
    Sim = {1, 2}
    Worker = {w1}
    Api = {a1}
    NoSim = NoSim
    NumRounds = 1
    MaxCrashes = 1
    MaxRedeliveries = 0
    SlowBatches = FALSE
    Killable = {w1, a1}
    CrashSteps = {"insert", "cancel", "rerun", "recover", "count", "pick", "load", "check", "work"}
PROPERTIES QueueDrains ActiveResolves
