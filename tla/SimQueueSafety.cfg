SPECIFICATION Spec
CONSTANTS
    Sim = {1, 2}
    Worker = {w1, w2}
    Api = {a1}
    NoSim = NoSim
    NumRounds = 2
    MaxCrashes = 1
    MaxRedeliveries = 1
    SlowBatches = FALSE
    Killable = {w1, w2, a1}
    CrashSteps = {"insert", "cancel", "rerun", "recover", "count", "pick", "send", "load", "check", "work", "fail"}
INVARIANTS TypeOK ExclusiveRun PendingIsDelivered
PROPERTY OutcomeSticks
SYMMETRY ProcSymmetry
