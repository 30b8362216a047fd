SPECIFICATION Spec
CONSTANTS
    NumRounds = 4
    NumOpps = 1
    Matches = 2
    Target = 100
    Confirm = 2
    TargetMode = "aggregate"
    DeckLocked = FALSE
    MaxCrashes = 1
INVARIANTS TypeOK BestAtCompletion
PROPERTY RevertedStaysOut
CHECK_DEADLOCK FALSE
