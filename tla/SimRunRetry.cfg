SPECIFICATION FairSpec
CONSTANTS
    NumRounds = 2
    NumOpps = 2
    Matches = 2
    Target = 50
    Confirm = 2
    TargetMode = "per_opponent"
    DeckLocked = FALSE
    MaxCrashes = 1
INVARIANTS NoManualRepair RoundDeckStable AttributedDeck RateFromMatches
PROPERTY LedgerSpec
CHECK_DEADLOCK FALSE
