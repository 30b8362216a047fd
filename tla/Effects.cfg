SPECIFICATION Spec
CONSTANTS
    Attacks <- MCAttacks
    Cards <- MCCards
    MaxBench = 2
    MaxPrizes = 2
    MaxTaken = 2
    Raising <- MCRaising
    Reopening <- MCReopening
    Victorious <- MCVictorious
    Unexamined <- MCUnexamined
    Emptying <- MCEmptying
    PayingTwice <- MCPayingTwice
INVARIANTS TypeOK OnePlace LastPrizeWins PaidIsGone LossesExamined SomebodyLeft PaidOnce
PROPERTIES NeverRaises ResultStays WinnerEarned
