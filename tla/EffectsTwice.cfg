SPECIFICATION Spec
CONSTANTS
    Attacks <- MCPayingTwice
    Cards <- NoCards
    MaxBench = 1
    MaxPrizes = 2
    MaxTaken = 1
    Raising <- NoCards
    Reopening <- NoCards
    Victorious <- NoCards
    Unexamined <- NoCards
    Emptying <- NoCards
    PayingTwice <- NoCards
INVARIANT EveryKnockOutOnce
