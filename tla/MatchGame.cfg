SPECIFICATION FairSpec
CONSTANTS
  A = {a1, a3}  a2 = a2  EA = {ae, af}
  B = {b1}  b2 = b2  EB = {be, bf}
  NoCard = NoCard
  Pokemon <- MCPokemon
  Energy <- MCEnergy
  Decks <- MCDecks
  HP <- MCHP
  PrizeValue <- MCPrizeValue
  Moves <- MCMoves
  RetreatCost = 1
  HandSize = 1
  PrizeCount = 2
  MaxBench = 1
  MaxRedraws = 1
  MaxActions = 2
  MaxTurns = 4
INVARIANTS TypeOK OnePlace PrizesPaidFor InPlayAlive WinnerEarned
PROPERTIES ResultIsFinal GameEnds
