SPECIFICATION Spec
CONSTANTS
  A = {a1}  a2 = a2  EA = {ae, af, ag}
  B = {b1}  b2 = b2  EB = {be, bf, bg}
  NoCard = NoCard
  Pokemon <- MCPokemon
  Energy <- MCEnergy
  Decks <- MCDecks
  HP <- MCHP
  PrizeValue <- MCPrizeValue
  Moves <- MCMoves
  RetreatCost = 1
  HandSize = 1
  PrizeCount = 2
  MaxBench = 1
  MaxRedraws = 1
  MaxActions = 1
  MaxTurns = 5
SYMMETRY Alike
INVARIANT EnergyAccounted
