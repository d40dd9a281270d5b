CONSTANTS
  Writers = {w1}
  Admins = {a1}
  Loaders = {w1}
  Names <- MCNames
  Pins <- MCPins
  Near <- MCNear
  Overlaps <- MCOverlaps
  Synonyms <- MCSynonyms
  Submissions <- MCSubmissions
  Files <- MCFiles
  Moves <- MCMoves
  MaxTxns = 5
  a1 = a1
  a2 = a2
SPECIFICATION Spec
PROPERTY PinsFrozen
CHECK_DEADLOCK FALSE
