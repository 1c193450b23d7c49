\* Two honest peers that stay, every write succeeds.
CONSTANTS
  Peers = {a, b}
  NumPieces = 1
  PieceBlocks = 2
  LastBlocks = 2
  Honest = {a, b}
  Named = {}
  Kinds = {"good"}
  Pipeline = 1
  RecheckBatch = 1
  DiskFails = FALSE
  Stops = {"Shutdown", "Idle"}
  Magnet = TRUE
  MetaPieces = 2
  MaxDeclared = 2
  MaxRarity = 2
SPECIFICATION FairSpec
PROPERTIES
  Completes
  WritesDrain
CHECK_DEADLOCK FALSE
