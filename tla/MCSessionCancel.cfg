\* An honest peer that stays and another one that may choke us.
CONSTANTS
  Peers = {a, b}
  NumPieces = 1
  PieceBlocks = 1
  LastBlocks = 1
  Honest = {a}
  Named = {}
  Kinds = {"good"}
  Pipeline = 2
  RecheckBatch = 1
  DiskFails = FALSE
  Stops = {"Shutdown", "Idle"}
  Magnet = FALSE
  MetaPieces = 2
  MaxDeclared = 2
  MaxRarity = 2
SPECIFICATION FairSpec
PROPERTY Completes
CHECK_DEADLOCK FALSE
