\* One peer that is dialled while it may be connected and sends anything but blocks, one
\* that sends the blocks asked of it; one piece of two blocks: endgame.
CONSTANTS
  Peers = {a, b}
  NumPieces = 1
  PieceBlocks = 2
  LastBlocks = 2
  Honest = {b}
  Named = {a}
  Kinds = {}
  Pipeline = 1
  RecheckBatch = 1
  DiskFails = FALSE
  Stops = {}
  Magnet = TRUE
  MetaPieces = 1
  MaxDeclared = 1
  MaxRarity = 2
SPECIFICATION Spec
INVARIANTS
  RequestsWithinPipeline
  BitfieldsAgree
PROPERTIES
  PausedAsksNothing
  MetadataHandedOver
CHECK_DEADLOCK FALSE
