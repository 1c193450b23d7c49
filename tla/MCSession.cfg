\* One peer, two pieces: the disk, the recheck and the network race.
CONSTANTS
  Peers = {a}
  NumPieces = 2
  PieceBlocks = 2
  LastBlocks = 1
  Honest = {}
  Named = {}
  Kinds = {"good", "bad", "outside"}
  Pipeline = 2
  RecheckBatch = 2
  DiskFails = TRUE
  Stops = {"Shutdown", "Idle"}
  Magnet = TRUE
  MetaPieces = 2
  MaxDeclared = 2
  MaxRarity = 2
SPECIFICATION Spec
INVARIANTS
  TypeOK
  VerifiedIsAccounted
  PendingWritesExact
  NeverStuckComplete
PROPERTY DownloadKept
CHECK_DEADLOCK FALSE
