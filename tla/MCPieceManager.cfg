\* Two peers, a piece of two blocks and a last piece of one.
CONSTANTS
  Peers = {a, b}
  NumPieces = 2
  PieceBlocks = 2
  LastBlocks = 1
  MaxStale = 1
SPECIFICATION Spec
SYMMETRY Symmetry
INVARIANTS
  TypeOK
  RarityExact
  PendingHeld
  WorkConserving
PROPERTY VerifiedStays
