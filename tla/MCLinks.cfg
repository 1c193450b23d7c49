\* Two peers that speak ut_pex and ourselves, for two slots.
CONSTANTS
  me = me
  a = a
  b = b
  Addrs = {me, a, b}
  Self = {me}
  PexPeers = {a, b}
  MaxLinks = 2
SPECIFICATION Spec
SYMMETRY Symmetry
INVARIANTS
  TypeOK
  NoRoomWasted
  PexAddsUp
CHECK_DEADLOCK FALSE
