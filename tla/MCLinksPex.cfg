\* A peer that speaks ut_pex and another one.
CONSTANTS
  me = me
  a = a
  b = b
  Addrs = {me, a, b}
  Self = {me}
  PexPeers = {a}
  MaxLinks = 2
SPECIFICATION Spec
INVARIANT OnlyMetAreNamed
CHECK_DEADLOCK FALSE
