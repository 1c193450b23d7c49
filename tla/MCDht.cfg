CONSTANTS
  n1 = n1
  n2 = n2
  n3 = n3
  n4 = n4
  x = x
  y = y
  w = w
  Bits = 3
  SelfId = {}
  Nodes = {n1, n2, n3, n4}
  IdOf <- MCIdOf
  Addrs = {x, y, w}
  AddrOf <- MCAddrOf
  Hashes <- MCHashes
  K = 1
  Alpha = 2
  MaxCandidates = 2
  Budget = 3
  Attempts = 2
  CacheCap = 1
  Seeds <- MCSeeds
  Askers = {n1}
  MaxNodes = 1
  MaxCommands = 2
SPECIFICATION FairSpec
INVARIANTS
  TypeOK
  BudgetAccounted
  Thorough
  AnnounceReachesGivers
PROPERTIES
  ContactsKept
  AlwaysReturns
CHECK_DEADLOCK FALSE
