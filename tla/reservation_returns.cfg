SPECIFICATION FairSpec
CONSTANTS
  a1 = a1
  a2 = a2
  p = p
  k1 = k1
  k2 = k2
  NoOwner = NoOwner
  Cards = {k1, k2}
  Apps = {a1, a2}
  Peers = {p}
INVARIANTS
  TypeOK
  NoNameLeaked
PROPERTY AcquireReturns
