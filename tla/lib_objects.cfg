SPECIFICATION FairLibSpec
CONSTANTS
  a1 = a1
  a2 = a2
  p = p
  o1 = o1
  o2 = o2
  k1 = k1
  k2 = k2
  NoOwner = NoOwner
  NoDevice = NoDevice
  Cards = {k1, k2}
  Apps = {a1}
  Peers = {p}
  Objects = {o1, o2}
INVARIANTS
  OneHolder
PROPERTY CallsReturn
