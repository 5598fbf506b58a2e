SPECIFICATION Spec
CONSTANTS
  d1 = d1
  d2 = d2
  d3 = d3
  None = None
  Empty = Empty
  Missing = Missing
  Order <- MCOrder
  Type <- MCType
INVARIANTS
  TypeOK
  ItemsListed
  StoredIsUsable
  
PROPERTY RefreshKeepsChoice
