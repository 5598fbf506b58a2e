SPECIFICATION DataSpec
CONSTANTS
  Period = 1
  Buffer = 2
  Block = 1
  c1 = c1
  Channels = {c1}
  PositionWrap = 2
INVARIANTS
  DataTypeOK
  ShowsFreshInput
  OnlyFirstBlockIsStale
