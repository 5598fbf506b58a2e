SPECIFICATION ThreadsSpec
CONSTANTS
  Period = 1
  Buffer = 4
  Block = 2
  c1 = c1
  Channels = {c1}
  PositionWrap = 4
PROPERTY StopReturns
