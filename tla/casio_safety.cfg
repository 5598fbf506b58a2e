SPECIFICATION Spec
CONSTANTS
  Period = 1
  Buffer = 4
  Block = 2
  c1 = c1
  Channels = {c1}
  PositionWrap = 8
INVARIANTS
  TypeOK
  StoppedIsSilent
  DropIsFinal
  LiveThreadOwnsBuffers
  HalfMatchesPosition
  PrefillFits
  ConfigAgreement
  WaitsOnlyOnStarted
  QueuedWithinLatency
  RecoveryFindsStreamsStopped
  RoundTripFixed
PROPERTY KeepsContract
