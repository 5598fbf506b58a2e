SPECIFICATION Spec
CONSTANTS
  Rate = 3
  Rates = {2, 3}
  NsPerS = 10
  NsPerMs = 2
  MsWrap = 4
  Word = 45
  Block = 2
  Buffer = 4
  MaxTime = 5
  MaxPosition = 10
INVARIANTS
  TypeOK
  CallbackAnswered
  TimestampExact
PROPERTY AnswersAdvance
