SPECIFICATION Spec
CONSTANTS
  Writer = {w1, w2}
  Base = 4
  Prefix = 2
  BufferSize = 4
  Capacity = 3
  MaxSent = 2
  Text <- MCText
  Data <- MCData
INVARIANTS
  TypeOK
  EndsWithConnection
  QuietMeansDelivered
PROPERTIES
  ImplementsMessageChannel
  SentIsDelivered
CHECK_DEADLOCK FALSE
