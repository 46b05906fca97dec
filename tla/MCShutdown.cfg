SPECIFICATION Spec
CONSTANTS
  Conn = {c1, c2}
  NoConn = NoConn
  Main = Main
  WaitSeconds = 2
INVARIANTS
  TypeOK
  RecordHasOwner
  
  ListedAreTold
  EntriesFreedLate
PROPERTIES
  InterruptHandlerAdvances
  ShutdownEnds
CHECK_DEADLOCK FALSE
