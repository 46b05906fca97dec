SPECIFICATION Spec
CONSTANTS
  Name <- MCName
  Line <- MCLine
  Alnum <- MCAlnum
  Extension <- MCExtension
  LocalFile <- MCLocalFile
  Peer <- MCPeer
  NameSize = 2
  LineSize = 7
  RoomNameSize = 2
INVARIANTS
  TypeOK
  
  RefusedForAReason
PROPERTIES
  NameAsTyped
CHECK_DEADLOCK FALSE
