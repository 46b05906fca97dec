SPECIFICATION Spec
CONSTANTS
  Client = {c1, c2, c3}
  Name = {lobby, games}
  Room = {r1, r2, r3, r4}
  NoClient = NoClient
  NoName = NoName
  NoRoom = NoRoom
  MaxClientsPerRoom = 2
SYMMETRY Symmetry
INVARIANTS
  TypeOK
  CountMatchesSlots
  
  SeatedClientKeepsRoom
  OnlyLockCycleBlocks
  WaitsOnlyForMutexes
PROPERTIES
  RoomFrozenByBroadcast
  ImplementsChatRooms
CHECK_DEADLOCK FALSE
