SPECIFICATION Spec
CONSTANTS
  Client = {c1, c2}
  Name = {lobby, games}
  Room = {r1, r2, r3}
  NoClient = NoClient
  NoName = NoName
  NoRoom = NoRoom
  MaxClientsPerRoom = 1
SYMMETRY Symmetry
PROPERTY
  OnlyEmptyRoomsFreed
CHECK_DEADLOCK FALSE
