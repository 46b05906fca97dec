SPECIFICATION Spec
CONSTANTS
  Thread = {t1, t2, t3}
  User = {alice, bob}
  Info = {i1, i2, i3, i4, i5, i6, i7, i8, i9}
  NoUser = NoUser
  NoInfo = NoInfo
  MaxFd = 3
SYMMETRY Symmetry
INVARIANTS
  TypeOK
  OneEntryPerSession
  ActiveCountIsSessions
  SocketLeadsToOwnEntry
  ConnectedAddresseeReached
  DuplicatesRaced
CHECK_DEADLOCK FALSE
