SPECIFICATION Spec
CONSTANTS
  Client = {c1, c2, c3}
  Buffer = {b1, b2, b3, b4, b5}
  NoClient = NoClient
  NoBuffer = NoBuffer
  MaxUploadQueue = 2
SYMMETRY Symmetry
INVARIANT
  FreedAfterCompletion
CHECK_DEADLOCK FALSE
