SPECIFICATION Spec
CONSTANTS
  MaxAttempts = 2
  MaxCommands = 2
  MaxNotes = 1
INVARIANT
  ServerSurvivesDisconnection
CHECK_DEADLOCK FALSE
