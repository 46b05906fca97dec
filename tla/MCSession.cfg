SPECIFICATION Spec
CONSTANTS
  MaxAttempts = 2
  MaxCommands = 2
  MaxNotes = 1
INVARIANTS
  TypeOK
  LoggedInAsRegistered
  AnswerIsDue
PROPERTIES
  LoginAnswered
  
  
CHECK_DEADLOCK FALSE
