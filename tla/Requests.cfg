SPECIFICATION LiveSpec
CONSTANTS
  alert = alert
  other = other
  main = main
  None = None
  Callers = {alert, other, main}
  Calls <- MCCalls
  CommandQueueCapacity = 2
INVARIANTS
  TypeOK
  RepliesAreTrue
  ReplyHasRoom
  OkIsFinal
PROPERTY
  CallsReturn
CHECK_DEADLOCK FALSE
